-------------------------- MODULE SyncSessionProofs -------------------------
(***************************************************************************)
(* The properties of SyncSession that are not about what happens at last,  *)
(* for every set of waits, both ways to resync, all stop policies and any  *)
(* number of commits, errors, deaths and waits of destroyed sessions.      *)
(***************************************************************************)
EXTENDS SyncSession, SequenceTheorems, TLAPS

-----------------------------------------------------------------------------
(***************************************************************************)
(* The inductive invariant.                                                *)
(***************************************************************************)

IsBagOf(b, S) == DOMAIN b \subseteq S /\ b \in [DOMAIN b -> Nat \ {0}]

CoreWait == [kind : Direction \cup {"death"}, count : Nat, upto : Nat]

WaitsOK == IsBagOf(coreWaits, CoreWait) /\ IsBagOf(staleWaits, CoreWait)

\* A commit that the core session has not been told of is one that was made while a
\* session with an expired token was waiting for a new one, and is remembered.
CommitsOnTheirWay ==
    /\ state \in {"active", "dying"} =>
          deferredCommit = 0 /\ (~strayed => announced = version)
    /\ state = "waiting" /\ session /\ ~strayed =>
          IF deferredCommit = 0 THEN announced = version ELSE deferredCommit = version

\* Registrations of before a resync have an older count, and if a session has been
\* destroyed since the last one, it was not for a resync only.
RegistrationsAreCounted ==
    /\ \A w \in BagToSet(coreWaits) \cup BagToSet(staleWaits) :
          w.kind # "death" => w.count <= resyncs
    /\ \A w \in BagToSet(staleWaits) :
          w.kind # "death" => w.count < resyncs \/ deactivated

\* The wait for the current death covers what was there when it began.
DeathsAreCounted ==
    /\ \A w \in BagToSet(coreWaits) : w.kind = "death" => w.count <= deathCount
    /\ state = "dying" /\ ~strayed =>
          \A w \in BagToSet(coreWaits) :
             w.kind = "death" /\ w.count = deathCount => w.upto >= dyingSince

\* A close that has been deferred may still become a death.
DeferredCloseIsCounted ==
    state = "waiting" /\ deferredClose /\ policy = "AfterChangesUploaded" =>
        deathCount < MaxDeaths

\* What concerns the session, whatever the threads are doing ...
SessionInv ==
    /\ TypeOK /\ WaitsOK
    /\ SessionMatchesState /\ CommitsOnTheirWay
    /\ QueuedWaitsAreRegistered /\ RegistrationsAreCounted /\ ResyncIsTransparent
    /\ DeathsAreCounted /\ DeferredCloseIsCounted

\* What is left to do for an error.
Programs ==
    {<<>>, <<"expired">>, <<"cancel">>, <<"cancel", "cancel">>, <<"inactive">>,
     <<"cancel", "inactive">>, <<"resync", "restore", "revive">>, <<"restore", "revive">>,
     <<"revive">>}
    \cup {<<kind>> : kind \in ErrorKind}

\* An error is followed by one resync at most.
ResyncsFollowErrors ==
    loop \in {<<kind>> : kind \in ErrorKind} \cup {<<"resync", "restore", "revive">>} =>
        resyncs < errors

\* Handlers are set aside only until the step that restores them.
AsideDuringResync == aside # NoWaits => loop = <<"restore", "revive">>

\* A session that is closing is not referenced, unless a reference has strayed.
ClosingIsUnreferenced == ~strayed /\ Closing => ~referenced

\* ... and what concerns the event loop and the references.
ThreadInv ==
    /\ loop \in Programs /\ ResyncsFollowErrors /\ AsideDuringResync
    /\ ClosingIsUnreferenced

IInv == SessionInv /\ ThreadInv

-----------------------------------------------------------------------------
(***************************************************************************)
(* Bags of waits, and programs of the event loop.                          *)
(***************************************************************************)

\* One operation for each member of a set.
LEMMA BagOfSet ==
    ASSUME NEW S, NEW T \in SUBSET S
    PROVE  IsBagOf(SetToBag(T), S) /\ BagToSet(SetToBag(T)) = T
BY DEF IsBagOf, SetToBag, BagToSet

\* No operation.
LEMMA NoBag ==
    ASSUME NEW S
    PROVE  IsBagOf(EmptyBag, S) /\ BagToSet(EmptyBag) = {}
BY BagOfSet DEF EmptyBag

\* Operations are added.
LEMMA BagOfBoth ==
    ASSUME NEW S, NEW a, NEW b, IsBagOf(a, S), IsBagOf(b, S)
    PROVE  IsBagOf(a (+) b, S) /\ BagToSet(a (+) b) = BagToSet(a) \cup BagToSet(b)
<1> DEFINE c == a (+) b
<1>1. DOMAIN c = DOMAIN a \cup DOMAIN b
  BY DEF (+)
<1>2. ASSUME NEW e \in DOMAIN c PROVE c[e] \in Nat \ {0}
  BY <1>1, <1>2 DEF (+), IsBagOf
<1>3. c = [e \in DOMAIN c |-> c[e]]
  BY DEF (+)
<1> HIDE DEF c
<1>4. IsBagOf(c, S)
  BY <1>1, <1>2, <1>3 DEF IsBagOf
<1> QED
  BY <1>1, <1>4 DEF BagToSet, c

\* One that is over is removed; an equal one may stay, others do.
LEMMA BagWithout ==
    ASSUME NEW S, NEW b, IsBagOf(b, S), NEW w
    PROVE  /\ IsBagOf(Remove(w, b), S)
           /\ BagToSet(Remove(w, b)) \subseteq BagToSet(b)
           /\ \A e \in BagToSet(b) : e # w => e \in BagToSet(Remove(w, b))
<1> DEFINE r == [e \in DOMAIN b |-> IF e \in {w} THEN b[e] - 1 ELSE b[e]]
           kept == {d \in DOMAIN b : r[d] > 0}
<1>1. Remove(w, b) = [e \in kept |-> r[e]]
  BY DEF Remove, (-), SetToBag
<1>2. \A e \in DOMAIN b : b[e] \in Nat \ {0}
  BY DEF IsBagOf
<1>3. \A e \in kept : r[e] \in Nat \ {0}
  BY <1>2
<1>4. \A e \in DOMAIN b : e # w => e \in kept
  BY <1>2
<1> HIDE DEF r
<1> QED
  BY <1>1, <1>3, <1>4 DEF IsBagOf, BagToSet

\* The waits that a new state registers.
LEMMA WaitsRegistered ==
    ASSUME TypeOK, NEW kinds \in SUBSET Direction, NEW upto \in Nat
    PROVE  /\ IsBagOf(WaitFor(kinds, upto), CoreWait)
           /\ \A w \in BagToSet(WaitFor(kinds, upto)) : w.count = resyncs /\ w.kind # "death"
           /\ \A d \in kinds : \E w \in BagToSet(WaitFor(kinds, upto)) :
                 w.kind = d /\ w.count = resyncs
<1> DEFINE Made(d) == [kind |-> d, count |-> resyncs, upto |-> IF d = "upload" THEN upto ELSE 0]
           T == {Made(d) : d \in kinds}
<1>1. resyncs \in Nat
  BY DEF TypeOK
<1>2. \A d \in kinds : Made(d) \in CoreWait
  BY <1>1 DEF CoreWait
<1>3. T \in SUBSET CoreWait
  BY <1>2
<1>4. WaitFor(kinds, upto) = SetToBag(T)
  BY DEF WaitFor
<1>5. IsBagOf(WaitFor(kinds, upto), CoreWait) /\ BagToSet(WaitFor(kinds, upto)) = T
  BY <1>3, <1>4, BagOfSet
<1>6. \A d \in kinds : Made(d).kind = d /\ Made(d).count = resyncs /\ d # "death"
  BY DEF Direction
<1> HIDE DEF Made
<1> QED
  BY <1>5, <1>6

\* The wait that a death registers.
LEMMA DeathRegistered ==
    ASSUME TypeOK, NEW upto \in Nat
    PROVE  /\ IsBagOf(DeathWait(upto), CoreWait)
           /\ \A w \in BagToSet(DeathWait(upto)) :
                 w.kind = "death" /\ w.count = deathCount + 1 /\ w.upto = upto
<1> DEFINE made == [kind |-> "death", count |-> deathCount + 1, upto |-> upto]
<1>1. made \in CoreWait
  BY DEF CoreWait, TypeOK
<1>2. made.kind = "death" /\ made.count = deathCount + 1 /\ made.upto = upto
  OBVIOUS
<1> HIDE DEF made
<1>3. IsBagOf(DeathWait(upto), CoreWait) /\ BagToSet(DeathWait(upto)) = {made}
  BY <1>1, BagOfSet DEF DeathWait, made
<1> QED
  BY <1>2, <1>3

\* Two steps in a row.
LEMMA OneAndOne ==
    ASSUME NEW a, NEW b
    PROVE  <<a>> \o <<b>> = <<a, b>>
<1> DEFINE S == {a, b}
           c == <<a>> \o <<b>>
<1>1. <<a>> \in Seq(S) /\ <<b>> \in Seq(S) /\ a \in S /\ b \in S
  OBVIOUS
<1>2. Len(<<a>>) = 1 /\ Len(<<b>>) = 1 /\ <<a>>[1] = a /\ <<b>>[1] = b
  OBVIOUS
<1>3. /\ c \in Seq(S) /\ Len(c) = Len(<<a>>) + Len(<<b>>)
      /\ \A i \in 1 .. Len(<<a>>) + Len(<<b>>) :
            c[i] = IF i <= Len(<<a>>) THEN <<a>>[i] ELSE <<b>>[i - Len(<<a>>)]
  BY <1>1, ConcatProperties
<1> HIDE DEF S, c
<1>4. Len(c) = 2 /\ c[1] = a /\ c[2] = b /\ c \in Seq(S)
  BY <1>2, <1>3
<1>5. c = <<a, b>>
  BY <1>4
<1> QED
  BY <1>5 DEF c

\* What is left of a program after its first step.
LEMMA ProgramSteps ==
    ASSUME loop \in Programs, ~Idle
    PROVE  /\ Head(loop) = "cancel" => Tail(loop) \in {<<>>, <<"cancel">>, <<"inactive">>}
           /\ Head(loop) \in {"inactive", "expired", "revive"} => Tail(loop) = <<>>
           /\ Head(loop) = "resync" => /\ loop = <<"resync", "restore", "revive">>
                                       /\ Tail(loop) = <<"restore", "revive">>
           /\ Head(loop) = "restore" => /\ loop = <<"restore", "revive">>
                                        /\ Tail(loop) = <<"revive">>
           /\ Head(loop) \in ErrorKind => loop = <<Head(loop)>>
<1>1. ASSUME NEW a PROVE Head(<<a>>) = a /\ Tail(<<a>>) = <<>>
  OBVIOUS
<1>2. ASSUME NEW a, NEW b PROVE Head(<<a, b>>) = a /\ Tail(<<a, b>>) = <<b>>
  OBVIOUS
<1>3. ASSUME NEW a, NEW b, NEW c PROVE Head(<<a, b, c>>) = a /\ Tail(<<a, b, c>>) = <<b, c>>
  OBVIOUS
<1>4. CASE \E a \in {"expired", "cancel", "inactive", "revive"} \cup ErrorKind : loop = <<a>>
  <2>1. PICK a \in {"expired", "cancel", "inactive", "revive"} \cup ErrorKind : loop = <<a>>
    BY <1>4
  <2>2. Head(loop) = a /\ Tail(loop) = <<>>
    BY <2>1, <1>1
  <2>3. a # "resync" /\ a # "restore"
    BY DEF ErrorKind
  <2> QED
    BY <2>1, <2>2, <2>3
<1>5. CASE \E b \in {"cancel", "inactive"} : loop = <<"cancel", b>>
  <2>1. PICK b \in {"cancel", "inactive"} : loop = <<"cancel", b>>
    BY <1>5
  <2>2. Head(loop) = "cancel" /\ Tail(loop) = <<b>>
    BY <2>1, <1>2
  <2> QED
    BY <2>1, <2>2 DEF ErrorKind
<1>6. CASE loop = <<"restore", "revive">>
  <2>1. Head(loop) = "restore" /\ Tail(loop) = <<"revive">>
    BY <1>6, <1>2
  <2> QED
    BY <1>6, <2>1 DEF ErrorKind
<1>7. CASE loop = <<"resync", "restore", "revive">>
  <2>1. Head(loop) = "resync" /\ Tail(loop) = <<"restore", "revive">>
    BY <1>7, <1>3
  <2> QED
    BY <1>7, <2>1 DEF ErrorKind
<1>8. loop # <<>>
  BY DEF Idle
<1> QED
  BY <1>4, <1>5, <1>6, <1>7, <1>8 DEF Programs

\* The programs are sequences of steps and errors, and differ where it matters.
LEMMA ProgramTypes ==
    /\ Programs \subseteq Seq(Step \cup ErrorKind)
    /\ \A p \in {<<>>, <<"cancel">>, <<"inactive">>, <<"revive">>, <<"restore", "revive">>} :
          /\ p \in Programs /\ p # <<"resync", "restore", "revive">>
          /\ \A kind \in ErrorKind : p # <<kind>>
    /\ \A kind \in ErrorKind : <<kind>> \in Programs
    /\ \A p \in {<<>>, <<"cancel">>, <<"inactive">>, <<"revive">>} : p # <<"restore", "revive">>
    /\ <<"resync", "restore", "revive">> # <<"restore", "revive">>
    /\ \A a : <<a>> # <<"restore", "revive">>
<1>1. ASSUME NEW p \in Programs PROVE p \in Seq(Step \cup ErrorKind)
  <2> DEFINE S == Step \cup ErrorKind
  <2>1. /\ "expired" \in S /\ "cancel" \in S /\ "inactive" \in S /\ "resync" \in S
        /\ "restore" \in S /\ "revive" \in S /\ ErrorKind \subseteq S
    BY DEF Step
  <2> HIDE DEF S
  <2>2. ASSUME NEW a \in S, p = <<a>> PROVE p \in Seq(S)
    BY <2>2
  <2>3. ASSUME NEW a \in S, NEW b \in S, p = <<a, b>> PROVE p \in Seq(S)
    BY <2>3
  <2>4. ASSUME p = <<"resync", "restore", "revive">> PROVE p \in Seq(S)
    BY <2>1, <2>4
  <2>5. ASSUME p = <<>> PROVE p \in Seq(S)
    BY <2>5
  <2>6. p \in Seq(S)
    BY <2>1, <2>2, <2>3, <2>4, <2>5 DEF Programs
  <2> QED
    BY <2>6 DEF S
<1>2. ASSUME NEW p \in {<<>>, <<"cancel">>, <<"inactive">>, <<"revive">>,
                        <<"restore", "revive">>}
      PROVE  /\ p \in Programs /\ p # <<"resync", "restore", "revive">>
             /\ \A kind \in ErrorKind : p # <<kind>>
  <2>1. p \in Programs
    BY DEF Programs
  <2>2. Len(p) \in {0, 1, 2}
    OBVIOUS
  <2>3. p # <<"resync", "restore", "revive">>
    BY <2>2
  <2>4. ASSUME NEW kind \in ErrorKind PROVE p # <<kind>>
    BY DEF ErrorKind
  <2> QED
    BY <2>1, <2>3, <2>4
<1>3. \A kind \in ErrorKind : <<kind>> \in Programs
  BY DEF Programs
<1>4. \A a : <<a>> # <<"restore", "revive">>
  OBVIOUS
<1> QED
  BY <1>1, <1>2, <1>3, <1>4

\* What handle_error still has to do.
LEMMA HandlingIsProgram ==
    ASSUME NEW kind \in ErrorKind
    PROVE  /\ Handling(kind) \in Programs
           /\ Handling(kind) # <<"restore", "revive">>
           /\ Handling(kind) \notin {<<k>> : k \in ErrorKind}
<1>1. ResyncMode \in {"Manual", "Recover"} /\ CancelWaitsOnNonfatalError \in BOOLEAN
  BY SyncSessionAssumption
<1> DEFINE c == IF CancelWaitsOnNonfatalError THEN <<"cancel">> ELSE <<>>
<1>2. Handling(kind) \in {<<>>, <<"expired">>, <<"cancel">> \o c, <<"inactive">>, <<"cancel">>,
                          <<"cancel", "inactive">>, <<"resync", "restore", "revive">>, c}
  BY <1>1 DEF Handling, ErrorKind
<1>3. c \in {<<>>, <<"cancel">>} /\ <<"cancel">> \o c \in {<<"cancel">>, <<"cancel", "cancel">>}
  <2>1. <<"cancel">> \in Seq(Step) /\ <<>> \in Seq(Step) /\ Len(<<"cancel">>) = 1
    BY DEF Step
  <2>2. <<"cancel">> \o <<>> = <<"cancel">>
    BY <2>1, ConcatEmptySeq
  <2>3. <<"cancel">> \o <<"cancel">> = <<"cancel", "cancel">>
    BY OneAndOne
  <2> QED
    BY <2>2, <2>3
<1> HIDE DEF c
<1>4. Handling(kind) \in {<<>>, <<"expired">>, <<"inactive">>, <<"cancel">>,
         <<"cancel", "cancel">>, <<"cancel", "inactive">>, <<"resync", "restore", "revive">>}
  BY <1>2, <1>3
<1> QED
  BY <1>4 DEF Programs, ErrorKind

-----------------------------------------------------------------------------
(***************************************************************************)
(* The types, one by one: of the session ...                               *)
(***************************************************************************)
SessionTypes ==
    /\ state \in {"inactive", "waiting", "active", "dying"} /\ policy \in Policies
    /\ session \in BOOLEAN /\ connection \in BOOLEAN /\ deferredClose \in BOOLEAN
    /\ asked \in BOOLEAN /\ terminating \in BOOLEAN /\ deactivated \in BOOLEAN
    /\ strayed \in BOOLEAN /\ overtaken \in BOOLEAN
    /\ queue \in [Direction -> SUBSET Waits] /\ aside \in [Direction -> SUBSET Waits]
    /\ deferredCommit \in 0 .. version /\ announced \in 0 .. version
    /\ version \in 0 .. MaxCommits /\ uploaded \in 0 .. version
    /\ deathCount \in 0 .. MaxDeaths /\ resyncs \in 0 .. errors /\ errors \in 0 .. MaxErrors
    /\ outcome \in [Waits -> {"none", "pending", "ok", "aborted", "error"}]
    /\ need \in [Waits -> 0 .. version] /\ dyingSince \in 0 .. version

\* ... and of the threads.
ThreadTypes ==
    /\ loop \in Seq(Step \cup ErrorKind)
    /\ updating \in {"no", "retry", "revive"}
    /\ getting \in {"no", "revive", "refer", "revived"}
    /\ referenced \in BOOLEAN

\* They are what TypeOK says.
LEMMA TypeParts ==
    /\ TypeOK <=> SessionTypes /\ ThreadTypes
    /\ TypeOK' <=> SessionTypes' /\ ThreadTypes'
BY Zenon DEF TypeOK, SessionTypes, ThreadTypes

\* The bounds are natural numbers.
LEMMA Bounds == MaxCommits \in Nat /\ MaxErrors \in Nat /\ MaxDeaths \in Nat
BY SyncSessionAssumption

-----------------------------------------------------------------------------
(***************************************************************************)
(* The states.                                                             *)
(***************************************************************************)

\* All of the session that the invariant speaks of, but for its types, stays as it is.
LEMMA SessionUnchanged ==
    ASSUME SessionInv, TypeOK',
           UNCHANGED <<state, session, strayed, deferredCommit, announced, version, overtaken,
                       queue, coreWaits, staleWaits, resyncs, deactivated, outcome,
                       deathCount, dyingSince, deferredClose, policy>>
    PROVE  SessionInv'
<1>1. WaitsOK' /\ SessionMatchesState' /\ CommitsOnTheirWay'
  BY DEF SessionInv, WaitsOK, IsBagOf, SessionMatchesState, CommitsOnTheirWay
<1>2. QueuedWaitsAreRegistered'
  BY DEF SessionInv, QueuedWaitsAreRegistered, Pending, BagToSet
<1>3. RegistrationsAreCounted' /\ ResyncIsTransparent'
  BY DEF SessionInv, RegistrationsAreCounted, ResyncIsTransparent, BagToSet
<1>4. DeathsAreCounted' /\ DeferredCloseIsCounted'
  BY DEF SessionInv, DeathsAreCounted, DeferredCloseIsCounted, BagToSet
<1> QED
  BY <1>1, <1>2, <1>3, <1>4 DEF SessionInv

\* A session that is destroyed leaves no operation in progress behind.
LEMMA SessionDestroyed ==
    ASSUME SessionInv, NEW current, NEW stale,
           IsBagOf(current, CoreWait), BagToSet(current) \subseteq BagToSet(coreWaits),
           IsBagOf(stale, CoreWait), BagToSet(stale) \subseteq BagToSet(staleWaits),
           DestroySession(current, stale)
    PROVE  /\ WaitsOK' /\ session' = FALSE /\ terminating' \in BOOLEAN
           /\ BagToSet(coreWaits') = {}
           /\ BagToSet(staleWaits') \subseteq BagToSet(coreWaits) \cup BagToSet(staleWaits)
<1>1. IsBagOf(coreWaits', CoreWait) /\ BagToSet(coreWaits') = {}
  BY NoBag DEF DestroySession
<1>2. /\ IsBagOf(staleWaits', CoreWait)
      /\ BagToSet(staleWaits') = BagToSet(stale) \cup BagToSet(current)
  BY BagOfBoth DEF DestroySession
<1>3. terminating' \in BOOLEAN /\ session' = FALSE
  BY TypeParts DEF DestroySession, SessionInv, SessionTypes
<1> QED
  BY <1>1, <1>2, <1>3 DEF WaitsOK

\* Inactive::enter_state.
LEMMA EnterInactiveStep ==
    ASSUME SessionInv, ThreadTypes', NEW current, NEW stale,
           IsBagOf(current, CoreWait), BagToSet(current) \subseteq BagToSet(coreWaits),
           IsBagOf(stale, CoreWait), BagToSet(stale) \subseteq BagToSet(staleWaits),
           EnterInactive(current, stale)
    PROVE  SessionInv'
<1>1. /\ WaitsOK' /\ session' = FALSE /\ terminating' \in BOOLEAN
      /\ BagToSet(coreWaits') = {}
      /\ BagToSet(staleWaits') \subseteq BagToSet(coreWaits) \cup BagToSet(staleWaits)
      /\ state' = "inactive" /\ deactivated' = TRUE
  BY SessionDestroyed DEF EnterInactive
<1>2. TypeOK'
  <2>1. SessionTypes
    BY TypeParts DEF SessionInv
  <2>2. /\ queue' \in [Direction -> SUBSET Waits]
        /\ outcome' \in [Waits -> {"none", "pending", "ok", "aborted", "error"}]
    BY <2>1 DEF EnterInactive, NoWaits, Finish, SessionTypes
  <2>3. SessionTypes'
    BY <1>1, <2>1, <2>2 DEF EnterInactive, data, counts, SessionTypes
  <2> QED
    BY <2>3, TypeParts
<1>3. RegistrationsAreCounted'
  BY <1>1 DEF EnterInactive, counts, SessionInv, RegistrationsAreCounted
<1> QED
  BY <1>1, <1>2, <1>3 DEF SessionInv, SessionMatchesState, CommitsOnTheirWay,
     QueuedWaitsAreRegistered, ResyncIsTransparent, DeathsAreCounted, DeferredCloseIsCounted

\* Inactive::enter_state with the operations that are in progress.
LEMMA BecomesInactive ==
    ASSUME SessionInv, ThreadTypes', EnterInactive(coreWaits, staleWaits)
    PROVE  SessionInv'
BY EnterInactiveStep DEF SessionInv, WaitsOK

\* WaitingForAccessToken::enter_state, from Inactive or from Active.
LEMMA EnterWaitingStep ==
    ASSUME SessionInv, ThreadTypes', state \in {"inactive", "active"}, EnterWaiting
    PROVE  SessionInv'
<1>1. TypeOK'
  <2>1. SessionTypes
    BY TypeParts DEF SessionInv
  <2>2. SessionTypes'
    BY <2>1 DEF EnterWaiting, core, waits, data, counts, ghosts, SessionTypes
  <2> QED
    BY <2>2, TypeParts
<1>2. WaitsOK' /\ SessionMatchesState' /\ CommitsOnTheirWay' /\ QueuedWaitsAreRegistered'
  BY DEF EnterWaiting, core, data, ghosts, SessionInv, WaitsOK, IsBagOf, SessionMatchesState,
     CommitsOnTheirWay, QueuedWaitsAreRegistered
<1>3. RegistrationsAreCounted' /\ ResyncIsTransparent'
  BY DEF EnterWaiting, core, waits, counts, ghosts, SessionInv, RegistrationsAreCounted,
     ResyncIsTransparent, BagToSet
<1>4. DeathsAreCounted' /\ DeferredCloseIsCounted'
  BY DEF EnterWaiting, core, counts, SessionInv, DeathsAreCounted, DeferredCloseIsCounted,
     BagToSet
<1> QED
  BY <1>1, <1>2, <1>3, <1>4 DEF SessionInv

\* The directions in which a callback is queued.
LEMMA PendingDirections == Pending \in SUBSET Direction
BY DEF Pending

\* Active::enter_state, from Dying.
LEMMA EnterActiveStep ==
    ASSUME SessionInv, ThreadTypes', state = "dying", EnterActive
    PROVE  SessionInv'
<1> DEFINE new == WaitFor(Pending, announced)
<1>1. SessionTypes
  BY TypeParts DEF SessionInv
<1>2. /\ IsBagOf(new, CoreWait)
      /\ \A w \in BagToSet(new) : w.count = resyncs /\ w.kind # "death"
      /\ \A d \in Pending : \E w \in BagToSet(new) : w.kind = d /\ w.count = resyncs
  <2>1. announced \in Nat
    BY <1>1 DEF SessionTypes
  <2> QED
    BY <2>1, PendingDirections, WaitsRegistered DEF SessionInv
<1> HIDE DEF new
<1>3. coreWaits' = coreWaits (+) new /\ state' = "active"
  BY DEF EnterActive, new
<1>4. /\ IsBagOf(coreWaits', CoreWait)
      /\ BagToSet(coreWaits') = BagToSet(coreWaits) \cup BagToSet(new)
  BY <1>2, <1>3, BagOfBoth DEF SessionInv, WaitsOK
<1>5. TypeOK'
  <2>1. SessionTypes'
    BY <1>1, <1>3 DEF EnterActive, waits, data, counts, ghosts, SessionTypes
  <2> QED
    BY <2>1, TypeParts
<1>6. WaitsOK' /\ SessionMatchesState' /\ CommitsOnTheirWay'
  BY <1>3, <1>4 DEF EnterActive, data, ghosts, SessionInv, WaitsOK, IsBagOf,
     SessionMatchesState, CommitsOnTheirWay
<1>7. QueuedWaitsAreRegistered'
  <2>1. Pending' = Pending /\ resyncs' = resyncs
    BY DEF EnterActive, waits, counts, Pending
  <2> QED
    BY <1>2, <1>4, <2>1 DEF QueuedWaitsAreRegistered
<1>8. RegistrationsAreCounted' /\ ResyncIsTransparent'
  <2>1. resyncs \in Int
    BY <1>1 DEF SessionTypes
  <2> QED
    BY <1>2, <1>4, <2>1 DEF EnterActive, waits, counts, ghosts, SessionInv,
       RegistrationsAreCounted, ResyncIsTransparent
<1>9. DeathsAreCounted' /\ DeferredCloseIsCounted'
  BY <1>2, <1>3, <1>4 DEF EnterActive, counts, SessionInv, DeathsAreCounted,
     DeferredCloseIsCounted
<1> QED
  BY <1>5, <1>6, <1>7, <1>8, <1>9 DEF SessionInv

\* Dying::enter_state, from Active.
LEMMA EnterDyingStep ==
    ASSUME SessionInv, ThreadTypes', state = "active", deathCount < MaxDeaths, EnterDying
    PROVE  SessionInv'
<1> DEFINE new == DeathWait(announced)
<1>1. SessionTypes
  BY TypeParts DEF SessionInv
<1>2. /\ IsBagOf(new, CoreWait)
      /\ \A w \in BagToSet(new) :
            w.kind = "death" /\ w.count = deathCount + 1 /\ w.upto = announced
  <2>1. announced \in Nat
    BY <1>1 DEF SessionTypes
  <2> QED
    BY <2>1, DeathRegistered DEF SessionInv
<1> HIDE DEF new
<1>3. coreWaits' = coreWaits (+) new /\ state' = "dying" /\ deathCount' = deathCount + 1
  BY DEF EnterDying, new
<1>4. /\ IsBagOf(coreWaits', CoreWait)
      /\ BagToSet(coreWaits') = BagToSet(coreWaits) \cup BagToSet(new)
  BY <1>2, <1>3, BagOfBoth DEF SessionInv, WaitsOK
<1>5. deathCount \in Nat /\ version \in Nat
  BY <1>1 DEF SessionTypes
<1>6. TypeOK'
  <2>1. deathCount' \in 0 .. MaxDeaths /\ dyingSince' \in 0 .. version
    BY <1>5, Bounds DEF EnterDying
  <2>2. SessionTypes'
    BY <1>1, <1>3, <2>1 DEF EnterDying, waits, data, SessionTypes
  <2> QED
    BY <2>2, TypeParts
<1>7. WaitsOK' /\ SessionMatchesState' /\ CommitsOnTheirWay'
  BY <1>3, <1>4 DEF EnterDying, data, SessionInv, WaitsOK, IsBagOf,
     SessionMatchesState, CommitsOnTheirWay
<1>8. QueuedWaitsAreRegistered'
  <2>1. Pending' = Pending /\ UNCHANGED <<resyncs, overtaken>>
    BY DEF EnterDying, waits, Pending
  <2> QED
    BY <1>4, <2>1 DEF SessionInv, QueuedWaitsAreRegistered
<1>9. RegistrationsAreCounted' /\ ResyncIsTransparent'
  BY <1>2, <1>4 DEF EnterDying, waits, SessionInv, RegistrationsAreCounted,
     ResyncIsTransparent
<1>10. DeathsAreCounted' /\ DeferredCloseIsCounted'
  <2>1. \A w \in BagToSet(coreWaits) :
           w.kind = "death" => w.count \in Nat /\ w.count <= deathCount
    <3>1. \A w \in BagToSet(coreWaits) : w.count \in Nat
      BY DEF SessionInv, WaitsOK, IsBagOf, BagToSet, CoreWait
    <3> QED
      BY <3>1 DEF SessionInv, DeathsAreCounted
  <2>2. ~strayed' => announced = version /\ dyingSince' = version
    BY DEF EnterDying, SessionInv, CommitsOnTheirWay
  <2> QED
    BY <1>2, <1>3, <1>4, <1>5, <2>1, <2>2 DEF DeathsAreCounted, DeferredCloseIsCounted
<1> QED
  BY <1>6, <1>7, <1>8, <1>9, <1>10 DEF SessionInv

\* revive_if_needed, whoever calls it.
LEMMA ReviveStep ==
    ASSUME SessionInv, ThreadTypes', Revive
    PROVE  SessionInv'
<1>1. CASE state \in {"inactive", "dying"}
  BY <1>1, EnterWaitingStep, EnterActiveStep DEF Revive
<1>2. CASE state = "waiting" /\ deferredClose' = FALSE
  <2>1. UNCHANGED <<state, policy, connection, asked, core, waits, data, counts, ghosts>>
    BY <1>2 DEF Revive
  <2>2. TypeOK'
    <3>1. SessionTypes
      BY TypeParts DEF SessionInv
    <3>2. SessionTypes'
      BY <1>2, <2>1, <3>1 DEF core, waits, data, counts, ghosts, SessionTypes
    <3> QED
      BY <3>2, TypeParts
  <2>3. WaitsOK' /\ SessionMatchesState' /\ CommitsOnTheirWay' /\ ResyncIsTransparent'
    BY <2>1 DEF core, waits, data, ghosts, SessionInv, WaitsOK, IsBagOf, SessionMatchesState,
       CommitsOnTheirWay, ResyncIsTransparent
  <2>4. QueuedWaitsAreRegistered' /\ RegistrationsAreCounted' /\ DeathsAreCounted'
    BY <1>2, <2>1 DEF core, counts, ghosts, SessionInv, QueuedWaitsAreRegistered,
       RegistrationsAreCounted, DeathsAreCounted, BagToSet
  <2> QED
    BY <1>2, <2>2, <2>3, <2>4 DEF SessionInv, DeferredCloseIsCounted
<1>3. CASE state = "active"
  <2>1. UNCHANGED <<state, policy, connection, deferredClose, asked, core, waits, data,
                    counts, ghosts>>
    BY <1>3 DEF Revive
  <2>2. SessionTypes /\ SessionTypes'
    BY <2>1, TypeParts DEF core, waits, data, counts, ghosts, SessionInv, SessionTypes
  <2> QED
    BY <2>1, <2>2, TypeParts, SessionUnchanged DEF core, waits, data, counts, ghosts
<1> QED
  BY <1>1, <1>2, <1>3 DEF Revive

-----------------------------------------------------------------------------
(***************************************************************************)
(* The event loop and the references.                                      *)
(***************************************************************************)

\* What does not reach the event loop's work and the handlers that are set aside.
LEMMA LoopUnchanged ==
    ASSUME IInv, UNCHANGED <<loop, aside, resyncs, errors>>, ClosingIsUnreferenced'
    PROVE  ThreadInv'
BY DEF IInv, ThreadInv, ResyncsFollowErrors, AsideDuringResync

\* What leaves the session as near to its end as it was.
LEMMA ClosingUnchanged ==
    ASSUME ClosingIsUnreferenced, UNCHANGED <<state, deferredClose, strayed, referenced>>
    PROVE  ClosingIsUnreferenced'
BY DEF ClosingIsUnreferenced, Closing

\* Becoming inactive and reviving end a close that is under way, or there is none.
LEMMA NotClosing ==
    ASSUME EnterInactive(coreWaits, staleWaits) \/ Revive
    PROVE  ClosingIsUnreferenced'
BY DEF EnterInactive, Revive, EnterWaiting, EnterActive, ClosingIsUnreferenced, Closing

\* The blocks of advance_state leave the event loop's counters alone.
LEMMA BlocksKeepCounts ==
    ASSUME NEW current, NEW stale, EnterInactive(current, stale) \/ Revive
    PROVE  UNCHANGED <<aside, resyncs, errors, strayed, need>>
BY DEF EnterInactive, Revive, EnterWaiting, EnterActive, waits, counts, ghosts

\* The threads' types follow from what is left to do.
LEMMA ThreadsTyped ==
    ASSUME loop' \in Programs,
           updating' \in {"no", "retry", "revive"},
           getting' \in {"no", "revive", "refer", "revived"}, referenced' \in BOOLEAN
    PROVE  ThreadTypes'
BY ProgramTypes DEF ThreadTypes

\* User threads and the binding.
LEMMA UserThreads ==
    ASSUME IInv, UserStep
    PROVE  ThreadTypes' /\ ThreadInv'
<1>1. SessionTypes /\ ThreadTypes /\ loop \in Programs /\ ClosingIsUnreferenced
  BY TypeParts DEF IInv, SessionInv, ThreadInv
<1>2. CASE \/ ReviveIfNeeded \/ ReviveNew \/ UpdateConfigurationRevives
           \/ GetExisting /\ getting' = "revived"
  <2>1. /\ Revive /\ loop' = loop /\ updating' \in {updating, "no"}
        /\ getting' \in {getting, "no", "revived"} /\ referenced' = referenced
    BY <1>2 DEF ReviveIfNeeded, ReviveNew, UpdateConfigurationRevives, GetExisting, Threads
  <2>2. ThreadTypes'
    BY <1>1, <2>1 DEF ThreadTypes
  <2> QED
    BY <2>1, <2>2, NotClosing, BlocksKeepCounts, LoopUnchanged
<1>3. CASE GetExisting /\ getting' = "refer"
  <2>1. /\ UNCHANGED <<loop, updating, referenced, state, deferredClose, strayed, aside,
                       resyncs, errors>>
        /\ getting' = "refer"
    BY <1>3 DEF GetExisting, waits, counts, ghosts
  <2>2. ThreadTypes'
    BY <1>1, <2>1 DEF ThreadTypes
  <2> QED
    BY <1>1, <2>1, <2>2, ClosingUnchanged, LoopUnchanged
<1>4. CASE HandleReconnect \/ TokenFails \/ RefreshToken \/ TransactNotify
           \/ \E w \in Waits : WaitForCompletion(w)
  <2>1. UNCHANGED <<Threads, state, deferredClose, strayed, aside, resyncs, errors>>
    BY <1>4 DEF HandleReconnect, TokenFails, RefreshToken, TransactNotify,
       WaitForCompletion, waits, counts, ghosts
  <2>2. ThreadTypes'
    BY <1>1, <2>1 DEF ThreadTypes, Threads
  <2> QED
    BY <1>1, <2>1, <2>2, ClosingUnchanged, LoopUnchanged DEF Threads
<1>5. CASE TokenArrives
  <2>1. /\ UNCHANGED <<Threads, deferredClose, strayed, aside, resyncs, errors>>
        /\ state = "waiting" /\ (state' = "active" \/ (state' = "dying" /\ deferredClose))
    BY <1>5 DEF TokenArrives, waits
  <2>2. ThreadTypes' /\ ClosingIsUnreferenced'
    BY <1>1, <2>1 DEF ThreadTypes, Threads, ClosingIsUnreferenced, Closing
  <2> QED
    BY <2>1, <2>2, LoopUnchanged DEF Threads
<1>6. CASE LogOut
  <2>1. /\ EnterInactive(coreWaits, staleWaits)
        /\ UNCHANGED <<loop, getting, referenced>> /\ updating' \in {updating, "retry"}
    BY <1>6 DEF LogOut, Threads
  <2>2. ThreadTypes'
    BY <1>1, <2>1 DEF ThreadTypes
  <2> QED
    BY <2>1, <2>2, NotClosing, BlocksKeepCounts, LoopUnchanged
<1>7. CASE TakeReference
  <2>1. /\ UNCHANGED <<loop, updating, state, deferredClose, aside, resyncs, errors>>
        /\ getting' = "no" /\ referenced' = TRUE /\ strayed' = (strayed \/ Closing)
    BY <1>7 DEF TakeReference, waits, counts
  <2>2. ThreadTypes' /\ ClosingIsUnreferenced'
    BY <1>1, <2>1 DEF ThreadTypes, ClosingIsUnreferenced, Closing
  <2> QED
    BY <2>1, <2>2, LoopUnchanged
<1>8. CASE DropReference
  <2>1. /\ UNCHANGED <<loop, updating, getting, aside, resyncs, errors>>
        /\ referenced' = FALSE
    BY <1>8, BlocksKeepCounts DEF DropReference, EnterDying, waits, counts
  <2>2. ThreadTypes' /\ ClosingIsUnreferenced'
    BY <1>1, <2>1 DEF ThreadTypes, ClosingIsUnreferenced
  <2> QED
    BY <2>1, <2>2, LoopUnchanged
<1>9. CASE UpdateConfiguration
  <2>1. /\ UNCHANGED <<loop, getting, referenced>> /\ updating' \in {"retry", "revive"}
        /\ \/ EnterInactive(coreWaits, staleWaits)
           \/ UNCHANGED <<state, deferredClose, strayed, aside, resyncs, errors>>
    BY <1>9 DEF UpdateConfiguration, waits, counts, ghosts
  <2>2. ThreadTypes'
    BY <1>1, <2>1 DEF ThreadTypes
  <2>3. UNCHANGED <<aside, resyncs, errors>> /\ ClosingIsUnreferenced'
    BY <1>1, <2>1, NotClosing, ClosingUnchanged, BlocksKeepCounts
  <2> QED
    BY <2>1, <2>2, <2>3, LoopUnchanged
<1> QED
  BY <1>2, <1>3, <1>4, <1>5, <1>6, <1>7, <1>8, <1>9 DEF UserStep, GetExisting

\* What the core session does on an idle loop.
LEMMA CoreThreads ==
    ASSUME IInv, CoreStep
    PROVE  ThreadTypes' /\ ThreadInv'
<1>1. ThreadTypes /\ ClosingIsUnreferenced
  BY TypeParts DEF IInv, SessionInv, ThreadInv
<1>2. UNCHANGED Threads
  BY DEF CoreStep, Connect, Upload, StaleConnect, Terminated, CompletesWait,
     CompletesDeathWait, AbortsWait
<1>3. ThreadTypes'
  BY <1>1, <1>2 DEF ThreadTypes, Threads
<1>4. \/ UNCHANGED <<state, deferredClose, strayed, aside, resyncs, errors>>
      \/ \E w : EnterInactive(Remove(w, coreWaits), staleWaits)
  BY DEF CoreStep, Connect, Upload, StaleConnect, Terminated, CompletesWait,
     CompletesDeathWait, AbortsWait, waits, counts, ghosts
<1>5. UNCHANGED <<aside, resyncs, errors>>
  BY <1>4, BlocksKeepCounts
<1>6. ClosingIsUnreferenced'
  BY <1>1, <1>2, <1>4, ClosingUnchanged
     DEF Threads, EnterInactive, ClosingIsUnreferenced, Closing
<1> QED
  BY <1>2, <1>3, <1>5, <1>6, LoopUnchanged DEF Threads

\* An error is reported to an event loop that has nothing else to do.
LEMMA ErrorThreads ==
    ASSUME IInv, NEW kind \in ErrorKind, Error(kind)
    PROVE  ThreadTypes' /\ ThreadInv'
<1>1. ThreadTypes /\ SessionTypes /\ ClosingIsUnreferenced /\ AsideDuringResync
  BY TypeParts DEF IInv, SessionInv, ThreadInv
<1>2. /\ loop = <<>> /\ loop' = <<kind>> /\ errors' = errors + 1
      /\ UNCHANGED <<updating, getting, referenced, state, deferredClose, strayed, aside,
                     resyncs>>
  BY DEF Error, Idle, waits, ghosts
<1>3. loop' \in Programs
  BY <1>2, ProgramTypes
<1>4. ThreadTypes'
  BY <1>1, <1>2, <1>3, ThreadsTyped DEF ThreadTypes
<1>5. ResyncsFollowErrors'
  BY <1>1, <1>2 DEF SessionTypes, ResyncsFollowErrors
<1>6. AsideDuringResync'
  BY <1>1, <1>2, ProgramTypes DEF AsideDuringResync
<1> QED
  BY <1>1, <1>2, <1>3, <1>4, <1>5, <1>6, ClosingUnchanged DEF ThreadInv

\* The steps that follow an error.
LEMMA HandlerThreads ==
    ASSUME IInv, HandlerStep
    PROVE  ThreadTypes' /\ ThreadInv'
<1>1. /\ ThreadTypes /\ SessionTypes /\ loop \in Programs /\ ResyncsFollowErrors
      /\ AsideDuringResync /\ ClosingIsUnreferenced
  BY TypeParts DEF IInv, SessionInv, ThreadInv
<1>2. UNCHANGED <<updating, getting, referenced>> /\ ~Idle
  BY DEF HandlerStep, HandleError, CancelPendingWaits, BecomeInactive, AccessTokenExpired,
     ClientResync, RestoreHandlers, ReviveAfterResync, Takes
<1>3. ASSUME loop' \in Programs PROVE ThreadTypes'
  BY <1>1, <1>2, <1>3, ThreadsTyped DEF ThreadTypes
<1>4. ClosingIsUnreferenced'
  <2>1. \/ UNCHANGED <<state, deferredClose, strayed>>
        \/ EnterInactive(coreWaits, staleWaits) \/ Revive
        \/ state' = "inactive" \/ EnterWaiting
    BY DEF HandlerStep, HandleError, CancelPendingWaits, BecomeInactive, AccessTokenExpired,
       ClientResync, RestoreHandlers, ReviveAfterResync, ghosts
  <2>2. CASE state' = "inactive" \/ EnterWaiting
    BY <2>2 DEF EnterWaiting, ClosingIsUnreferenced, Closing
  <2> QED
    BY <1>1, <1>2, <2>1, <2>2, ClosingUnchanged, NotClosing
<1>5. CASE HandleError
  <2>1. PICK kind \in ErrorKind : loop = <<kind>>
    BY <1>1, <1>2, <1>5, ProgramSteps DEF HandleError
  <2>2. Head(loop) = kind
    BY <2>1
  <2>3. loop' = <<>> \/ loop' = Handling(kind)
    BY <1>5, <2>2 DEF HandleError
  <2>4. /\ loop' \in Programs /\ loop' # <<"restore", "revive">>
        /\ loop' \notin {<<k>> : k \in ErrorKind}
    BY <2>3, ProgramTypes, HandlingIsProgram
  <2>5. resyncs < errors
    BY <1>1, <2>1 DEF ResyncsFollowErrors
  <2>6. aside = NoWaits
    BY <1>1, <2>1, ProgramTypes DEF AsideDuringResync
  <2>7. UNCHANGED <<aside, resyncs, errors>>
    BY <1>5, BlocksKeepCounts DEF HandleError, waits, counts
  <2>8. ResyncsFollowErrors' /\ AsideDuringResync'
    BY <2>5, <2>6, <2>7 DEF ResyncsFollowErrors, AsideDuringResync, NoWaits
  <2> QED
    BY <1>3, <1>4, <2>4, <2>8 DEF ThreadInv
<1>6. CASE CancelPendingWaits \/ BecomeInactive \/ AccessTokenExpired \/ ReviveAfterResync
  <2>1. loop' = Tail(loop) /\ Head(loop) \in {"cancel", "inactive", "expired", "revive"}
    BY <1>6 DEF CancelPendingWaits, BecomeInactive, AccessTokenExpired, ReviveAfterResync,
       Takes
  <2>2. loop' \in {<<>>, <<"cancel">>, <<"inactive">>}
    BY <1>1, <1>2, <2>1, ProgramSteps
  <2>3. loop # <<"restore", "revive">>
    BY <2>1
  <2>4. UNCHANGED <<aside, resyncs, errors>>
    BY <1>6, BlocksKeepCounts DEF CancelPendingWaits, BecomeInactive, AccessTokenExpired,
       ReviveAfterResync, EnterWaiting, waits, counts
  <2>5. ResyncsFollowErrors' /\ AsideDuringResync' /\ loop' \in Programs
    BY <1>1, <2>2, <2>3, <2>4, ProgramTypes DEF ResyncsFollowErrors, AsideDuringResync, NoWaits
  <2> QED
    BY <1>3, <1>4, <2>5 DEF ThreadInv
<1>7. CASE ClientResync
  <2>1. loop' = <<"restore", "revive">>
    BY <1>1, <1>2, <1>7, ProgramSteps DEF ClientResync, Takes
  <2>2. ResyncsFollowErrors' /\ AsideDuringResync' /\ loop' \in Programs
    BY <2>1, ProgramTypes DEF ResyncsFollowErrors, AsideDuringResync
  <2> QED
    BY <1>3, <1>4, <2>2 DEF ThreadInv
<1>8. CASE RestoreHandlers
  <2>1. loop' = <<"revive">> /\ aside' = NoWaits
    BY <1>1, <1>2, <1>8, ProgramSteps DEF RestoreHandlers, Takes
  <2>2. ResyncsFollowErrors' /\ AsideDuringResync' /\ loop' \in Programs
    BY <2>1, ProgramTypes DEF ResyncsFollowErrors, AsideDuringResync, NoWaits
  <2> QED
    BY <1>3, <1>4, <2>2 DEF ThreadInv
<1> QED
  BY <1>5, <1>6, <1>7, <1>8 DEF HandlerStep

-----------------------------------------------------------------------------
(***************************************************************************)
(* The session, operation by operation.                                    *)
(***************************************************************************)

\* A token makes the session active, and a close that was deferred then makes it die.
LEMMA TokenArrivesStep ==
    ASSUME SessionInv, ThreadTypes', TokenArrives
    PROVE  SessionInv'
<1> DEFINE now == AnnouncedOnBind
           new == WaitFor(Pending, now)
           dead == DeathWait(now)
<1>1. SessionTypes
  BY TypeParts DEF SessionInv
<1>2. now \in 0 .. version /\ (~strayed => now = version)
  BY <1>1 DEF TokenArrives, AnnouncedOnBind, SessionTypes, SessionInv, CommitsOnTheirWay
<1> HIDE DEF now
<1>3. now \in Nat /\ version \in Nat /\ deathCount \in Nat /\ resyncs \in Nat
  BY <1>1, <1>2 DEF SessionTypes
<1>4. /\ IsBagOf(new, CoreWait)
      /\ \A w \in BagToSet(new) : w.count = resyncs /\ w.kind # "death"
      /\ \A d \in Pending : \E w \in BagToSet(new) : w.kind = d /\ w.count = resyncs
  BY <1>3, PendingDirections, WaitsRegistered DEF SessionInv
<1>5. /\ IsBagOf(dead, CoreWait)
      /\ \A w \in BagToSet(dead) : w.kind = "death" /\ w.count = deathCount + 1 /\ w.upto = now
  BY <1>3, DeathRegistered DEF SessionInv
<1> HIDE DEF new, dead
<1>6. /\ state = "waiting" /\ session' = TRUE /\ announced' = now /\ deferredCommit' = 0
      /\ Pending' = Pending
      /\ UNCHANGED <<staleWaits, version, resyncs, deactivated, strayed, overtaken, outcome>>
  BY DEF TokenArrives, waits, Pending, now
<1>7. \/ /\ state' = "active" /\ coreWaits' = coreWaits (+) new
         /\ UNCHANGED <<deathCount, dyingSince>>
      \/ /\ deferredClose /\ policy = "AfterChangesUploaded" /\ state' = "dying"
         /\ deathCount' = deathCount + 1 /\ coreWaits' = coreWaits (+) new (+) dead
         /\ dyingSince' = version
  BY DEF TokenArrives, now, new, dead
<1>8. /\ IsBagOf(coreWaits', CoreWait)
      /\ \/ BagToSet(coreWaits') = BagToSet(coreWaits) \cup BagToSet(new) /\ state' = "active"
         \/ /\ BagToSet(coreWaits') = BagToSet(coreWaits) \cup BagToSet(new) \cup BagToSet(dead)
            /\ state' = "dying"
  <2> DEFINE c == coreWaits (+) new
             cd == c (+) dead
  <2>1. c = coreWaits (+) new /\ cd = c (+) dead
    OBVIOUS
  <2>2. coreWaits' = IF state' = "active" THEN c ELSE cd
    BY <1>7
  <2> HIDE DEF c, cd
  <2>3. IsBagOf(coreWaits, CoreWait)
    BY DEF SessionInv, WaitsOK
  <2>4. IsBagOf(c, CoreWait) /\ BagToSet(c) = BagToSet(coreWaits) \cup BagToSet(new)
    BY <1>4, <2>1, <2>3, BagOfBoth
  <2>5. IsBagOf(cd, CoreWait) /\ BagToSet(cd) = BagToSet(c) \cup BagToSet(dead)
    BY <1>5, <2>1, <2>4, BagOfBoth
  <2> QED
    BY <1>7, <2>2, <2>4, <2>5
<1>9. TypeOK'
  <2>1. deathCount' \in 0 .. MaxDeaths /\ dyingSince' \in 0 .. version
    BY <1>1, <1>3, <1>6, <1>7, Bounds DEF SessionTypes, SessionInv, DeferredCloseIsCounted
  <2>2. state' \in {"active", "dying"} /\ asked' = FALSE
    BY <1>7 DEF TokenArrives
  <2>3. UNCHANGED <<policy, connection, deferredClose, terminating, waits, uploaded, errors>>
    BY DEF TokenArrives
  <2>4. announced' \in 0 .. version' /\ deferredCommit' \in 0 .. version'
    BY <1>2, <1>3, <1>6
  <2>5. /\ need' \in [Waits -> 0 .. version'] /\ uploaded' \in 0 .. version'
        /\ dyingSince' \in 0 .. version' /\ version' \in 0 .. MaxCommits
    BY <1>1, <1>6, <2>1, <2>3 DEF waits, SessionTypes
  <2>6. SessionTypes'
    BY <1>1, <1>6, <2>1, <2>2, <2>3, <2>4, <2>5 DEF waits, SessionTypes
  <2> QED
    BY <2>6, TypeParts
<1>10. WaitsOK' /\ SessionMatchesState' /\ CommitsOnTheirWay'
  BY <1>2, <1>6, <1>7, <1>8 DEF SessionInv, WaitsOK, IsBagOf, SessionMatchesState,
     CommitsOnTheirWay
<1>11. QueuedWaitsAreRegistered'
  BY <1>4, <1>6, <1>8 DEF QueuedWaitsAreRegistered
<1>12. RegistrationsAreCounted' /\ ResyncIsTransparent'
  <2>1. \A w \in BagToSet(coreWaits') :
           w \in BagToSet(coreWaits) \/ w.kind = "death" \/ w.count = resyncs
    BY <1>4, <1>5, <1>8
  <2> QED
    BY <1>3, <1>6, <2>1 DEF SessionInv, RegistrationsAreCounted, ResyncIsTransparent
<1>13. DeathsAreCounted' /\ DeferredCloseIsCounted'
  <2>1. \A w \in BagToSet(coreWaits) :
           w.kind = "death" => w.count \in Nat /\ w.count <= deathCount
    <3>1. \A w \in BagToSet(coreWaits) : w.count \in Nat
      BY DEF SessionInv, WaitsOK, IsBagOf, BagToSet, CoreWait
    <3> QED
      BY <3>1 DEF SessionInv, DeathsAreCounted
  <2>2. CASE state' = "active"
    <3>1. deathCount' = deathCount
      BY <1>7, <2>2
    <3>2. \A w \in BagToSet(coreWaits') : w.kind = "death" => w \in BagToSet(coreWaits)
      <4>1. BagToSet(coreWaits') = BagToSet(coreWaits) \cup BagToSet(new)
        BY <1>7, <1>8, <2>2
      <4> QED
        BY <1>4, <4>1
    <3> QED
      BY <2>1, <2>2, <3>1, <3>2 DEF DeathsAreCounted, DeferredCloseIsCounted
  <2>3. CASE state' = "dying"
    <3>1. /\ deathCount' = deathCount + 1 /\ dyingSince' = version
          /\ BagToSet(coreWaits') = BagToSet(coreWaits) \cup BagToSet(new) \cup BagToSet(dead)
      BY <1>7, <1>8, <2>3
    <3>2. ASSUME NEW w \in BagToSet(coreWaits'), w.kind = "death"
          PROVE  w.count <= deathCount' /\ (w.count = deathCount' => w.upto = now)
      <4>1. CASE w \in BagToSet(coreWaits)
        BY <1>3, <2>1, <3>1, <3>2, <4>1
      <4>2. CASE w \in BagToSet(dead)
        BY <1>3, <1>5, <3>1, <4>2
      <4> QED
        BY <1>4, <3>1, <3>2, <4>1, <4>2
    <3>3. ~strayed' => now = version /\ now >= version
      BY <1>2, <1>3, <1>6
    <3> QED
      BY <1>6, <2>3, <3>1, <3>2, <3>3 DEF DeathsAreCounted, DeferredCloseIsCounted
  <2> QED
    BY <1>7, <2>2, <2>3
<1> QED
  BY <1>9, <1>10, <1>11, <1>12, <1>13 DEF SessionInv

\* The first wait in a queue registers with the core session, the next rely on it.
LEMMA WaitForCompletionStep ==
    ASSUME SessionInv, ThreadTypes', NEW w \in Waits, WaitForCompletion(w)
    PROVE  SessionInv'
<1> DEFINE d == DirectionOf(w)
           new == WaitFor({d}, announced)
<1>1. SessionTypes
  BY TypeParts DEF SessionInv
<1>2. d \in Direction
  BY DEF DirectionOf, Direction
<1>3. /\ IsBagOf(new, CoreWait)
      /\ \A v \in BagToSet(new) : v.count = resyncs /\ v.kind # "death"
      /\ \E v \in BagToSet(new) : v.kind = d /\ v.count = resyncs
  <2>1. announced \in Nat /\ {d} \in SUBSET Direction
    BY <1>1, <1>2 DEF SessionTypes
  <2> QED
    BY <2>1, WaitsRegistered DEF SessionInv
<1>4. /\ outcome' = [outcome EXCEPT ![w] = "pending"]
      /\ need' = [need EXCEPT ![w] = version]
      /\ queue' = [queue EXCEPT ![d] = @ \cup {w}]
      /\ coreWaits' = IF queue[d] = {} /\ state \in {"active", "dying"}
                      THEN coreWaits (+) new ELSE coreWaits
  BY DEF WaitForCompletion
<1>0. UNCHANGED <<state, policy, connection, deferredClose, asked, session, staleWaits,
                  terminating, aside, data, counts, ghosts>>
  BY DEF WaitForCompletion
<1> HIDE DEF d, new
<1>5. /\ IsBagOf(coreWaits', CoreWait)
      /\ BagToSet(coreWaits) \subseteq BagToSet(coreWaits')
      /\ BagToSet(coreWaits') \subseteq BagToSet(coreWaits) \cup BagToSet(new)
      /\ queue[d] = {} /\ state \in {"active", "dying"} =>
            BagToSet(new) \subseteq BagToSet(coreWaits')
  <2>1. IsBagOf(coreWaits, CoreWait) /\ IsBagOf(new, CoreWait)
    BY <1>3 DEF SessionInv, WaitsOK
  <2> DEFINE c == coreWaits (+) new
  <2>2. c = coreWaits (+) new
    OBVIOUS
  <2> HIDE DEF c
  <2>3. IsBagOf(c, CoreWait) /\ BagToSet(c) = BagToSet(coreWaits) \cup BagToSet(new)
    BY <2>1, <2>2, BagOfBoth
  <2> QED
    BY <1>4, <2>1, <2>2, <2>3
<1>6. TypeOK'
  <2>1. need' \in [Waits -> 0 .. version]
    BY <1>1, <1>4 DEF SessionTypes
  <2>2. outcome' \in [Waits -> {"none", "pending", "ok", "aborted", "error"}]
    BY <1>1, <1>4 DEF SessionTypes
  <2>3. queue' \in [Direction -> SUBSET Waits]
    BY <1>1, <1>2, <1>4 DEF SessionTypes
  <2>4. SessionTypes'
    BY <1>0, <1>1, <2>1, <2>2, <2>3 DEF data, counts, ghosts, SessionTypes
  <2> QED
    BY <2>4, TypeParts
<1>7. WaitsOK' /\ SessionMatchesState' /\ CommitsOnTheirWay'
  BY <1>0, <1>5 DEF data, ghosts, SessionInv, WaitsOK, IsBagOf, SessionMatchesState,
     CommitsOnTheirWay
<1>8. QueuedWaitsAreRegistered'
  <2>1. UNCHANGED <<state, overtaken, resyncs>>
    BY <1>0 DEF counts, ghosts
  <2>2. \A e \in Pending' : e \in Pending \/ (e = d /\ queue[d] = {})
    BY <1>1, <1>2, <1>4 DEF Pending, SessionTypes
  <2> QED
    BY <1>3, <1>5, <2>1, <2>2 DEF SessionInv, QueuedWaitsAreRegistered
<1>9. RegistrationsAreCounted' /\ ResyncIsTransparent'
  <2>1. resyncs \in Int
    BY <1>1 DEF SessionTypes
  <2>2. UNCHANGED <<resyncs, deactivated, staleWaits>>
    BY <1>0 DEF counts, ghosts
  <2>3. \A v \in Waits : outcome'[v] = "aborted" => outcome[v] = "aborted"
    BY <1>1, <1>4 DEF SessionTypes
  <2> QED
    BY <1>3, <1>5, <2>1, <2>2, <2>3 DEF SessionInv, RegistrationsAreCounted,
       ResyncIsTransparent
<1>10. DeathsAreCounted' /\ DeferredCloseIsCounted'
  <2>1. \A v \in BagToSet(coreWaits') : v.kind = "death" => v \in BagToSet(coreWaits)
    BY <1>3, <1>5
  <2>2. UNCHANGED <<state, policy, deferredClose, deathCount, strayed, dyingSince>>
    BY <1>0 DEF counts, ghosts
  <2> QED
    BY <2>1, <2>2 DEF SessionInv, DeathsAreCounted, DeferredCloseIsCounted
<1> QED
  BY <1>6, <1>7, <1>8, <1>9, <1>10 DEF SessionInv

\* A commit is announced to an active session and remembered while a token is awaited; a
\* session that is dying has no references left that could commit.
LEMMA TransactNotifyStep ==
    ASSUME SessionInv, ClosingIsUnreferenced, ThreadTypes', TransactNotify
    PROVE  SessionInv'
<1>1. SessionTypes
  BY TypeParts DEF SessionInv
<1>2. /\ referenced /\ version < MaxCommits /\ version' = version + 1
      /\ announced' = (IF state = "active" THEN version' ELSE announced)
      /\ deferredCommit' = (IF state = "waiting" THEN version' ELSE deferredCommit)
      /\ UNCHANGED <<state, policy, connection, deferredClose, asked, core, waits,
                     uploaded, counts, ghosts>>
  BY DEF TransactNotify
<1>3. version \in Nat /\ version' \in 0 .. MaxCommits
  BY <1>1, <1>2, Bounds DEF SessionTypes
<1>4. TypeOK'
  <2>1. need' \in [Waits -> 0 .. version']
    <3>1. 0 .. version \subseteq 0 .. version'
      BY <1>2, <1>3
    <3>2. need' = need
      BY <1>2 DEF waits
    <3> QED
      BY <1>1, <3>1, <3>2 DEF SessionTypes
  <2>2. /\ announced' \in 0 .. version' /\ deferredCommit' \in 0 .. version'
        /\ uploaded' \in 0 .. version' /\ dyingSince' \in 0 .. version'
    BY <1>1, <1>2, <1>3 DEF SessionTypes, ghosts
  <2>3. SessionTypes'
    BY <1>1, <1>2, <1>3, <2>1, <2>2 DEF core, waits, counts, ghosts, SessionTypes
  <2> QED
    BY <2>3, TypeParts
<1>5. CommitsOnTheirWay'
  <2>1. CommitsOnTheirWay /\ UNCHANGED <<state, session, strayed>>
    BY <1>2 DEF core, ghosts, SessionInv
  <2>2. CASE state = "active"
    BY <1>2, <2>1, <2>2 DEF CommitsOnTheirWay
  <2>3. CASE state = "waiting"
    <3>1. deferredCommit' = version' /\ version' # 0
      BY <1>2, <1>3, <2>3
    <3> QED
      BY <2>1, <2>3, <3>1 DEF CommitsOnTheirWay
  <2>4. CASE state = "dying"
    <3>1. strayed /\ deferredCommit' = deferredCommit
      BY <1>2, <2>4 DEF ClosingIsUnreferenced, Closing
    <3> QED
      BY <2>1, <2>4, <3>1 DEF CommitsOnTheirWay
  <2>5. CASE state = "inactive"
    BY <2>1, <2>5 DEF CommitsOnTheirWay
  <2> QED
    BY <1>1, <2>2, <2>3, <2>4, <2>5 DEF SessionTypes
<1>6. WaitsOK' /\ SessionMatchesState' /\ QueuedWaitsAreRegistered'
  BY <1>2 DEF core, waits, counts, ghosts, SessionInv, WaitsOK, IsBagOf,
     SessionMatchesState, QueuedWaitsAreRegistered, Pending, BagToSet
<1>7. RegistrationsAreCounted' /\ ResyncIsTransparent'
  BY <1>2 DEF core, waits, counts, ghosts, SessionInv, RegistrationsAreCounted,
     ResyncIsTransparent, BagToSet
<1>8. DeathsAreCounted' /\ DeferredCloseIsCounted'
  BY <1>2 DEF core, counts, ghosts, SessionInv, DeathsAreCounted, DeferredCloseIsCounted,
     BagToSet
<1> QED
  BY <1>4, <1>5, <1>6, <1>7, <1>8 DEF SessionInv

\* What concerns the token, and get_session when it leaves an existing session alone.
LEMMA TokenSteps ==
    ASSUME SessionInv, ThreadTypes',
           HandleReconnect \/ TokenFails \/ RefreshToken \/ (GetExisting /\ getting' = "refer")
    PROVE  SessionInv'
<1>1. /\ UNCHANGED <<state, policy, connection, deferredClose, core, waits, data, counts, ghosts>>
      /\ asked' = asked \/ asked' = TRUE \/ asked' = FALSE
  BY DEF HandleReconnect, TokenFails, RefreshToken, GetExisting
<1>2. SessionTypes
  BY TypeParts DEF SessionInv
<1>3. asked' \in BOOLEAN
  BY <1>1, <1>2 DEF SessionTypes
<1>4. SessionTypes'
  BY <1>1, <1>2, <1>3 DEF core, waits, data, counts, ghosts, SessionTypes
<1> QED
  BY <1>1, <1>4, TypeParts, SessionUnchanged DEF core, waits, data, counts, ghosts

\* A reference that is handed out may stray, which excuses what follows.
LEMMA TakeReferenceStep ==
    ASSUME SessionInv, ThreadTypes', TakeReference
    PROVE  SessionInv'
<1>1. /\ UNCHANGED <<state, policy, connection, deferredClose, asked, core, waits, data,
                     counts, dyingSince, deactivated, overtaken>>
      /\ strayed' = (strayed \/ Closing)
  BY DEF TakeReference
<1>2. TypeOK'
  <2>1. SessionTypes
    BY TypeParts DEF SessionInv
  <2>2. strayed' \in BOOLEAN
    BY <1>1
  <2>3. SessionTypes'
    BY <1>1, <2>1, <2>2 DEF core, waits, data, counts, SessionTypes
  <2> QED
    BY <2>3, TypeParts
<1>3. ~strayed' => ~strayed
  BY <1>1
<1>4. WaitsOK' /\ SessionMatchesState' /\ CommitsOnTheirWay' /\ ResyncIsTransparent'
  BY <1>1, <1>3 DEF core, waits, data, SessionInv, WaitsOK, IsBagOf, SessionMatchesState,
     CommitsOnTheirWay, ResyncIsTransparent
<1>5. QueuedWaitsAreRegistered' /\ RegistrationsAreCounted'
  BY <1>1 DEF core, waits, counts, SessionInv, QueuedWaitsAreRegistered, Pending,
     RegistrationsAreCounted, BagToSet
<1>6. DeathsAreCounted' /\ DeferredCloseIsCounted'
  BY <1>1, <1>3 DEF core, counts, SessionInv, DeathsAreCounted, DeferredCloseIsCounted,
     BagToSet
<1> QED
  BY <1>2, <1>4, <1>5, <1>6 DEF SessionInv

\* A close takes effect at once, is deferred until the token arrives, or is ignored.
LEMMA DropReferenceStep ==
    ASSUME SessionInv, ThreadTypes', DropReference
    PROVE  SessionInv'
<1>1. CASE EnterInactive(coreWaits, staleWaits)
  BY <1>1, BecomesInactive
<1>2. CASE state = "active" /\ policy = "AfterChangesUploaded" /\ EnterDying
  BY <1>2, EnterDyingStep DEF DropReference
<1>3. CASE /\ state = "waiting" /\ deferredClose' = TRUE
           /\ UNCHANGED <<state, policy, connection, asked, core, waits, data, counts, ghosts>>
  <2>1. TypeOK'
    <3>1. SessionTypes
      BY TypeParts DEF SessionInv
    <3>2. SessionTypes'
      BY <1>3, <3>1 DEF core, waits, data, counts, ghosts, SessionTypes
    <3> QED
      BY <3>2, TypeParts
  <2>2. WaitsOK' /\ SessionMatchesState' /\ CommitsOnTheirWay' /\ ResyncIsTransparent'
    BY <1>3 DEF core, waits, data, ghosts, SessionInv, WaitsOK, IsBagOf, SessionMatchesState,
       CommitsOnTheirWay, ResyncIsTransparent
  <2>3. QueuedWaitsAreRegistered' /\ RegistrationsAreCounted' /\ DeathsAreCounted'
    BY <1>3 DEF core, counts, ghosts, SessionInv, QueuedWaitsAreRegistered,
       RegistrationsAreCounted, DeathsAreCounted, BagToSet
  <2>4. DeferredCloseIsCounted'
    BY <1>3 DEF DropReference, counts, DeferredCloseIsCounted
  <2> QED
    BY <2>1, <2>2, <2>3, <2>4 DEF SessionInv
<1>4. CASE UNCHANGED <<state, policy, connection, deferredClose, asked, core, waits, data,
                       counts, ghosts>>
  <2>1. SessionTypes
    BY TypeParts DEF SessionInv
  <2>2. SessionTypes'
    BY <1>4, <2>1 DEF core, waits, data, counts, ghosts, SessionTypes
  <2> QED
    BY <1>4, <2>2, TypeParts, SessionUnchanged DEF core, waits, data, counts, ghosts
<1> QED
  BY <1>1, <1>2, <1>3, <1>4 DEF DropReference

\* The configuration changes only while the session is inactive.
LEMMA UpdateConfigurationStep ==
    ASSUME SessionInv, ThreadTypes', UpdateConfiguration
    PROVE  SessionInv'
<1>1. CASE EnterInactive(coreWaits, staleWaits)
  BY <1>1, BecomesInactive
<1>2. CASE /\ state = "inactive" /\ policy' \in Policies
           /\ UNCHANGED <<state, connection, deferredClose, asked, core, waits, data, counts,
                          ghosts>>
  <2>1. TypeOK'
    <3>1. SessionTypes
      BY TypeParts DEF SessionInv
    <3>2. SessionTypes'
      BY <1>2, <3>1 DEF core, waits, data, counts, ghosts, SessionTypes
    <3> QED
      BY <3>2, TypeParts
  <2>2. WaitsOK' /\ SessionMatchesState' /\ CommitsOnTheirWay' /\ ResyncIsTransparent'
    BY <1>2 DEF core, waits, data, ghosts, SessionInv, WaitsOK, IsBagOf, SessionMatchesState,
       CommitsOnTheirWay, ResyncIsTransparent
  <2>3. QueuedWaitsAreRegistered' /\ RegistrationsAreCounted' /\ DeathsAreCounted'
    BY <1>2 DEF core, counts, ghosts, SessionInv, QueuedWaitsAreRegistered,
       RegistrationsAreCounted, DeathsAreCounted, BagToSet
  <2>4. DeferredCloseIsCounted'
    BY <1>2 DEF DeferredCloseIsCounted
  <2> QED
    BY <2>1, <2>2, <2>3, <2>4 DEF SessionInv
<1> QED
  BY <1>1, <1>2 DEF UpdateConfiguration

\* All that users and the binding do.
LEMMA UserSessionStep ==
    ASSUME IInv, UserStep
    PROVE  SessionInv'
<1>1. SessionInv /\ ThreadTypes' /\ ClosingIsUnreferenced
  BY UserThreads DEF IInv, ThreadInv
<1>2. CASE \/ ReviveIfNeeded \/ ReviveNew \/ UpdateConfigurationRevives
           \/ GetExisting /\ getting' = "revived"
  <2>1. Revive
    BY <1>2 DEF ReviveIfNeeded, ReviveNew, UpdateConfigurationRevives, GetExisting
  <2> QED
    BY <1>1, <2>1, ReviveStep
<1>3. CASE HandleReconnect \/ TokenFails \/ RefreshToken \/ (GetExisting /\ getting' = "refer")
  BY <1>1, <1>3, TokenSteps
<1>4. CASE LogOut
  BY <1>1, <1>4, BecomesInactive DEF LogOut
<1>5. CASE TokenArrives \/ TakeReference \/ DropReference \/ UpdateConfiguration
  BY <1>1, <1>5, TokenArrivesStep, TakeReferenceStep, DropReferenceStep,
     UpdateConfigurationStep
<1>6. CASE TransactNotify \/ \E w \in Waits : WaitForCompletion(w)
  BY <1>1, <1>6, TransactNotifyStep, WaitForCompletionStep
<1> QED
  BY <1>2, <1>3, <1>4, <1>5, <1>6 DEF UserStep, GetExisting

-----------------------------------------------------------------------------
(***************************************************************************)
(* The session, as the event loop moves it.                                *)
(***************************************************************************)

\* Connections and uploads.
LEMMA NetworkSteps ==
    ASSUME SessionInv, ThreadTypes', Connect \/ Upload \/ StaleConnect \/ Terminated
    PROVE  SessionInv'
<1>1. /\ UNCHANGED <<state, policy, deferredClose, asked, session, coreWaits, staleWaits,
                     waits, version, announced, deferredCommit, counts, ghosts>>
      /\ connection' = connection \/ connection' = TRUE
      /\ terminating' = terminating \/ terminating' = FALSE
      /\ uploaded' = uploaded \/ (uploaded < version /\ uploaded' = uploaded + 1)
  BY DEF Connect, Upload, StaleConnect, Terminated, core, data
<1>2. SessionTypes
  BY TypeParts DEF SessionInv
<1>3. connection' \in BOOLEAN /\ terminating' \in BOOLEAN
  BY <1>1, <1>2 DEF SessionTypes
<1>4. uploaded' \in 0 .. version
  BY <1>1, <1>2 DEF SessionTypes
<1>5. SessionTypes'
  BY <1>1, <1>2, <1>3, <1>4 DEF waits, counts, ghosts, SessionTypes
<1> QED
  BY <1>1, <1>5, TypeParts, SessionUnchanged DEF waits, counts, ghosts

\* The callbacks of a queue are called by an operation that is not an old one.
LEMMA CompletedStep ==
    ASSUME SessionTypes, NEW w, w.kind \in Direction, NEW result \in {"ok", "aborted"},
           Completed(w, result)
    PROVE  /\ queue' \in [Direction -> SUBSET Waits]
           /\ outcome' \in [Waits -> {"none", "pending", "ok", "aborted", "error"}]
           /\ Pending' \subseteq Pending
           /\ w.count = resyncs => w.kind \notin Pending'
           /\ w.count # resyncs \/ result = "ok" =>
                 \A v \in Waits : outcome'[v] = "aborted" => outcome[v] = "aborted"
<1>1. queue \in [Direction -> SUBSET Waits]
  BY DEF SessionTypes
<1>2. outcome \in [Waits -> {"none", "pending", "ok", "aborted", "error"}]
  BY DEF SessionTypes
<1>3. CASE w.count = resyncs
  <2>1. queue' = [queue EXCEPT ![w.kind] = {}]
    BY <1>3 DEF Completed
  <2>2. outcome' = [v \in Waits |-> IF v \in queue[w.kind] THEN result ELSE outcome[v]]
    BY <1>3 DEF Completed, Finish
  <2>3. queue' \in [Direction -> SUBSET Waits] /\ Pending' = Pending \ {w.kind}
    BY <1>1, <2>1 DEF Pending
  <2>4. outcome' \in [Waits -> {"none", "pending", "ok", "aborted", "error"}]
    BY <1>2, <2>2
  <2>5. result = "ok" => \A v \in Waits : outcome'[v] = "aborted" => outcome[v] = "aborted"
    BY <2>2
  <2> QED
    BY <1>3, <2>3, <2>4, <2>5
<1>4. CASE w.count # resyncs
  <2>1. UNCHANGED <<outcome, queue>>
    BY <1>4 DEF Completed
  <2> QED
    BY <1>1, <1>2, <1>4, <2>1 DEF Pending
<1> QED
  BY <1>3, <1>4

\* An operation of the session completes.
LEMMA CompletesWaitStep ==
    ASSUME SessionInv, ThreadTypes', NEW w \in BagToSet(coreWaits), CompletesWait(w)
    PROVE  SessionInv'
<1>1. SessionTypes
  BY TypeParts DEF SessionInv
<1>2. w.kind \in Direction
  BY DEF CompletesWait, SessionInv, WaitsOK, IsBagOf, BagToSet, CoreWait
<1>3. /\ queue' \in [Direction -> SUBSET Waits]
      /\ outcome' \in [Waits -> {"none", "pending", "ok", "aborted", "error"}]
      /\ Pending' \subseteq Pending /\ (w.count = resyncs => w.kind \notin Pending')
      /\ \A v \in Waits : outcome'[v] = "aborted" => outcome[v] = "aborted"
  BY <1>1, <1>2, CompletedStep DEF CompletesWait
<1>4. UNCHANGED <<state, policy, connection, deferredClose, asked, session, staleWaits,
                  terminating, aside, need, data, counts, ghosts>>
  BY DEF CompletesWait
<1>5. /\ IsBagOf(coreWaits', CoreWait) /\ BagToSet(coreWaits') \subseteq BagToSet(coreWaits)
      /\ \A e \in BagToSet(coreWaits) : e # w => e \in BagToSet(coreWaits')
  <2>1. coreWaits' = Remove(w, coreWaits) /\ IsBagOf(coreWaits, CoreWait)
    BY DEF CompletesWait, SessionInv, WaitsOK
  <2> QED
    BY <2>1, BagWithout
<1>6. TypeOK'
  <2>1. SessionTypes'
    BY <1>1, <1>3, <1>4 DEF data, counts, ghosts, SessionTypes
  <2> QED
    BY <2>1, TypeParts
<1>7. WaitsOK' /\ SessionMatchesState' /\ CommitsOnTheirWay'
  BY <1>4, <1>5 DEF data, ghosts, SessionInv, WaitsOK, IsBagOf, SessionMatchesState,
     CommitsOnTheirWay
<1>8. QueuedWaitsAreRegistered'
  BY <1>3, <1>4, <1>5 DEF counts, ghosts, SessionInv, QueuedWaitsAreRegistered
<1>9. RegistrationsAreCounted' /\ ResyncIsTransparent'
  BY <1>3, <1>4, <1>5 DEF counts, ghosts, SessionInv, RegistrationsAreCounted,
     ResyncIsTransparent
<1>10. DeathsAreCounted' /\ DeferredCloseIsCounted'
  BY <1>4, <1>5 DEF counts, ghosts, SessionInv, DeathsAreCounted, DeferredCloseIsCounted
<1> QED
  BY <1>6, <1>7, <1>8, <1>9, <1>10 DEF SessionInv

\* An operation of a destroyed session is aborted.
LEMMA AbortsWaitStep ==
    ASSUME SessionInv, ThreadTypes', NEW w \in BagToSet(staleWaits), AbortsWait(w)
    PROVE  SessionInv'
<1>1. SessionTypes
  BY TypeParts DEF SessionInv
<1>2. UNCHANGED <<state, policy, connection, deferredClose, asked, session, coreWaits,
                  terminating, aside, need, data, counts, ghosts>>
  BY DEF AbortsWait
<1>3. IsBagOf(staleWaits', CoreWait) /\ BagToSet(staleWaits') \subseteq BagToSet(staleWaits)
  <2>1. staleWaits' = Remove(w, staleWaits) /\ IsBagOf(staleWaits, CoreWait)
    BY DEF AbortsWait, SessionInv, WaitsOK
  <2> QED
    BY <2>1, BagWithout
<1>4. /\ queue' \in [Direction -> SUBSET Waits]
      /\ outcome' \in [Waits -> {"none", "pending", "ok", "aborted", "error"}]
      /\ Pending' \subseteq Pending
      /\ \/ deactivated
         \/ \A v \in Waits : outcome'[v] = "aborted" => outcome[v] = "aborted"
  <2>1. CASE w.kind = "death"
    BY <1>1, <2>1 DEF AbortsWait, SessionTypes, Pending
  <2>2. CASE w.kind # "death"
    <3>1. w.kind \in Direction /\ Completed(w, "aborted")
      BY <2>2 DEF AbortsWait, SessionInv, WaitsOK, IsBagOf, BagToSet, CoreWait
    <3>2. w.count # resyncs \/ deactivated
      BY <1>1, <2>2 DEF SessionInv, RegistrationsAreCounted, SessionTypes
    <3> QED
      BY <1>1, <3>1, <3>2, CompletedStep
  <2> QED
    BY <2>1, <2>2
<1>5. TypeOK'
  <2>1. SessionTypes'
    BY <1>1, <1>2, <1>4 DEF data, counts, ghosts, SessionTypes
  <2> QED
    BY <2>1, TypeParts
<1>6. WaitsOK' /\ SessionMatchesState' /\ CommitsOnTheirWay'
  BY <1>2, <1>3 DEF data, ghosts, SessionInv, WaitsOK, IsBagOf, SessionMatchesState,
     CommitsOnTheirWay
<1>7. QueuedWaitsAreRegistered'
  BY <1>2, <1>4 DEF counts, ghosts, SessionInv, QueuedWaitsAreRegistered, BagToSet
<1>8. RegistrationsAreCounted'
  <2>1. BagToSet(coreWaits') = BagToSet(coreWaits) /\ UNCHANGED <<resyncs, deactivated>>
    BY <1>2 DEF counts, ghosts, BagToSet
  <2> QED
    BY <1>3, <2>1 DEF SessionInv, RegistrationsAreCounted
<1>9. ResyncIsTransparent'
  BY <1>2, <1>4 DEF ghosts, SessionInv, ResyncIsTransparent
<1>10. DeathsAreCounted' /\ DeferredCloseIsCounted'
  BY <1>2 DEF counts, ghosts, SessionInv, DeathsAreCounted, DeferredCloseIsCounted, BagToSet
<1> QED
  BY <1>5, <1>6, <1>7, <1>8, <1>9, <1>10 DEF SessionInv

\* The upload that a death waits for completes: the session ends, or has been revived.
LEMMA CompletesDeathWaitStep ==
    ASSUME SessionInv, ThreadTypes', NEW w \in BagToSet(coreWaits), CompletesDeathWait(w)
    PROVE  SessionInv'
<1> DEFINE current == Remove(w, coreWaits)
<1>1. /\ IsBagOf(current, CoreWait) /\ BagToSet(current) \subseteq BagToSet(coreWaits)
      /\ \A e \in BagToSet(coreWaits) : e # w => e \in BagToSet(current)
  BY BagWithout DEF SessionInv, WaitsOK
<1>2. \/ EnterInactive(current, staleWaits)
      \/ /\ coreWaits' = current
         /\ UNCHANGED <<state, policy, connection, deferredClose, asked, session, staleWaits,
                        terminating, waits, data, counts, ghosts>>
  BY DEF CompletesDeathWait
<1>3. w.kind = "death"
  BY DEF CompletesDeathWait
<1> HIDE DEF current
<1>4. CASE EnterInactive(current, staleWaits)
  BY <1>1, <1>4, EnterInactiveStep DEF SessionInv, WaitsOK
<1>5. CASE /\ coreWaits' = current
           /\ UNCHANGED <<state, policy, connection, deferredClose, asked, session, staleWaits,
                          terminating, waits, data, counts, ghosts>>
  <2>1. TypeOK'
    <3>1. SessionTypes
      BY TypeParts DEF SessionInv
    <3>2. SessionTypes'
      BY <1>5, <3>1 DEF waits, data, counts, ghosts, SessionTypes
    <3> QED
      BY <3>2, TypeParts
  <2>2. WaitsOK' /\ SessionMatchesState' /\ CommitsOnTheirWay' /\ ResyncIsTransparent'
    BY <1>1, <1>5 DEF waits, data, ghosts, SessionInv, WaitsOK, IsBagOf,
       SessionMatchesState, CommitsOnTheirWay, ResyncIsTransparent
  <2>3. QueuedWaitsAreRegistered'
    <3>1. "death" \notin Direction /\ Pending \subseteq Direction /\ Pending' = Pending
      BY <1>5 DEF Direction, Pending, waits
    <3> QED
      BY <1>1, <1>3, <1>5, <3>1 DEF counts, ghosts, SessionInv, QueuedWaitsAreRegistered
  <2>4. RegistrationsAreCounted' /\ DeathsAreCounted' /\ DeferredCloseIsCounted'
    BY <1>1, <1>5 DEF counts, ghosts, SessionInv, RegistrationsAreCounted,
       DeathsAreCounted, DeferredCloseIsCounted, BagToSet
  <2> QED
    BY <2>1, <2>2, <2>3, <2>4 DEF SessionInv
<1> QED
  BY <1>2, <1>4, <1>5

\* All that the core session does.
LEMMA CoreSessionStep ==
    ASSUME IInv, CoreStep
    PROVE  SessionInv'
<1>1. SessionInv /\ ThreadTypes'
  BY CoreThreads DEF IInv
<1> QED
  BY <1>1, NetworkSteps, CompletesWaitStep, CompletesDeathWaitStep, AbortsWaitStep
     DEF CoreStep

\* A client resync destroys the session, and no operation of it is then told from a later one.
LEMMA ClientResyncStep ==
    ASSUME IInv, ThreadTypes', ClientResync
    PROVE  SessionInv'
<1>1. SessionInv /\ SessionTypes /\ resyncs < errors
  <2>1. loop = <<"resync", "restore", "revive">>
    BY ProgramSteps DEF IInv, ThreadInv, ClientResync, Takes
  <2> QED
    BY <2>1, TypeParts DEF IInv, SessionInv, ThreadInv, ResyncsFollowErrors
<1>2. /\ state' = "inactive" /\ connection' = FALSE /\ resyncs' = resyncs + 1
      /\ aside' = queue /\ queue' = NoWaits
      /\ UNCHANGED <<policy, deferredClose, asked, outcome, need, data, deathCount, errors,
                     ghosts>>
  BY DEF ClientResync
<1>3. /\ WaitsOK' /\ session' = FALSE /\ terminating' \in BOOLEAN
      /\ BagToSet(coreWaits') = {}
      /\ BagToSet(staleWaits') \subseteq BagToSet(coreWaits) \cup BagToSet(staleWaits)
  BY <1>1, SessionDestroyed DEF ClientResync, SessionInv, WaitsOK
<1>4. TypeOK'
  <2>1. resyncs' \in 0 .. errors'
    BY <1>1, <1>2 DEF SessionTypes
  <2>2. queue' \in [Direction -> SUBSET Waits] /\ aside' \in [Direction -> SUBSET Waits]
    BY <1>1, <1>2 DEF NoWaits, SessionTypes
  <2>3. SessionTypes'
    BY <1>1, <1>2, <1>3, <2>1, <2>2 DEF data, ghosts, SessionTypes
  <2> QED
    BY <2>3, TypeParts
<1>5. RegistrationsAreCounted'
  <2>1. \A w \in BagToSet(coreWaits) \cup BagToSet(staleWaits) :
           w.count \in Nat /\ (w.kind # "death" => w.count <= resyncs)
    BY <1>1 DEF SessionInv, WaitsOK, IsBagOf, BagToSet, CoreWait, RegistrationsAreCounted
  <2>2. \A w \in BagToSet(staleWaits') : w.kind # "death" => w.count < resyncs'
    <3>1. resyncs \in Nat
      BY <1>1 DEF SessionTypes
    <3> QED
      BY <1>2, <1>3, <2>1, <3>1
  <2>3. \A w \in BagToSet(staleWaits') : w.kind # "death" => w.count <= resyncs'
    <3>1. resyncs \in Nat
      BY <1>1 DEF SessionTypes
    <3> QED
      BY <1>2, <1>3, <2>1, <3>1
  <2> QED
    BY <1>3, <2>2, <2>3 DEF RegistrationsAreCounted
<1>6. ResyncIsTransparent' /\ DeferredCloseIsCounted'
  BY <1>1, <1>2 DEF ghosts, SessionInv, ResyncIsTransparent, DeferredCloseIsCounted
<1>7. SessionMatchesState' /\ CommitsOnTheirWay' /\ QueuedWaitsAreRegistered'
      /\ DeathsAreCounted'
  BY <1>2, <1>3 DEF SessionMatchesState, CommitsOnTheirWay, QueuedWaitsAreRegistered,
     DeathsAreCounted
<1> QED
  BY <1>3, <1>4, <1>5, <1>6, <1>7 DEF SessionInv

\* Handlers are put back: those of a session that is active by then have been overtaken.
LEMMA RestoreHandlersStep ==
    ASSUME SessionInv, ThreadTypes', RestoreHandlers
    PROVE  SessionInv'
<1>1. /\ queue' = aside /\ aside' = NoWaits
      /\ overtaken' = (overtaken \/ state \in {"active", "dying"})
      /\ UNCHANGED <<state, policy, connection, deferredClose, asked, core, outcome, need,
                     data, counts, dyingSince, deactivated, strayed>>
  BY DEF RestoreHandlers
<1>2. TypeOK'
  <2>1. SessionTypes
    BY TypeParts DEF SessionInv
  <2>2. queue' \in [Direction -> SUBSET Waits] /\ aside' \in [Direction -> SUBSET Waits]
    BY <1>1, <2>1 DEF NoWaits, SessionTypes
  <2>3. overtaken' \in BOOLEAN
    BY <1>1
  <2>4. SessionTypes'
    BY <1>1, <2>1, <2>2, <2>3 DEF core, data, counts, SessionTypes
  <2> QED
    BY <2>4, TypeParts
<1>3. WaitsOK' /\ SessionMatchesState' /\ CommitsOnTheirWay' /\ ResyncIsTransparent'
  BY <1>1 DEF core, data, SessionInv, WaitsOK, IsBagOf, SessionMatchesState,
     CommitsOnTheirWay, ResyncIsTransparent
<1>4. QueuedWaitsAreRegistered'
  BY <1>1 DEF QueuedWaitsAreRegistered
<1>5. RegistrationsAreCounted' /\ DeathsAreCounted' /\ DeferredCloseIsCounted'
  BY <1>1 DEF core, counts, SessionInv, RegistrationsAreCounted, DeathsAreCounted,
     DeferredCloseIsCounted, BagToSet
<1> QED
  BY <1>2, <1>3, <1>4, <1>5 DEF SessionInv

\* Waits are told of an error.
LEMMA CancelPendingWaitsStep ==
    ASSUME SessionInv, ThreadTypes', CancelPendingWaits
    PROVE  SessionInv'
<1>1. /\ queue' = NoWaits
      /\ outcome' = [w \in Waits |-> IF w \in Queued(queue) THEN "error" ELSE outcome[w]]
      /\ UNCHANGED <<state, policy, connection, deferredClose, asked, core, aside, need,
                     data, counts, ghosts>>
  BY DEF CancelPendingWaits, Finish
<1>2. SessionTypes
  BY TypeParts DEF SessionInv
<1>3. TypeOK'
  <2>1. queue' \in [Direction -> SUBSET Waits]
    BY <1>1 DEF NoWaits
  <2>2. outcome' \in [Waits -> {"none", "pending", "ok", "aborted", "error"}]
    BY <1>1, <1>2 DEF SessionTypes
  <2>3. SessionTypes'
    BY <1>1, <1>2, <2>1, <2>2 DEF core, data, counts, ghosts, SessionTypes
  <2> QED
    BY <2>3, TypeParts
<1>4. WaitsOK' /\ SessionMatchesState' /\ CommitsOnTheirWay'
  BY <1>1 DEF core, data, ghosts, SessionInv, WaitsOK, IsBagOf, SessionMatchesState,
     CommitsOnTheirWay
<1>5. QueuedWaitsAreRegistered'
  <2>1. Pending' = {}
    BY <1>1 DEF Pending, NoWaits
  <2> QED
    BY <2>1 DEF QueuedWaitsAreRegistered
<1>6. ResyncIsTransparent'
  BY <1>1 DEF ghosts, SessionInv, ResyncIsTransparent
<1>7. RegistrationsAreCounted' /\ DeathsAreCounted' /\ DeferredCloseIsCounted'
  BY <1>1 DEF core, counts, ghosts, SessionInv, RegistrationsAreCounted, DeathsAreCounted,
     DeferredCloseIsCounted, BagToSet
<1> QED
  BY <1>3, <1>4, <1>5, <1>6, <1>7 DEF SessionInv

\* An error is reported, or handled without effect on the session itself.
LEMMA ErrorSteps ==
    ASSUME SessionInv, ThreadTypes',
           \/ \E kind \in ErrorKind : Error(kind)
           \/ HandleError /\ ~EnterInactive(coreWaits, staleWaits)
           \/ AccessTokenExpired /\ state # "active"
    PROVE  SessionInv'
<1>1. /\ UNCHANGED <<state, policy, deferredClose, asked, core, waits, data, deathCount,
                     resyncs, ghosts>>
      /\ connection' = connection \/ connection' = FALSE
      /\ errors' = errors \/ (errors < MaxErrors /\ errors' = errors + 1)
  BY DEF Error, HandleError, AccessTokenExpired, counts
<1>2. SessionTypes
  BY TypeParts DEF SessionInv
<1>3. errors' \in 0 .. MaxErrors /\ resyncs' \in 0 .. errors'
  BY <1>1, <1>2, Bounds DEF SessionTypes
<1>4. connection' \in BOOLEAN
  BY <1>1, <1>2 DEF SessionTypes
<1>5. SessionTypes'
  BY <1>1, <1>2, <1>3, <1>4 DEF core, waits, data, ghosts, SessionTypes
<1> QED
  BY <1>1, <1>5, TypeParts, SessionUnchanged DEF core, waits, data, ghosts

\* The steps of handle_error.
LEMMA HandlerSessionStep ==
    ASSUME IInv, HandlerStep
    PROVE  SessionInv'
<1>1. SessionInv /\ ThreadTypes'
  BY HandlerThreads DEF IInv
<1>2. CASE HandleError
  BY <1>1, <1>2, BecomesInactive, ErrorSteps DEF HandleError
<1>3. CASE AccessTokenExpired
  BY <1>1, <1>3, EnterWaitingStep, ErrorSteps DEF AccessTokenExpired
<1>4. CASE BecomeInactive
  BY <1>1, <1>4, BecomesInactive DEF BecomeInactive
<1>5. CASE ReviveAfterResync
  BY <1>1, <1>5, ReviveStep DEF ReviveAfterResync
<1> QED
  BY <1>1, <1>2, <1>3, <1>4, <1>5, CancelPendingWaitsStep, ClientResyncStep,
     RestoreHandlersStep DEF HandlerStep

-----------------------------------------------------------------------------
(***************************************************************************)
(* The theorems.                                                           *)
(***************************************************************************)

\* The invariant holds at first ...
LEMMA InitInvariant == Init => IInv
<1> SUFFICES ASSUME Init PROVE IInv
  OBVIOUS
<1>1. coreWaits = EmptyBag /\ staleWaits = EmptyBag /\ state = "inactive" /\ session = FALSE
  BY DEF Init
<1>2. /\ IsBagOf(coreWaits, CoreWait) /\ IsBagOf(staleWaits, CoreWait)
      /\ BagToSet(coreWaits) = {} /\ BagToSet(staleWaits) = {}
  BY <1>1, NoBag
<1>3. TypeOK
  <2>1. queue \in [Direction -> SUBSET Waits] /\ aside \in [Direction -> SUBSET Waits]
    BY DEF Init, NoWaits
  <2>2. /\ outcome \in [Waits -> {"none", "pending", "ok", "aborted", "error"}]
        /\ need \in [Waits -> 0 .. version]
    BY DEF Init
  <2>3. /\ deferredCommit \in 0 .. version /\ announced \in 0 .. version
        /\ version \in 0 .. MaxCommits /\ uploaded \in 0 .. version
        /\ deathCount \in 0 .. MaxDeaths /\ resyncs \in 0 .. errors
        /\ errors \in 0 .. MaxErrors /\ dyingSince \in 0 .. version
    BY Bounds DEF Init
  <2>4. SessionTypes
    BY <2>1, <2>2, <2>3 DEF Init, SessionTypes
  <2>5. ThreadTypes
    BY DEF Init, ThreadTypes
  <2> QED
    BY <2>4, <2>5, TypeParts
<1>4. ResyncIsTransparent
  BY DEF Init, ResyncIsTransparent
<1>5. SessionInv
  BY <1>1, <1>2, <1>3, <1>4 DEF SessionInv, WaitsOK, SessionMatchesState, CommitsOnTheirWay,
     QueuedWaitsAreRegistered, RegistrationsAreCounted, DeathsAreCounted,
     DeferredCloseIsCounted
<1>6. ThreadInv
  <2>1. loop = <<>> /\ aside = NoWaits
    BY DEF Init
  <2>2. ClosingIsUnreferenced
    BY <1>1 DEF ClosingIsUnreferenced, Closing
  <2> QED
    BY <2>1, <2>2, ProgramTypes DEF ThreadInv, ResyncsFollowErrors, AsideDuringResync
<1> QED
  BY <1>5, <1>6 DEF IInv

\* ... and after every step.
LEMMA NextInvariant == IInv /\ [Next]_vars => IInv'
<1> SUFFICES ASSUME IInv, [Next]_vars PROVE IInv'
  OBVIOUS
<1>1. CASE UserStep
  BY <1>1, UserThreads, UserSessionStep DEF IInv
<1>2. CASE CoreStep
  BY <1>2, CoreThreads, CoreSessionStep DEF IInv
<1>3. CASE HandlerStep
  BY <1>3, HandlerThreads, HandlerSessionStep DEF IInv
<1>4. ASSUME NEW kind \in ErrorKind, Error(kind) PROVE IInv'
  <2>1. ThreadTypes' /\ ThreadInv'
    BY <1>4, ErrorThreads
  <2>2. SessionInv'
    BY <1>4, <2>1, ErrorSteps DEF IInv
  <2> QED
    BY <2>1, <2>2 DEF IInv
<1>5. CASE UNCHANGED vars
  <2>1. UNCHANGED <<state, policy, connection, deferredClose, Threads, asked, core, waits,
                    data, counts, ghosts>>
    BY <1>5 DEF vars, Threads
  <2>2. ThreadTypes' /\ SessionTypes'
    BY <2>1, TypeParts DEF IInv, SessionInv, Threads, core, waits, data, counts, ghosts,
       ThreadTypes, SessionTypes
  <2>3. SessionInv'
    BY <2>1, <2>2, TypeParts, SessionUnchanged
       DEF IInv, core, waits, data, counts, ghosts
  <2>4. ClosingIsUnreferenced'
    BY <2>1, ClosingUnchanged DEF Threads, ghosts, IInv, ThreadInv
  <2>5. ThreadInv'
    BY <2>1, <2>4, LoopUnchanged DEF Threads, waits, counts
  <2> QED
    BY <2>3, <2>5 DEF IInv
<1> QED
  BY <1>1, <1>2, <1>3, <1>4, <1>5 DEF Next

\* The inductive invariant holds in every reachable state.
THEOREM InvariantHolds == Spec => []IInv
BY InitInvariant, NextInvariant, PTL DEF Spec

\* Every variable stays in its type, for any number of commits, errors and deaths.
THEOREM TypeCorrect == Spec => []TypeOK
<1>1. IInv => TypeOK
  BY DEF IInv, SessionInv
<1> QED
  BY <1>1, InvariantHolds, PTL

\* An active or dying session has a core session, an inactive one none: what the
\* REALM_ASSERTs of sync_session.cpp rely on.
THEOREM SessionsMatchStates == Spec => []SessionMatchesState
<1>1. IInv => SessionMatchesState
  BY DEF IInv, SessionInv
<1> QED
  BY <1>1, InvariantHolds, PTL

\* No local commit is left unannounced by an active session, through token expiries, client
\* resyncs and log-outs, unless a reference had been handed out while it was closing.
THEOREM NoCommitIsForgotten == Spec => []CommitsAreAnnounced
<1>1. IInv => CommitsAreAnnounced
  BY DEF IInv, SessionInv, CommitsOnTheirWay, CommitsAreAnnounced
<1> QED
  BY <1>1, InvariantHolds, PTL

\* A callback in the queue of an active session is called by an operation of its core
\* session, although only the first one in a queue registers.
THEOREM QueuedWaitsWillBeCalled == Spec => []QueuedWaitsAreRegistered
<1>1. IInv => QueuedWaitsAreRegistered
  BY DEF IInv, SessionInv
<1> QED
  BY <1>1, InvariantHolds, PTL

\* No wait is aborted because of a client resync.
THEOREM ResyncsAbortNothing == Spec => []ResyncIsTransparent
<1>1. IInv => ResyncIsTransparent
  BY DEF IInv, SessionInv
<1> QED
  BY <1>1, InvariantHolds, PTL

-----------------------------------------------------------------------------
(***************************************************************************)
(* What a step may not do.                                                 *)
(***************************************************************************)

\* The blocks of advance_state move along the arrows.
LEMMA NextMoves == IInv /\ [Next]_vars => (state' # state => <<state, state'>> \in Arrows)
<1> SUFFICES ASSUME IInv, [Next]_vars, state' # state PROVE <<state, state'>> \in Arrows
  OBVIOUS
<1>1. state \in {"inactive", "waiting", "active", "dying"}
  BY TypeParts DEF IInv, SessionInv, SessionTypes
<1>2. CASE state' = "inactive"
  BY <1>1, <1>2 DEF Arrows
<1>3. \/ state' = "inactive"
      \/ Revive
      \/ TokenArrives
      \/ state = "active" /\ (EnterDying \/ EnterWaiting)
  <2>1. CASE UserStep
    BY <2>1 DEF UserStep, ReviveIfNeeded, HandleReconnect, TokenFails, RefreshToken, LogOut,
       ReviveNew, GetExisting, TakeReference, DropReference, UpdateConfiguration,
       UpdateConfigurationRevives, WaitForCompletion,
       TransactNotify, EnterInactive
  <2>2. CASE CoreStep \/ \E kind \in ErrorKind : Error(kind)
    BY <2>2 DEF CoreStep, Connect, Upload, StaleConnect, Terminated, CompletesWait,
       CompletesDeathWait, AbortsWait, Error, EnterInactive
  <2>3. CASE HandlerStep
    BY <2>3 DEF HandlerStep, HandleError, CancelPendingWaits, BecomeInactive,
       AccessTokenExpired, ClientResync, RestoreHandlers, ReviveAfterResync, EnterInactive
  <2>4. CASE UNCHANGED vars
    BY <2>4 DEF vars
  <2> QED
    BY <2>1, <2>2, <2>3, <2>4 DEF Next
<1>4. CASE Revive
  BY <1>4 DEF Revive, EnterWaiting, EnterActive, Arrows
<1>5. CASE TokenArrives
  BY <1>5 DEF TokenArrives, Arrows
<1>6. CASE state = "active" /\ (EnterDying \/ EnterWaiting)
  BY <1>6 DEF EnterDying, EnterWaiting, Arrows
<1> QED
  BY <1>2, <1>3, <1>4, <1>5, <1>6

\* The state diagram in the comment at the top of sync_session.cpp is complete.
THEOREM ArrowsAreComplete == Spec => MovesAlongArrows
<1>1. IInv /\ [Next]_vars => [state' # state => <<state, state'>> \in Arrows]_vars
  BY NextMoves
<1> QED
  BY <1>1, InvariantHolds, PTL DEF Spec, MovesAlongArrows

\* The wait that a death is ended by is the one that it registered.
LEMMA NextUploadsFirst ==
    IInv /\ [Next]_vars =>
        ((state = "dying" /\ ~strayed /\ \E w \in BagToSet(coreWaits) : CompletesDeathWait(w))
         => (state' = "inactive" => uploaded >= dyingSince))
<1> SUFFICES ASSUME IInv, state = "dying", ~strayed, state' = "inactive",
                    NEW w \in BagToSet(coreWaits), CompletesDeathWait(w)
             PROVE  uploaded >= dyingSince
  OBVIOUS
<1>1. IsCurrentDeath(w) /\ uploaded >= w.upto /\ w.kind = "death"
  BY DEF CompletesDeathWait
<1>2. w.count = deathCount /\ w.upto >= dyingSince
  BY <1>1 DEF IsCurrentDeath, IInv, SessionInv, DeathsAreCounted
<1>3. w.upto \in Nat /\ uploaded \in Int /\ dyingSince \in Int
  <2>1. w.upto \in Nat
    BY DEF IInv, SessionInv, WaitsOK, IsBagOf, BagToSet, CoreWait
  <2>2. uploaded \in Int /\ dyingSince \in Int
    BY TypeParts DEF IInv, SessionInv, SessionTypes
  <2> QED
    BY <2>1, <2>2
<1> QED
  BY <1>1, <1>2, <1>3

\* A dying session ends by itself only when what it had at its close is on the server, though
\* it may have been revived and closed again while an earlier wait was in progress.
THEOREM DeathsUploadFirst == Spec => DyingUploadsFirst
<1> DEFINE A == (state = "dying" /\ ~strayed
                   /\ \E w \in BagToSet(coreWaits) : CompletesDeathWait(w))
                 => (state' = "inactive" => uploaded >= dyingSince)
<1>1. IInv /\ [Next]_vars => [A]_vars
  BY NextUploadsFirst
<1>2. Spec => [][A]_vars
  BY <1>1, InvariantHolds, PTL DEF Spec
<1> QED
  BY <1>2 DEF DyingUploadsFirst

\* A callback that is called is not pending any more.
LEMMA FinishedAreCalled ==
    ASSUME SessionTypes, NEW ws, NEW result \in {"ok", "aborted", "error"},
           Finish(ws, result), NEW w \in ws \cap Waits
    PROVE  outcome'[w] # "pending"
BY DEF Finish

\* A wait that is queued or set aside stays so, or is called.
Keeps ==
    \A w \in Queued(queue) \cup Queued(aside) :
        outcome'[w] = "pending" => w \in Queued(queue') \cup Queued(aside')

\* The callbacks of a queue are called all at once.
LEMMA CompletedKeeps ==
    ASSUME SessionTypes, NEW w, w.kind \in Direction, NEW result \in {"ok", "aborted"},
           Completed(w, result), aside' = aside
    PROVE  Keeps
<1>1. CASE w.count = resyncs
  <2>1. Finish(queue[w.kind], result) /\ queue' = [queue EXCEPT ![w.kind] = {}]
    BY <1>1 DEF Completed
  <2> SUFFICES ASSUME NEW v \in Queued(queue) \cup Queued(aside), outcome'[v] = "pending"
               PROVE  v \in Queued(queue') \cup Queued(aside')
    BY DEF Keeps
  <2>2. v \notin queue[w.kind]
    <3>1. queue[w.kind] \subseteq Waits
      BY DEF SessionTypes
    <3> QED
      BY <2>1, <3>1, FinishedAreCalled
  <2>3. \A d \in Direction : d # w.kind => queue'[d] = queue[d]
    BY <2>1 DEF SessionTypes
  <2> QED
    BY <2>2, <2>3 DEF Queued
<1>2. CASE w.count # resyncs
  BY <1>2 DEF Completed, Keeps
<1> QED
  BY <1>1, <1>2

\* Becoming inactive calls all that is queued.
LEMMA InactiveKeeps ==
    ASSUME SessionTypes, NEW current, NEW stale, EnterInactive(current, stale)
    PROVE  Keeps
<1>1. Finish(Queued(queue), "aborted") /\ aside' = aside
  BY DEF EnterInactive
<1>2. Queued(queue) \subseteq Waits
  BY DEF SessionTypes, Queued
<1>3. \A w \in Queued(queue) : outcome'[w] # "pending"
  BY <1>1, <1>2, FinishedAreCalled
<1> QED
  BY <1>1, <1>3 DEF Keeps

\* Where nothing is called, nothing leaves.
LEMMA QuietKeeps ==
    ASSUME UNCHANGED <<queue, aside>>
    PROVE  Keeps
BY DEF Keeps

\* Every step but RestoreHandlers keeps what is queued or set aside, or calls it.
LEMMA NextKeeps == IInv /\ [Next]_vars => (~RestoreHandlers => Keeps)
<1> SUFFICES ASSUME IInv, [Next]_vars, ~RestoreHandlers PROVE Keeps
  OBVIOUS
<1>1. SessionTypes
  BY TypeParts DEF IInv, SessionInv
<1>2. CASE \E w \in Waits : WaitForCompletion(w)
  <2>1. PICK w \in Waits : WaitForCompletion(w)
    BY <1>2
  <2>2. queue' = [queue EXCEPT ![DirectionOf(w)] = @ \cup {w}] /\ aside' = aside
    BY <2>1 DEF WaitForCompletion
  <2>3. \A d \in Direction : queue[d] \subseteq queue'[d]
    BY <1>1, <2>2 DEF SessionTypes
  <2> QED
    BY <2>2, <2>3 DEF Keeps, Queued
<1>3. CASE UserStep /\ ~\E w \in Waits : WaitForCompletion(w)
  <2>1. UNCHANGED waits \/ EnterInactive(coreWaits, staleWaits)
    BY <1>3 DEF UserStep, ReviveIfNeeded, HandleReconnect, TokenFails, RefreshToken,
       TokenArrives, LogOut, ReviveNew, GetExisting, TakeReference, DropReference,
       UpdateConfiguration, UpdateConfigurationRevives,
       TransactNotify, Revive, EnterWaiting, EnterActive, EnterDying
  <2> QED
    BY <1>1, <2>1, QuietKeeps, InactiveKeeps DEF waits
<1>4. CASE CoreStep
  <2>1. CASE Connect \/ Upload \/ StaleConnect \/ Terminated
    BY <2>1, QuietKeeps DEF Connect, Upload, StaleConnect, Terminated, waits
  <2>2. ASSUME NEW w \in BagToSet(coreWaits), CompletesWait(w) PROVE Keeps
    <3>1. w.kind \in Direction
      BY <2>2 DEF CompletesWait, IInv, SessionInv, WaitsOK, IsBagOf, BagToSet, CoreWait
    <3> QED
      BY <1>1, <2>2, <3>1, CompletedKeeps DEF CompletesWait
  <2>3. ASSUME NEW w \in BagToSet(coreWaits), CompletesDeathWait(w) PROVE Keeps
    BY <1>1, <2>3, QuietKeeps, InactiveKeeps DEF CompletesDeathWait, waits
  <2>4. ASSUME NEW w \in BagToSet(staleWaits), AbortsWait(w) PROVE Keeps
    <3>1. CASE w.kind = "death"
      BY <2>4, <3>1, QuietKeeps DEF AbortsWait
    <3>2. CASE w.kind # "death"
      <4>1. w.kind \in Direction
        BY <3>2 DEF IInv, SessionInv, WaitsOK, IsBagOf, BagToSet, CoreWait
      <4> QED
        BY <1>1, <2>4, <3>2, <4>1, CompletedKeeps DEF AbortsWait
    <3> QED
      BY <3>1, <3>2
  <2> QED
    BY <1>4, <2>1, <2>2, <2>3, <2>4 DEF CoreStep
<1>5. CASE CancelPendingWaits
  <2>1. Finish(Queued(queue), "error") /\ aside' = aside
    BY <1>5 DEF CancelPendingWaits
  <2>2. Queued(queue) \subseteq Waits
    BY <1>1 DEF SessionTypes, Queued
  <2>3. \A w \in Queued(queue) : outcome'[w] # "pending"
    BY <1>1, <2>1, <2>2, FinishedAreCalled
  <2> QED
    BY <2>1, <2>3 DEF Keeps
<1>6. CASE ClientResync
  <2>1. aside' = queue
    BY <1>6 DEF ClientResync
  <2>2. loop = <<"resync", "restore", "revive">>
    BY <1>6, ProgramSteps DEF IInv, ThreadInv, ClientResync, Takes
  <2>3. aside = NoWaits
    BY <2>2, ProgramTypes DEF IInv, ThreadInv, AsideDuringResync
  <2>4. Queued(aside) = {}
    BY <2>3 DEF NoWaits, Queued
  <2> QED
    BY <2>1, <2>4 DEF Keeps
<1>7. CASE HandleError \/ BecomeInactive \/ AccessTokenExpired \/ ReviveAfterResync
  <2>1. UNCHANGED waits \/ EnterInactive(coreWaits, staleWaits)
    BY <1>7 DEF HandleError, BecomeInactive, AccessTokenExpired, ReviveAfterResync, Revive,
       EnterWaiting, EnterActive
  <2> QED
    BY <1>1, <2>1, QuietKeeps, InactiveKeeps DEF waits
<1>8. CASE UNCHANGED vars \/ \E kind \in ErrorKind : Error(kind)
  BY <1>8, QuietKeeps DEF vars, Error, waits
<1> QED
  BY <1>2, <1>3, <1>4, <1>5, <1>6, <1>7, <1>8 DEF Next, HandlerStep

\* No step but the one that writes without the lock loses a callback.
THEOREM NoWaitIsDropped == Spec => WaitsAreNotDropped
<1>1. IInv /\ [Next]_vars => [~RestoreHandlers => Keeps]_vars
  BY NextKeeps
<1>2. Spec => [][~RestoreHandlers => Keeps]_vars
  BY <1>1, InvariantHolds, PTL DEF Spec
<1> QED
  BY <1>2 DEF WaitsAreNotDropped, Keeps
=============================================================================
