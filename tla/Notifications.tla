--------------------------- MODULE Notifications ---------------------------
(***************************************************************************)
(* How a Realm tells its observers what has changed                        *)
(* (impl/collection_notifier.cpp, impl/realm_coordinator.cpp,              *)
(* impl/results_notifier.cpp and the notifying part of shared_realm.cpp).  *)
(*                                                                         *)
(* Three actors share the notifiers of one file.  The target thread owns a *)
(* Realm: it registers notifiers and callbacks, writes, and calls the      *)
(* callbacks.  The worker thread reruns the queries for every new version  *)
(* and hands the changes over.  Everyone else commits to the same file, or *)
(* drops a notification token.  An action is what one of them does while   *)
(* it holds m_notifier_mutex or m_callback_mutex.                          *)
(*                                                                         *)
(* A change set is the set of versions whose changes it contains: every    *)
(* commit is taken to change every collection.  Indices start at 1.  The   *)
(* vectors of notifiers are sets: the order in which the notifiers of a    *)
(* package are called is left open.  The order of callbacks is kept.       *)
(***************************************************************************)
EXTENDS Integers, Sequences, FiniteSets, SequencesExt

CONSTANTS
    Notifiers,      \* the collections that can be observed
    Callbacks,      \* calls of add_callback, each with a token of its own
    Others,         \* what the other Realms of the process may have registered
    MaxVersion,     \* bound of the commits
    MaxIncidents    \* bound of the incidents with the first write inside a callback

ASSUME NotificationsAssumption ==
    /\ Others \subseteq {"nothing", "silent"}
    /\ MaxVersion \in Nat \ {0}
    /\ MaxIncidents \in Nat

NoSkip == 0             \* m_notifier_skip_version = {0, 0}
Unused == -1
Removed == -2
npos == 0               \* m_callback_index while nothing iterates
NoOne == [step |-> "idle", op |-> "none", package |-> {}, turn |-> "none", target |-> 0]
Asleep == [pc |-> "idle", version |-> 0, skip |-> NoSkip, running |-> {}, fresh |-> {}]

VARIABLES
    latest,         \* the newest snapshot of the file
    current,        \* the version the Realm reads
    seen,           \* last_seen_transaction_version
    writing,        \* the Realm is in a write transaction
    other,          \* the notifiers of other Realms
    newNotifiers, notifiers,            \* m_new_notifiers, m_notifiers
    skipVersion,    \* m_notifier_skip_version
    sg,             \* per notifier: m_sg_version (0: not registered)
    hasRun, alive, haveCallbacks,
    rows,           \* per notifier: the version that m_previous_rows shows
    change,         \* per notifier: m_change
    callbacks, index, count,            \* m_callbacks, m_callback_index, m_callback_count
    accumulated, toDeliver, initial, skipNext, \* the fields of Callback
    woken,          \* the pipe of the commit helper holds data
    worker,         \* where run_async_notifiers is
    posted,         \* the scheduler will call Realm::notify
    thread,         \* where the target thread is
    suppressing,    \* the tokens passed to the commit that is being made
    told,           \* the version each callback knows of (0: nothing yet)
    hushed,         \* the versions each callback shall not be told of
    stranded,       \* tokens whose wake-up was skipped or swallowed
    incidents       \* what has happened that the properties make exceptions of

file     == <<latest, skipVersion>>
realm    == <<current, seen, writing>>
lists    == <<newNotifiers, notifiers>>
results  == <<rows, change>>
state    == <<sg, hasRun>>
cbs      == <<callbacks, index, count, haveCallbacks>>
cbData   == <<accumulated, toDeliver, initial, skipNext>>
signals  == <<woken, posted>>
ghosts   == <<told, hushed, stranded, incidents>>
vars     == <<file, realm, other, lists, results, state, alive, cbs, cbData, signals,
              worker, thread, suppressing, ghosts>>

Registered(n) == ToSet(callbacks[n])
NotifierOf(c) == CHOOSE n \in Notifiers : c \in Registered(n)
Token == UNION {Registered(n) : n \in Notifiers}
Alive(s) == {n \in s : alive[n]}
Happened(what) == incidents' = incidents \cup {what}

\* User code runs between the turns of the run loop and inside a callback.
UserCode == thread.step \in {"idle", "calling"} /\ suppressing = {}

\* Results::prepare_async: not in a write transaction.
RegisterNotifier(n) ==
    /\ UserCode /\ ~writing /\ sg[n] = 0
    /\ sg' = [sg EXCEPT ![n] = current]
    /\ newNotifiers' = newNotifiers \cup {n}
    /\ UNCHANGED <<file, realm, other, notifiers, results, hasRun, alive, cbs, cbData,
                   signals, worker, thread, suppressing, ghosts>>

\* The worker's first pass stops at the version to be skipped and leaves new
\* notifiers alone.
InPass == IF worker.pc \in {"skip", "skipped"} THEN worker.running ELSE worker.running \cup worker.fresh
PassVersion == IF worker.pc \in {"skip", "skipped"} THEN worker.skip ELSE worker.version

\* The rows that the last run compares with are not those of the version the
\* notifier has, or is about to be given.
Unwatched(n) ==
    /\ hasRun[n] /\ ~haveCallbacks[n]
    /\ \/ rows[n] # sg[n]
       \/ worker.pc \in {"skipped", "finished"} /\ n \in InPass /\ rows[n] # PassVersion

WakesForFirst(n) == index[n] = npos /\ callbacks[n] = <<>>   \* mutant
WakesWorker(n) == index[n] = npos
AddCallback(n, c) ==
    /\ UserCode /\ ~writing /\ sg[n] # 0 /\ alive[n]
    /\ told[c] = Unused
    /\ told' = [told EXCEPT ![c] = 0]
    /\ callbacks' = [callbacks EXCEPT ![n] = Append(@, c)]
    /\ IF WakesWorker(n)
       THEN /\ woken' = TRUE
            /\ haveCallbacks' = [haveCallbacks EXCEPT ![n] = TRUE]
       ELSE UNCHANGED <<woken, haveCallbacks>>
    /\ stranded' = IF index[n] = npos THEN stranded ELSE stranded \cup {c}
    /\ IF Unwatched(n) THEN Happened("unwatched") ELSE UNCHANGED incidents
    /\ UNCHANGED <<file, realm, other, lists, results, state, alive, index, count, cbData,
                   posted, worker, thread, suppressing, hushed>>

\* Any thread may drop a token at any time.
find_callback(n, c) == CHOOSE i \in DOMAIN callbacks[n] : callbacks[n][i] = c
IndexKept(n, i) == index[n]                             \* mutant
IndexAfterRemoval(n, i) == IF index[n] # npos /\ index[n] >= i THEN index[n] - 1 ELSE index[n]
RemoveCallback(c) ==
    /\ c \in Token
    /\ LET n == NotifierOf(c)
           i == find_callback(n, c)
       IN /\ callbacks' = [callbacks EXCEPT ![n] = RemoveAt(@, i)]
          /\ index' = [index EXCEPT ![n] = IndexAfterRemoval(n, i)]
          /\ count' = [count EXCEPT ![n] = @ - 1]
          /\ haveCallbacks' = [haveCallbacks EXCEPT ![n] = Len(callbacks[n]) > 1]
          /\ IF n \in thread.package /\ thread.step # "waiting" /\ i > count[n]
             THEN Happened("miscounted")
             ELSE UNCHANGED incidents
    /\ accumulated' = [accumulated EXCEPT ![c] = {}]
    /\ toDeliver' = [toDeliver EXCEPT ![c] = {}]
    /\ initial' = [initial EXCEPT ![c] = FALSE]
    /\ skipNext' = [skipNext EXCEPT ![c] = FALSE]
    /\ hushed' = [hushed EXCEPT ![c] = {}]
    /\ stranded' = stranded \ {c}
    /\ told' = [told EXCEPT ![c] = Removed]
    /\ UNCHANGED <<file, realm, other, lists, results, state, alive, signals, worker, thread,
                   suppressing>>

\* The collection is released: CollectionNotifier::unregister.  A callback
\* of the binding holds its collection.
Unregister(n) ==
    /\ UserCode /\ sg[n] # 0 /\ alive[n] /\ callbacks[n] = <<>>
    /\ alive' = [alive EXCEPT ![n] = FALSE]
    /\ UNCHANGED <<file, realm, other, lists, results, state, cbs, cbData, signals, worker,
                   thread, suppressing, ghosts>>
-----------------------------------------------------------------------------
(* Delivery on the target thread.                                          *)

NotifiersForRealm == Alive(newNotifiers \cup notifiers)

\* package_for_delivery of every notifier in `s`
Package(s) ==
    LET packaged == {c \in Callbacks : \E n \in s : c \in Registered(n)} IN
    /\ toDeliver' = [c \in Callbacks |-> IF c \in packaged THEN accumulated[c] ELSE toDeliver[c]]
    /\ accumulated' = [c \in Callbacks |-> IF c \in packaged THEN {} ELSE accumulated[c]]
    /\ count' = [n \in Notifiers |-> IF n \in s THEN Len(callbacks[n]) ELSE count[n]]

NothingPackaged == UNCHANGED <<toDeliver, accumulated, count>>
Deliverable(s) == {n \in s : hasRun[n] /\ alive[n]}
\* m_version is the version of the last one; all have the same.
VersionOf(s) == IF s = {} THEN 0 ELSE sg[CHOOSE n \in s : TRUE]
Deliver(op, s) ==
    \E n \in s :
        thread' = [step |-> "delivering", op |-> op, package |-> s, turn |-> n, target |-> 0]

\* Realm::notify in a write transaction does nothing.
NotifyWhileWriting ==
    /\ thread.step = "idle" /\ suppressing = {} /\ posted /\ writing
    /\ posted' = FALSE
    /\ stranded' = stranded \cup {c \in Token : told[c] = 0 \/ accumulated[c] # {}}
    /\ UNCHANGED <<file, realm, other, lists, results, state, alive, cbs, cbData, woken,
                   worker, thread, suppressing, told, hushed, incidents>>

\* RealmCoordinator::process_available_async
ReadyAtAny(version) == Deliverable(NotifiersForRealm)   \* mutant
ReadyAt(version) == {n \in Deliverable(NotifiersForRealm) : sg[n] = version}
ProcessAvailable ==
    /\ thread.step = "idle" /\ posted /\ ~writing
    /\ seen = latest
    /\ posted' = FALSE
    /\ IF ReadyAt(current) = {}
       THEN NothingPackaged /\ UNCHANGED thread
       ELSE Package(ReadyAt(current)) /\ Deliver("process", ReadyAt(current))
    /\ UNCHANGED <<file, realm, other, lists, rows, change, state, alive, callbacks, index,
                   haveCallbacks, initial, skipNext, woken, worker, suppressing, ghosts>>

\* RealmCoordinator::advance_to_ready: past the notifiers if none is ready,
\* and not at all if the Realm is ahead of them.
AdvanceToReady ==
    /\ thread.step = "idle" /\ posted /\ ~writing
    /\ seen # latest
    /\ posted' = FALSE
    /\ LET ready == Deliverable(NotifiersForRealm) IN
       /\ IF ready = {} THEN NothingPackaged ELSE Package(ready)
       /\ IF ready # {} /\ VersionOf(ready) < current
          THEN current' = current /\ UNCHANGED thread
          ELSE /\ current' = IF ready = {} THEN latest ELSE VersionOf(ready)
               /\ IF ready = {} THEN UNCHANGED thread ELSE Deliver("advance", ready)
    /\ seen' = current'
    /\ UNCHANGED <<file, writing, other, lists, rows, change, state, alive, callbacks, index,
                   haveCallbacks, initial, skipNext, woken, worker, suppressing, ghosts>>

\* The predicate of NotifierPackage::package_and_wait
ReadyForNext(s, target) ==                              \* mutant
    \A n \in s : haveCallbacks[n] => hasRun[n] /\ sg[n] > target
ReadyOnceRun(s, target) ==                              \* mutant
    \A n \in s : haveCallbacks[n] => hasRun[n]
ReadyFor(s, target) ==
    \A n \in s : haveCallbacks[n] => hasRun[n] /\ sg[n] >= target

\* Realm::refresh and Realm::begin_transaction up to package_and_wait.  The
\* latter waits with the write lock of the file.
StartWait(op) ==
    /\ thread.step = "idle" /\ suppressing = {} /\ ~writing
    /\ NotifiersForRealm # {}
    /\ thread' = [NoOne EXCEPT !.step = "waiting", !.op = op, !.package = NotifiersForRealm,
                                !.target = latest]
    /\ woken' = (woken \/ ~ReadyFor(NotifiersForRealm, latest))
    /\ UNCHANGED <<file, realm, other, lists, results, state, alive, cbs, cbData, posted, worker,
                   suppressing, ghosts>>
Refresh == StartWait("refresh")
BeginWrite == StartWait("begin")

RefreshUnobserved ==
    /\ thread.step = "idle" /\ suppressing = {} /\ ~writing
    /\ NotifiersForRealm = {}
    /\ current' = latest /\ seen' = latest
    /\ writing' \in BOOLEAN
    /\ UNCHANGED <<file, other, lists, results, state, alive, cbs, cbData, signals, worker, thread,
                   suppressing, ghosts>>

\* package_and_wait, then transaction::advance or transaction::begin
PackageAndWait ==
    /\ thread.step = "waiting"
    /\ ReadyFor(thread.package, thread.target)
    /\ LET ready == Deliverable(thread.package)
           late  == VersionOf(ready) < thread.target
       IN /\ IF ready = {} THEN NothingPackaged ELSE Package(ready)
          /\ current' = IF late \/ thread.op = "begin" THEN latest ELSE VersionOf(ready)
          /\ IF late THEN thread' = NoOne ELSE Deliver(thread.op, ready)
    /\ seen' = current'
    /\ writing' = (thread.op = "begin")
    /\ UNCHANGED <<file, other, lists, rows, change, state, alive, callbacks, index, haveCallbacks,
                   initial, skipNext, signals, worker, suppressing, ghosts>>

\* for_each_callback in after_advance: the next callback that has something
\* to be told.  A count that has wrapped around reads past the end.
HasNews(c) == ~initial[c] \/ toDeliver[c] # {}
Beyond(n) == count[n] < 0 \/ count[n] > Len(callbacks[n])
Limit(n) == IF Beyond(n) THEN Len(callbacks[n]) ELSE count[n]
NextIndex(n) ==
    LET due == {i \in index[n] + 1 .. Limit(n) : HasNews(callbacks[n][i])}
    IN  IF due = {} THEN npos ELSE CHOOSE i \in due : \A j \in due : i <= j

CallbackReturned ==
    /\ thread.step \in {"delivering", "calling"} /\ suppressing = {}
    /\ writing => thread.op = "begin"

CallNext ==
    /\ CallbackReturned
    /\ LET n == thread.turn
           i == NextIndex(n)
           c == callbacks[n][i]
       IN /\ i # npos
          /\ index' = [index EXCEPT ![n] = i]
          /\ toDeliver' = [toDeliver EXCEPT ![c] = {}]
          /\ initial' = [initial EXCEPT ![c] = TRUE]
          /\ told' = [told EXCEPT ![c] = current]
          /\ hushed' = [hushed EXCEPT ![c] = IF skipNext[c] THEN @ ELSE {}]
    /\ thread' = [thread EXCEPT !.step = "calling"]
    /\ UNCHANGED <<file, realm, other, lists, results, state, alive, callbacks, count,
                   haveCallbacks, accumulated, skipNext, signals, worker, suppressing, stranded,
                   incidents>>

FinishNotifier ==
    /\ CallbackReturned
    /\ LET n    == thread.turn
           rest == thread.package \ {n}
       IN /\ NextIndex(n) = npos
          /\ index' = [index EXCEPT ![n] = npos]
          /\ IF Beyond(n) THEN thread' = [thread EXCEPT !.step = "undefined"]
             ELSE IF rest = {} THEN thread' = NoOne
             ELSE Deliver(thread.op, rest)
    /\ seen' = IF thread.op = "process" THEN seen ELSE current
    /\ UNCHANGED <<file, current, writing, other, lists, results, state, alive, callbacks, count,
                   haveCallbacks, cbData, signals, worker, suppressing, ghosts>>
-----------------------------------------------------------------------------
(* Writing.                                                                *)

\* A write begun in a callback sends no notifications.
BeginInCallback ==
    /\ thread.step = "calling" /\ ~writing /\ suppressing = {}
    /\ "nested" \in incidents \/ Cardinality(incidents) < MaxIncidents
    /\ current' = latest
    /\ writing' = TRUE
    /\ Happened("nested")
    /\ UNCHANGED <<file, seen, other, lists, results, state, alive, cbs, cbData, signals, worker,
                   thread, suppressing, told, hushed, stranded>>

MayEndWrite ==
    /\ writing
    /\ thread.step = "idle" \/ (thread.step = "calling" /\ thread.op # "begin")

\* commitWrite(withoutNotifying:) first suppresses each token, then commits.
Suppress(c) ==
    /\ MayEndWrite /\ c \in Token /\ c \notin suppressing /\ latest < MaxVersion
    /\ suppressing' = suppressing \cup {c}
    /\ skipNext' = [skipNext EXCEPT ![c] = TRUE]
    /\ UNCHANGED <<file, realm, other, lists, results, state, alive, cbs, accumulated, toDeliver,
                   initial, signals, worker, thread, ghosts>>

HaveNotifiers == Alive(notifiers) # {}
SkipVersionAfter(commit) == IF HaveNotifiers THEN commit ELSE skipVersion
CommitWrite ==
    /\ MayEndWrite /\ latest < MaxVersion
    /\ latest' = latest + 1
    /\ current' = latest' /\ seen' = latest'
    /\ writing' = FALSE
    /\ skipVersion' = SkipVersionAfter(latest')
    /\ woken' = TRUE
    /\ hushed' = [c \in Callbacks |-> IF c \in suppressing THEN hushed[c] \cup {latest'} ELSE hushed[c]]
    /\ suppressing' = {}
    /\ UNCHANGED <<other, lists, results, state, alive, cbs, cbData, posted, worker, thread,
                   told, stranded, incidents>>

CancelWrite ==
    /\ MayEndWrite /\ suppressing = {}
    /\ writing' = FALSE
    /\ UNCHANGED <<file, current, seen, other, lists, results, state, alive, cbs, cbData, signals,
                   worker, thread, suppressing, ghosts>>

\* Another Realm commits, in this process or in another one.  The worker is to
\* stop at this version if it is a Realm of this file here that has notifiers,
\* with callbacks or without.
CommitElsewhere ==
    /\ ~writing /\ thread.op # "begin" /\ latest < MaxVersion
    /\ latest' = latest + 1
    /\ woken' = TRUE
    /\ \/ UNCHANGED <<skipVersion, incidents>>
       \/ /\ other # "nothing"
          /\ skipVersion' = latest'
          /\ IF skipVersion # NoSkip THEN Happened("overwritten") ELSE UNCHANGED incidents
    /\ UNCHANGED <<realm, other, lists, results, state, alive, cbs, cbData, posted, worker, thread,
                   suppressing, told, hushed, stranded>>
-----------------------------------------------------------------------------
(* The worker: RealmCoordinator::on_change.                                *)

NoNotifiersLeft(s) == s = {} /\ other = "nothing"
\* clean_up_dead_notifiers
SkipAfterCleanUp ==
    IF Alive(notifiers) # notifiers /\ NoNotifiersLeft(Alive(notifiers)) THEN NoSkip ELSE skipVersion

StartRun ==
    /\ worker.pc = "idle" /\ woken
    /\ woken' = FALSE
    /\ newNotifiers' = {}
    /\ notifiers' = Alive(notifiers \cup newNotifiers)
    /\ IF NoNotifiersLeft(notifiers')
       THEN /\ posted' = TRUE
            /\ skipVersion' = SkipAfterCleanUp
            /\ UNCHANGED worker
       ELSE /\ worker' = [pc |-> IF SkipAfterCleanUp = NoSkip THEN "final" ELSE "skip",
                          version |-> latest, skip |-> SkipAfterCleanUp,
                          running |-> Alive(notifiers),
                          fresh |-> Alive(newNotifiers)]
            /\ skipVersion' = NoSkip
            /\ UNCHANGED posted
    /\ stranded' = {}
    /\ UNCHANGED <<latest, realm, other, results, state, alive, cbs, cbData, thread,
                   suppressing, told, hushed, incidents>>

\* ResultsNotifier::need_to_run.  Without callbacks it depends on whether the
\* rows delivered last have been used, which is up to the program.
NeedToRun(n, used) ==
    /\ alive[n]
    /\ haveCallbacks[n] \/ n \in used \/ ~hasRun[n]
    /\ hasRun[n] => rows[n] # PassVersion

\* Notifiers run.  need_to_run and calculate_changes each look whether there are
\* callbacks, and the model once, where the second does: a last callback removed
\* in between is a run because of used rows, a first one added makes no
\* difference to a notifier that is running anyway.
RunNotifiers ==
    /\ worker.pc \in {"skip", "final"}
    /\ \E used \in SUBSET {n \in InPass : hasRun[n] /\ ~haveCallbacks[n]} :
       LET run == {n \in InPass : NeedToRun(n, used)} IN
       /\ change' = [n \in Notifiers |->
              IF n \in run /\ hasRun[n] /\ haveCallbacks[n]
              THEN rows[n] + 1 .. PassVersion ELSE {}]
       /\ rows' = [n \in Notifiers |-> IF n \in run THEN PassVersion ELSE rows[n]]
       /\ worker' = [worker EXCEPT !.pc = IF @ = "skip" THEN "skipped" ELSE "finished"]
    /\ UNCHANGED <<file, realm, other, lists, state, alive, cbs, cbData,
                   signals, thread, suppressing, ghosts>>

\* A skip that is meant for a version this pass does not reach is used up.
Hasty(c) == skipNext[c] /\ (c \in suppressing \/ \E v \in hushed[c] : v > PassVersion)

\* prepare_handover and add_changes of every notifier of the pass.  After the
\* last pass the Realms are told to notify().
PrepareHandover ==
    /\ worker.pc \in {"skipped", "finished"}
    /\ sg' = [n \in Notifiers |-> IF n \in InPass THEN PassVersion ELSE sg[n]]
    /\ hasRun' = [n \in Notifiers |-> hasRun[n] \/ n \in InPass]
    /\ change' = [n \in Notifiers |-> {}]
    /\ LET informed == {c \in Token : NotifierOf(c) \in InPass} IN
       /\ skipNext' = [c \in Callbacks |-> skipNext[c] /\ c \notin informed]
       /\ accumulated' = [c \in Callbacks |->
              IF c \in informed /\ ~skipNext[c]
              THEN accumulated[c] \cup change[NotifierOf(c)] ELSE accumulated[c]]
       /\ IF \E c \in informed : Hasty(c) THEN Happened("hasty") ELSE UNCHANGED incidents
    /\ IF worker.pc = "skipped"
       THEN /\ worker' = [worker EXCEPT !.pc = "final"]
            /\ UNCHANGED <<lists, skipVersion, posted>>
       ELSE /\ worker' = Asleep
            /\ posted' = TRUE
            /\ newNotifiers' = Alive(newNotifiers)
            /\ notifiers' = Alive(notifiers)
            /\ skipVersion' = SkipAfterCleanUp
    /\ UNCHANGED <<latest, realm, other, rows, alive, cbs, toDeliver, initial, woken,
                   thread, suppressing, told, hushed, stranded>>
-----------------------------------------------------------------------------
Init ==
    /\ latest = 1 /\ skipVersion = NoSkip
    /\ current = 1 /\ seen = 1 /\ writing = FALSE
    /\ other \in Others
    /\ newNotifiers = {} /\ notifiers = {}
    /\ sg = [n \in Notifiers |-> 0]
    /\ hasRun = [n \in Notifiers |-> FALSE]
    /\ alive = [n \in Notifiers |-> TRUE]
    /\ haveCallbacks = [n \in Notifiers |-> FALSE]
    /\ rows = [n \in Notifiers |-> 0]
    /\ change = [n \in Notifiers |-> {}]
    /\ callbacks = [n \in Notifiers |-> <<>>]
    /\ index = [n \in Notifiers |-> npos]
    /\ count = [n \in Notifiers |-> -1]
    /\ accumulated = [c \in Callbacks |-> {}]
    /\ toDeliver = [c \in Callbacks |-> {}]
    /\ initial = [c \in Callbacks |-> FALSE]
    /\ skipNext = [c \in Callbacks |-> FALSE]
    /\ woken = FALSE /\ posted = FALSE
    /\ worker = Asleep /\ thread = NoOne /\ suppressing = {}
    /\ told = [c \in Callbacks |-> Unused]
    /\ hushed = [c \in Callbacks |-> {}]
    /\ stranded = {} /\ incidents = {}

Next ==
    \/ \E n \in Notifiers : RegisterNotifier(n) \/ Unregister(n)
    \/ \E n \in Notifiers, c \in Callbacks : AddCallback(n, c)
    \/ \E c \in Callbacks : RemoveCallback(c) \/ Suppress(c)
    \/ NotifyWhileWriting \/ ProcessAvailable \/ AdvanceToReady
    \/ Refresh \/ BeginWrite \/ RefreshUnobserved \/ PackageAndWait
    \/ CallNext \/ FinishNotifier
    \/ BeginInCallback \/ CommitWrite \/ CancelWrite \/ CommitElsewhere
    \/ StartRun \/ RunNotifiers \/ PrepareHandover

Spec == Init /\ [][Next]_vars
-----------------------------------------------------------------------------
Version == 1 .. MaxVersion

\* The variables have their types, the Realm never reads past the file, and
\* an index points at a callback or nowhere.
FileOK ==
    /\ latest \in Version /\ skipVersion \in 0 .. latest
    /\ current \in Version /\ seen \in Version /\ seen <= current /\ current <= latest
    /\ writing \in BOOLEAN /\ woken \in BOOLEAN /\ posted \in BOOLEAN
    /\ other \in Others
NotifiersOK ==
    /\ newNotifiers \subseteq Notifiers /\ notifiers \subseteq Notifiers
    /\ newNotifiers \cap notifiers = {}
    /\ sg \in [Notifiers -> 0 .. latest] /\ rows \in [Notifiers -> 0 .. latest]
    /\ change \in [Notifiers -> SUBSET Version]
    /\ hasRun \in [Notifiers -> BOOLEAN] /\ alive \in [Notifiers -> BOOLEAN]
CallbacksOK ==
    /\ callbacks \in [Notifiers -> Seq(Callbacks)]
    /\ count \in [Notifiers -> Int]
    /\ index \in [Notifiers -> Nat]
    /\ haveCallbacks \in [Notifiers -> BOOLEAN]
    /\ \A n \in Notifiers : /\ index[n] <= Len(callbacks[n])
                            /\ haveCallbacks[n] <=> callbacks[n] # <<>>
CallbackOK ==
    /\ accumulated \in [Callbacks -> SUBSET Version]
    /\ toDeliver \in [Callbacks -> SUBSET Version]
    /\ initial \in [Callbacks -> BOOLEAN] /\ skipNext \in [Callbacks -> BOOLEAN]
    /\ told \in [Callbacks -> {Removed, Unused} \cup 0 .. current]
    /\ hushed \in [Callbacks -> SUBSET (1 .. current)]
    /\ stranded \subseteq Callbacks /\ suppressing \subseteq Callbacks
    /\ incidents \subseteq {"nested", "miscounted", "hasty", "overwritten", "unwatched"}
WorkerOK ==
    worker \in [pc : {"idle", "skip", "skipped", "final", "finished"}, version : 0 .. latest,
                skip : 0 .. latest, running : SUBSET Notifiers, fresh : SUBSET Notifiers]
ThreadOK ==
    thread \in [step : {"idle", "waiting", "delivering", "calling", "undefined"},
                op : {"none", "process", "advance", "refresh", "begin"},
                package : SUBSET Notifiers, turn : {"none"} \cup Notifiers, target : 0 .. latest]
TypeOK == FileOK /\ NotifiersOK /\ CallbacksOK /\ CallbackOK /\ WorkerOK /\ ThreadOK

\* What a callback is told after its first call are exactly the changes from
\* what it was told of before to what its Realm now shows, without those that
\* it was not to be notified of: nothing is lost, told twice, or told of a
\* version that the Realm does not read.  (A table view that is updated with
\* any other change set fails.)  Exceptions are the five incidents.
GivesUp(c) == toDeliver[c] # {} /\ toDeliver'[c] # toDeliver[c]
ChangesFit ==
    [][\A c \in Token :
         (GivesUp(c) /\ told[c] > 0 /\ told'[c] > 0 /\ incidents = {})
         => /\ told'[c] = current
            /\ toDeliver[c] = (told[c] + 1 .. current) \ hushed[c]]_vars

\* commitWrite(withoutNotifying:): a callback is not told of the changes made
\* in a write transaction that its token was passed to.
SuppressedIsNotTold ==
    [][\A c \in Token :
         (GivesUp(c) /\ told[c] > 0 /\ told'[c] > 0) => toDeliver[c] \cap hushed[c] = {}]_vars

\* A thread that waits in package_and_wait, perhaps with the write lock of the
\* file, waits for a worker that is going to run.
WaitersAreWoken ==
    thread.step = "waiting" /\ ~ReadyFor(thread.package, thread.target) =>
        woken \/ worker.pc # "idle"

\* While a callback has not had its first call, or changes have been handed
\* over for it, someone is on the way to call it; except for a callback that
\* was added while its notifier was calling others (no one is woken for it),
\* and for what Realm::notify did not deliver in a write transaction, until
\* the worker runs again.
NewsWillCome ==
    "miscounted" \notin incidents => \A c \in Token \ stranded :
        told[c] = 0 \/ accumulated[c] # {} =>
            woken \/ worker.pc # "idle" \/ posted \/ thread.step # "idle"

\* The assertions of the code: run_async_notifiers finds notifiers to skip for
\* and does not go back (realm_coordinator.cpp:962), a skip finds no changes of
\* other commits (collection_notifier.cpp:424), and the callbacks iterated over
\* exist (collection_notifier.cpp:398).
AssertionsHold ==
    /\ worker.pc = "skip" =>
          (worker.running # {} \/ other # "nothing") /\ worker.skip <= worker.version
    /\ \A c \in Token : skipNext[c] /\ incidents = {} => accumulated[c] = {}
    /\ thread.step \in {"delivering", "calling"} /\ "miscounted" \notin incidents =>
          LET n == thread.turn IN index[n] <= count[n] /\ count[n] <= Len(callbacks[n])
=============================================================================
