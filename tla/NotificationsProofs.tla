------------------------ MODULE NotificationsProofs -------------------------
(***************************************************************************)
(* The invariants of Notifications, for every set of collections and of    *)
(* callbacks and every number of commits.  Core says how the lists, the    *)
(* passes, the versions and the target thread agree; News, that someone is *)
(* on the way to each callback with something to be told; Compared and     *)
(* Fits, that what it is told are the changes since it was told before.    *)
(***************************************************************************)
EXTENDS Notifications, SequenceTheorems, WellFoundedInduction, TLAPS

Busy == worker.pc # "idle"
Delivering == thread.step \in {"delivering", "calling"}

\* A token belongs to one notifier and stands in its list once.  A callback
\* that has not been called has no earlier rows to compare with, and one that
\* was never added is not to be skipped.
Tokens ==
    /\ \A c \in Callbacks : /\ told[c] <= 0 => ~initial[c]
                            /\ told[c] < 0 => ~skipNext[c]
    /\ \A n \in Notifiers : \A i \in DOMAIN callbacks[n] : told[callbacks[n][i]] >= 0
    /\ \A n, m \in Notifiers : \A i \in DOMAIN callbacks[n], j \in DOMAIN callbacks[m] :
          callbacks[n][i] = callbacks[m][j] => n = m /\ i = j

\* Which list a notifier is in tells whether it has run, and the worker's pass
\* has all of the older list.
ListOf(n) ==
    /\ n \in newNotifiers => sg[n] # 0 /\ ~hasRun[n]
    /\ n \in notifiers => sg[n] # 0
    /\ hasRun[n] => sg[n] # 0
    /\ callbacks[n] # <<>> => alive[n] /\ sg[n] # 0
    /\ alive[n] /\ sg[n] # 0 => n \in newNotifiers \cup notifiers
    /\ ~Busy /\ alive[n] /\ n \in notifiers => hasRun[n]
    /\ Busy /\ alive[n] /\ n \in notifiers => n \in worker.running \cup worker.fresh
Lists == \A n \in Notifiers : ListOf(n)

\* A pass does not take a notifier back.
PassOf(n) ==
    /\ n \in worker.running => hasRun[n] /\ sg[n] <= PassVersion
    /\ n \in worker.fresh => ~hasRun[n] /\ 1 <= sg[n] /\ sg[n] <= worker.version
    /\ alive[n] /\ n \in worker.running \cup worker.fresh => n \in notifiers
Passes ==
    Busy =>
      /\ 1 <= worker.version
      /\ worker.pc \in {"skip", "skipped"} => 1 <= worker.skip /\ worker.skip <= worker.version
      /\ worker.pc = "skip" => worker.running # {} \/ other # "nothing"
      /\ \A n \in Notifiers : PassOf(n)

\* A version to be skipped is ahead of the pass under way.
Skips ==
    skipVersion # NoSkip =>
      /\ notifiers # {} \/ other # "nothing"
      /\ Busy => worker.version < skipVersion
      /\ \A n \in notifiers : sg[n] <= skipVersion

\* The notifiers that have run have the same version: one m_version will do
\* for a package.
OneVersion ==
    \A m, n \in Notifiers :
        alive[m] /\ alive[n] /\ hasRun[m] /\ hasRun[n] => sg[m] = sg[n]

\* A notifier that is behind the file will be run.
Behind(n) ==
    alive[n] /\ (hasRun[n] \/ haveCallbacks[n]) /\ ~(hasRun[n] /\ sg[n] = latest)
Runs ==
    /\ Busy /\ worker.version # latest => woken
    /\ \A n \in Notifiers :
          Behind(n) => woken \/ (Busy /\ n \in worker.running \cup worker.fresh)

\* Where the target thread is.
Waiting ==
    thread.step = "waiting" =>
      /\ ~writing /\ current <= thread.target
      /\ thread.op \in {"refresh", "begin"}
      /\ thread.op = "begin" => thread.target = latest
      /\ \A n \in Notifiers : alive[n] /\ sg[n] # 0 => n \in thread.package
Calling ==
    /\ thread.step = "idle" => thread = NoOne
    /\ thread.step = "undefined" => "miscounted" \in incidents
    /\ Delivering => /\ thread.turn \in thread.package /\ thread.op # "none"
                     /\ \A n \in thread.package : hasRun[n]
    /\ \A n \in Notifiers : index[n] # npos => Delivering /\ n = thread.turn
    /\ Delivering /\ thread.op = "begin" => writing
Writing ==
    /\ writing => current = latest
    /\ suppressing # {} => writing

\* The callbacks counted when a notifier was packaged are there.
Counted ==
    Delivering /\ "miscounted" \notin incidents =>
        \A n \in thread.package : index[n] <= count[n] /\ count[n] <= Len(callbacks[n])

\* The i-th callback of n was packaged and its turn has not come.
Due(n, i) == Delivering /\ n \in thread.package /\ index[n] < i /\ i <= count[n]

Core ==
    /\ TypeOK /\ Tokens /\ Lists /\ Passes /\ Skips /\ OneVersion /\ Runs
    /\ Waiting /\ Calling /\ Writing /\ Counted

-----------------------------------------------------------------------------
(* The operators of the model.                                             *)

\* remove_callback erases one callback: those after it move one place up.
LEMMA Erase ==
    ASSUME NEW S, NEW s \in Seq(S), NEW i \in 1 .. Len(s)
    PROVE  /\ RemoveAt(s, i) \in Seq(S)
           /\ Len(RemoveAt(s, i)) = Len(s) - 1
           /\ \A k \in 1 .. Len(s) - 1 :
                 RemoveAt(s, i)[k] = IF k < i THEN s[k] ELSE s[k + 1]
<1> DEFINE a == SubSeq(s, 1, i - 1)
           b == SubSeq(s, i + 1, Len(s))
<1>1. a \in Seq(S) /\ Len(a) = i - 1 /\ \A k \in 1 .. i - 1 : a[k] = s[k]
  OBVIOUS
<1>2. /\ b \in Seq(S) /\ Len(b) = Len(s) - i
      /\ \A k \in 1 .. Len(s) - i : b[k] = s[i + k]
  OBVIOUS
<1> HIDE DEF a, b
<1>3. a \o b \in Seq(S) /\ Len(a \o b) = Len(a) + Len(b)
  BY <1>1, <1>2, ConcatProperties
<1>4. ASSUME NEW k \in 1 .. Len(s) - 1
      PROVE  (a \o b)[k] = IF k < i THEN s[k] ELSE s[k + 1]
  <2>1. CASE k < i
    BY <1>1, <1>2, <2>1
  <2>2. CASE ~(k < i)
    <3>1. (a \o b)[k] = b[k - Len(a)]
      BY <1>1, <1>2, <2>2
    <3>2. b[k - (i - 1)] = s[i + (k - (i - 1))]
      BY <1>2, <2>2
    <3> QED
      BY <1>1, <2>2, <3>1, <3>2
  <2> QED
    BY <2>1, <2>2
<1>5. RemoveAt(s, i) = a \o b
  BY DEF RemoveAt, a, b
<1>6. Len(a \o b) = Len(s) - 1
  BY <1>1, <1>2, <1>3, LenProperties
<1> QED
  BY <1>3, <1>4, <1>5, <1>6

\* add_callback appends one.
LEMMA Extend ==
    ASSUME NEW S, NEW s \in Seq(S), NEW e \in S
    PROVE  /\ Append(s, e) \in Seq(S) /\ Append(s, e) # <<>>
           /\ Len(Append(s, e)) = Len(s) + 1
           /\ \A k \in 1 .. Len(s) + 1 : Append(s, e)[k] = IF k <= Len(s) THEN s[k] ELSE e
<1>1. /\ Append(s, e) \in Seq(S) /\ Len(Append(s, e)) = Len(s) + 1
      /\ \A k \in 1 .. Len(s) : Append(s, e)[k] = s[k]
      /\ Append(s, e)[Len(s) + 1] = e
  BY AppendProperties
<1>2. Append(s, e) # <<>>
  BY <1>1, LenProperties, EmptySeq
<1> QED
  BY <1>1, <1>2, LenProperties

\* A notifier's callbacks are the elements of its list.
LEMMA Members ==
    ASSUME CallbacksOK, NEW n \in Notifiers
    PROVE  /\ callbacks[n] \in Seq(Callbacks)
           /\ DOMAIN callbacks[n] = 1 .. Len(callbacks[n]) /\ Len(callbacks[n]) \in Nat
           /\ \A i \in DOMAIN callbacks[n] : callbacks[n][i] \in Callbacks
           /\ Registered(n) \subseteq Callbacks
           /\ (callbacks[n] = <<>>) <=> (Len(callbacks[n]) = 0)
<1>1. callbacks[n] \in Seq(Callbacks)
  BY DEF CallbacksOK
<1>2. /\ DOMAIN callbacks[n] = 1 .. Len(callbacks[n]) /\ Len(callbacks[n]) \in Nat
      /\ \A i \in DOMAIN callbacks[n] : callbacks[n][i] \in Callbacks
  BY <1>1, LenProperties, ElementOfSeq
<1>3. Registered(n) \subseteq Callbacks
  BY <1>2 DEF Registered, ToSet
<1>4. (callbacks[n] = <<>>) <=> (Len(callbacks[n]) = 0)
  BY <1>1, EmptySeq, LenProperties
<1> QED
  BY <1>1, <1>2, <1>3, <1>4

\* A token leads to its notifier and to its place there.
LEMMA Found ==
    ASSUME CallbacksOK, Tokens, NEW n \in Notifiers, NEW c \in Registered(n)
    PROVE  /\ NotifierOf(c) = n
           /\ find_callback(n, c) \in DOMAIN callbacks[n]
           /\ callbacks[n][find_callback(n, c)] = c
<1>1. \A m \in Notifiers : c \in Registered(m) => m = n
  BY Members DEF Tokens, Registered, ToSet
<1>2. NotifierOf(c) = n
  BY <1>1 DEF NotifierOf
<1>3. \E i \in DOMAIN callbacks[n] : callbacks[n][i] = c
  BY DEF Registered, ToSet
<1> QED
  BY <1>2, <1>3 DEF find_callback

\* A package has the version of its notifiers.
LEMMA VersionOfMember ==
    ASSUME NEW s
    PROVE  /\ s = {} => VersionOf(s) = 0
           /\ s # {} => \E n \in s : VersionOf(s) = sg[n]
BY DEF VersionOf

\* Any notifier of a package will do for its version.
LEMMA SharedVersion ==
    ASSUME OneVersion, NEW s \in SUBSET Notifiers, NEW n \in Deliverable(s)
    PROVE  VersionOf(Deliverable(s)) = sg[n]
<1>1. PICK m \in Deliverable(s) : VersionOf(Deliverable(s)) = sg[m]
  BY VersionOfMember
<1>2. /\ m \in Notifiers /\ alive[m] /\ hasRun[m]
      /\ n \in Notifiers /\ alive[n] /\ hasRun[n]
  BY DEF Deliverable
<1> QED
  BY <1>1, <1>2 DEF OneVersion

\* A set of numbers has a least one.
LEMMA Least ==
    ASSUME NEW T \in SUBSET Nat, T # {}
    PROVE  \E m \in T : \A k \in T : m <= k
<1> DEFINE R == OpToRel(<, Nat)
<1>1. R = {ss \in Nat \X Nat : ss[1] < ss[2]}
  BY Zenon DEF OpToRel
<1>2. IsWellFoundedOn(R, Nat)
  BY NatLessThanWellFounded, Zenon
<1> HIDE DEF R
<1>3. PICK m \in T : \A k \in T : <<k, m>> \notin R
  BY <1>2, WFMin
<1>4. SUFFICES ASSUME NEW k \in T, ~(m <= k) PROVE FALSE
  BY <1>3
<1>5. <<k, m>> \in Nat \X Nat /\ <<k, m>>[1] < <<k, m>>[2]
  BY <1>4
<1>6. <<k, m>> \in R
  BY <1>1, <1>5, Zenon
<1> QED
  BY <1>3, <1>6, Zenon

\* for_each_callback stops at the first callback with news.
LEMMA NextDue ==
    ASSUME CallbacksOK, NEW n \in Notifiers
    PROVE  /\ Limit(n) \in Int /\ Limit(n) <= Len(callbacks[n])
           /\ ~Beyond(n) => Limit(n) = count[n]
           /\ NextIndex(n) = npos =>
                 \A i \in index[n] + 1 .. Limit(n) : ~HasNews(callbacks[n][i])
           /\ NextIndex(n) # npos =>
                 /\ NextIndex(n) \in index[n] + 1 .. Limit(n)
                 /\ HasNews(callbacks[n][NextIndex(n)])
                 /\ \A i \in index[n] + 1 .. NextIndex(n) - 1 : ~HasNews(callbacks[n][i])
<1>1. /\ index[n] \in Nat /\ count[n] \in Int /\ Len(callbacks[n]) \in Nat
  BY Members DEF CallbacksOK
<1>2. /\ Limit(n) \in Int /\ Limit(n) <= Len(callbacks[n])
      /\ ~Beyond(n) => Limit(n) = count[n]
  BY <1>1 DEF Limit, Beyond
<1> DEFINE due == {i \in index[n] + 1 .. Limit(n) : HasNews(callbacks[n][i])}
<1>3. due \in SUBSET Nat /\ 0 \notin due
  BY <1>1, <1>2
<1>4. CASE due = {}
  <2>1. NextIndex(n) = npos
    BY <1>4 DEF NextIndex
  <2>2. \A i \in index[n] + 1 .. Limit(n) : ~HasNews(callbacks[n][i])
    BY <1>4
  <2> QED
    BY <1>2, <2>1, <2>2
<1>5. CASE due # {}
  <2> HIDE DEF due
  <2>1. \E i \in due : \A j \in due : i <= j
    BY <1>3, <1>5, Least
  <2>2. /\ NextIndex(n) \in due /\ \A j \in due : NextIndex(n) <= j
    BY <2>1, <1>5 DEF NextIndex, due
  <2> USE DEF due
  <2>3. \A i \in index[n] + 1 .. NextIndex(n) - 1 : i \notin due
    BY <2>2, <1>1, <1>2
  <2>4. \A i \in index[n] + 1 .. NextIndex(n) - 1 : i \in index[n] + 1 .. Limit(n)
    BY <2>2, <1>1, <1>2
  <2> QED
    BY <2>2, <2>3, <2>4, <1>2, <1>3 DEF npos
<1> QED
  BY <1>2, <1>4, <1>5

-----------------------------------------------------------------------------
(* Which actions change what.                                              *)

\* The target thread is moved by deliveries and by waits for them.
LEMMA ThreadFrame ==
    ASSUME Next
    PROVE  \/ UNCHANGED thread
           \/ ProcessAvailable \/ AdvanceToReady \/ Refresh \/ BeginWrite \/ PackageAndWait
           \/ CallNext \/ FinishNotifier
BY DEF Next, RegisterNotifier, Unregister, AddCallback, RemoveCallback, Suppress,
       NotifyWhileWriting, RefreshUnobserved, BeginInCallback, CommitWrite, CancelWrite,
       CommitElsewhere, StartRun, RunNotifiers, PrepareHandover

\* The worker is moved by its own steps.
LEMMA WorkerFrame ==
    ASSUME Next
    PROVE  \/ UNCHANGED worker
           \/ StartRun \/ RunNotifiers \/ PrepareHandover
BY DEF Next, RegisterNotifier, Unregister, AddCallback, RemoveCallback, Suppress,
       NotifyWhileWriting, ProcessAvailable, AdvanceToReady, Refresh, StartWait, BeginWrite,
       RefreshUnobserved, PackageAndWait, CallNext, FinishNotifier, BeginInCallback,
       CommitWrite, CancelWrite, CommitElsewhere

\* Commits make new versions.
LEMMA LatestFrame ==
    ASSUME Next
    PROVE  \/ UNCHANGED latest
           \/ CommitWrite \/ CommitElsewhere
BY DEF Next, RegisterNotifier, Unregister, AddCallback, RemoveCallback, Suppress,
       NotifyWhileWriting, ProcessAvailable, AdvanceToReady, Refresh, StartWait, BeginWrite,
       RefreshUnobserved, PackageAndWait, CallNext, FinishNotifier, BeginInCallback,
       CancelWrite, StartRun, RunNotifiers, PrepareHandover, file

\* The Realm moves to another version.
LEMMA CurrentFrame ==
    ASSUME Next
    PROVE  \/ UNCHANGED current
           \/ AdvanceToReady \/ RefreshUnobserved \/ PackageAndWait \/ BeginInCallback
           \/ CommitWrite
BY DEF Next, RegisterNotifier, Unregister, AddCallback, RemoveCallback, Suppress,
       NotifyWhileWriting, ProcessAvailable, Refresh, StartWait, BeginWrite, CallNext,
       FinishNotifier, CancelWrite, CommitElsewhere, StartRun, RunNotifiers, PrepareHandover,
       realm

\* Commits name the version to be skipped, the worker takes it.
LEMMA SkipFrame ==
    ASSUME Next
    PROVE  \/ UNCHANGED skipVersion
           \/ CommitWrite \/ CommitElsewhere \/ StartRun \/ PrepareHandover
BY DEF Next, RegisterNotifier, Unregister, AddCallback, RemoveCallback, Suppress,
       NotifyWhileWriting, ProcessAvailable, AdvanceToReady, Refresh, StartWait, BeginWrite,
       RefreshUnobserved, PackageAndWait, CallNext, FinishNotifier, BeginInCallback,
       CancelWrite, RunNotifiers, file

\* Writes begin and end.
LEMMA WritingFrame ==
    ASSUME Next
    PROVE  \/ UNCHANGED writing
           \/ RefreshUnobserved \/ PackageAndWait \/ BeginInCallback \/ CommitWrite
           \/ CancelWrite
BY DEF Next, RegisterNotifier, Unregister, AddCallback, RemoveCallback, Suppress,
       NotifyWhileWriting, ProcessAvailable, AdvanceToReady, Refresh, StartWait, BeginWrite,
       CallNext, FinishNotifier, CommitElsewhere, StartRun, RunNotifiers, PrepareHandover,
       realm

\* Callbacks come and go.
LEMMA ListFrame ==
    ASSUME Next
    PROVE  \/ UNCHANGED <<callbacks, haveCallbacks>>
           \/ \E n \in Notifiers, c \in Callbacks : AddCallback(n, c)
           \/ \E c \in Callbacks : RemoveCallback(c)
BY DEF Next, RegisterNotifier, Unregister, Suppress, NotifyWhileWriting, ProcessAvailable,
       AdvanceToReady, Refresh, StartWait, BeginWrite, RefreshUnobserved, PackageAndWait,
       CallNext, FinishNotifier, BeginInCallback, CommitWrite, CancelWrite, CommitElsewhere,
       StartRun, RunNotifiers, PrepareHandover, cbs

\* The iteration goes on, also when callbacks are removed.
LEMMA IndexFrame ==
    ASSUME Next
    PROVE  \/ UNCHANGED index
           \/ \E c \in Callbacks : RemoveCallback(c)
           \/ CallNext \/ FinishNotifier
BY DEF Next, RegisterNotifier, Unregister, AddCallback, Suppress, NotifyWhileWriting,
       ProcessAvailable, AdvanceToReady, Refresh, StartWait, BeginWrite, RefreshUnobserved,
       PackageAndWait, BeginInCallback, CommitWrite, CancelWrite, CommitElsewhere, StartRun,
       RunNotifiers, PrepareHandover, cbs

\* Callbacks are counted when they are packaged.
LEMMA CountFrame ==
    ASSUME Next
    PROVE  \/ UNCHANGED count
           \/ \E c \in Callbacks : RemoveCallback(c)
           \/ ProcessAvailable \/ AdvanceToReady \/ PackageAndWait
BY DEF Next, RegisterNotifier, Unregister, AddCallback, Suppress, NotifyWhileWriting,
       Refresh, StartWait, BeginWrite, RefreshUnobserved, CallNext, FinishNotifier,
       BeginInCallback, CommitWrite, CancelWrite, CommitElsewhere, StartRun, RunNotifiers,
       PrepareHandover, cbs

\* What callbacks know.
LEMMA ToldFrame ==
    ASSUME Next
    PROVE  \/ UNCHANGED <<told, initial>>
           \/ \E n \in Notifiers, c \in Callbacks : AddCallback(n, c)
           \/ \E c \in Callbacks : RemoveCallback(c)
           \/ CallNext
BY DEF Next, RegisterNotifier, Unregister, Suppress, NotifyWhileWriting, ProcessAvailable,
       AdvanceToReady, Refresh, StartWait, BeginWrite, RefreshUnobserved, PackageAndWait,
       FinishNotifier, BeginInCallback, CommitWrite, CancelWrite, CommitElsewhere, StartRun,
       RunNotifiers, PrepareHandover, cbData, ghosts

\* What callbacks are to be spared.
LEMMA SkipNextFrame ==
    ASSUME Next
    PROVE  \/ UNCHANGED skipNext
           \/ \E c \in Callbacks : RemoveCallback(c)
           \/ \E c \in Callbacks : Suppress(c)
           \/ PrepareHandover
BY DEF Next, RegisterNotifier, Unregister, AddCallback, NotifyWhileWriting, ProcessAvailable,
       AdvanceToReady, Refresh, StartWait, BeginWrite, RefreshUnobserved, PackageAndWait,
       CallNext, FinishNotifier, BeginInCallback, CommitWrite, CancelWrite, CommitElsewhere,
       StartRun, RunNotifiers, cbData

\* The versions that callbacks are to be spared.
LEMMA HushedFrame ==
    ASSUME Next
    PROVE  \/ UNCHANGED hushed
           \/ \E c \in Callbacks : RemoveCallback(c)
           \/ CallNext \/ CommitWrite
BY DEF Next, RegisterNotifier, Unregister, AddCallback, Suppress, NotifyWhileWriting,
       ProcessAvailable, AdvanceToReady, Refresh, StartWait, BeginWrite, RefreshUnobserved,
       PackageAndWait, FinishNotifier, BeginInCallback, CancelWrite, CommitElsewhere,
       StartRun, RunNotifiers, PrepareHandover, ghosts

\* The tokens passed to a commit.
LEMMA SuppressingFrame ==
    ASSUME Next
    PROVE  \/ UNCHANGED suppressing
           \/ \E c \in Callbacks : Suppress(c)
           \/ CommitWrite
BY DEF Next, RegisterNotifier, Unregister, AddCallback, RemoveCallback, NotifyWhileWriting,
       ProcessAvailable, AdvanceToReady, Refresh, StartWait, BeginWrite, RefreshUnobserved,
       PackageAndWait, CallNext, FinishNotifier, BeginInCallback, CancelWrite,
       CommitElsewhere, StartRun, RunNotifiers, PrepareHandover

\* Collections are released.
LEMMA AliveFrame ==
    ASSUME Next
    PROVE  \/ UNCHANGED alive
           \/ \E n \in Notifiers : Unregister(n)
BY DEF Next, RegisterNotifier, AddCallback, RemoveCallback, Suppress, NotifyWhileWriting,
       ProcessAvailable, AdvanceToReady, Refresh, StartWait, BeginWrite, RefreshUnobserved,
       PackageAndWait, CallNext, FinishNotifier, BeginInCallback, CommitWrite, CancelWrite,
       CommitElsewhere, StartRun, RunNotifiers, PrepareHandover

\* Notifiers get their versions.
LEMMA VersionFrame ==
    ASSUME Next
    PROVE  \/ UNCHANGED sg
           \/ \E n \in Notifiers : RegisterNotifier(n)
           \/ PrepareHandover
BY DEF Next, Unregister, AddCallback, RemoveCallback, Suppress, NotifyWhileWriting,
       ProcessAvailable, AdvanceToReady, Refresh, StartWait, BeginWrite, RefreshUnobserved,
       PackageAndWait, CallNext, FinishNotifier, BeginInCallback, CommitWrite, CancelWrite,
       CommitElsewhere, StartRun, RunNotifiers, state

\* Notifiers run.
LEMMA RunFrame ==
    ASSUME Next
    PROVE  \/ UNCHANGED hasRun
           \/ PrepareHandover
BY DEF Next, RegisterNotifier, Unregister, AddCallback, RemoveCallback, Suppress,
       NotifyWhileWriting, ProcessAvailable, AdvanceToReady, Refresh, StartWait, BeginWrite,
       RefreshUnobserved, PackageAndWait, CallNext, FinishNotifier, BeginInCallback,
       CommitWrite, CancelWrite, CommitElsewhere, StartRun, RunNotifiers, state

\* Notifiers are listed and cleaned up.
LEMMA NotifierFrame ==
    ASSUME Next
    PROVE  \/ UNCHANGED <<newNotifiers, notifiers>>
           \/ \E n \in Notifiers : RegisterNotifier(n)
           \/ StartRun \/ PrepareHandover
BY DEF Next, Unregister, AddCallback, RemoveCallback, Suppress, NotifyWhileWriting,
       ProcessAvailable, AdvanceToReady, Refresh, StartWait, BeginWrite, RefreshUnobserved,
       PackageAndWait, CallNext, FinishNotifier, BeginInCallback, CommitWrite, CancelWrite,
       CommitElsewhere, RunNotifiers, lists

\* The worker is woken.
LEMMA WokenFrame ==
    ASSUME Next
    PROVE  \/ UNCHANGED woken
           \/ \E n \in Notifiers, c \in Callbacks : AddCallback(n, c)
           \/ Refresh \/ BeginWrite \/ CommitWrite \/ CommitElsewhere \/ StartRun
BY DEF Next, RegisterNotifier, Unregister, RemoveCallback, Suppress, NotifyWhileWriting,
       ProcessAvailable, AdvanceToReady, RefreshUnobserved, PackageAndWait, CallNext,
       FinishNotifier, BeginInCallback, CancelWrite, RunNotifiers, PrepareHandover, signals

\* The target thread is notified.
LEMMA PostedFrame ==
    ASSUME Next
    PROVE  \/ UNCHANGED posted
           \/ NotifyWhileWriting \/ ProcessAvailable \/ AdvanceToReady \/ StartRun
           \/ PrepareHandover
BY DEF Next, RegisterNotifier, Unregister, AddCallback, RemoveCallback, Suppress, Refresh,
       StartWait, BeginWrite, RefreshUnobserved, PackageAndWait, CallNext, FinishNotifier,
       BeginInCallback, CommitWrite, CancelWrite, CommitElsewhere, RunNotifiers, signals

\* Queries are run.
LEMMA RowsFrame ==
    ASSUME Next
    PROVE  \/ UNCHANGED rows
           \/ RunNotifiers
BY DEF Next, RegisterNotifier, Unregister, AddCallback, RemoveCallback, Suppress,
       NotifyWhileWriting, ProcessAvailable, AdvanceToReady, Refresh, StartWait, BeginWrite,
       RefreshUnobserved, PackageAndWait, CallNext, FinishNotifier, BeginInCallback,
       CommitWrite, CancelWrite, CommitElsewhere, StartRun, PrepareHandover, results

\* Changes are computed and handed over.
LEMMA ChangeFrame ==
    ASSUME Next
    PROVE  \/ UNCHANGED change
           \/ RunNotifiers \/ PrepareHandover
BY DEF Next, RegisterNotifier, Unregister, AddCallback, RemoveCallback, Suppress,
       NotifyWhileWriting, ProcessAvailable, AdvanceToReady, Refresh, StartWait, BeginWrite,
       RefreshUnobserved, PackageAndWait, CallNext, FinishNotifier, BeginInCallback,
       CommitWrite, CancelWrite, CommitElsewhere, StartRun, results

\* Changes are handed to callbacks and taken from them.
LEMMA AccumulatedFrame ==
    ASSUME Next
    PROVE  \/ UNCHANGED accumulated
           \/ \E c \in Callbacks : RemoveCallback(c)
           \/ ProcessAvailable \/ AdvanceToReady \/ PackageAndWait \/ PrepareHandover
BY DEF Next, RegisterNotifier, Unregister, AddCallback, Suppress, NotifyWhileWriting,
       Refresh, StartWait, BeginWrite, RefreshUnobserved, CallNext, FinishNotifier,
       BeginInCallback, CommitWrite, CancelWrite, CommitElsewhere, StartRun, RunNotifiers,
       cbData

\* Changes are delivered.
LEMMA ToDeliverFrame ==
    ASSUME Next
    PROVE  \/ UNCHANGED toDeliver
           \/ \E c \in Callbacks : RemoveCallback(c)
           \/ ProcessAvailable \/ AdvanceToReady \/ PackageAndWait \/ CallNext
BY DEF Next, RegisterNotifier, Unregister, AddCallback, Suppress, NotifyWhileWriting,
       Refresh, StartWait, BeginWrite, RefreshUnobserved, FinishNotifier, BeginInCallback,
       CommitWrite, CancelWrite, CommitElsewhere, StartRun, RunNotifiers, PrepareHandover,
       cbData

\* Wake-ups are skipped, swallowed and made good.
LEMMA StrandedFrame ==
    ASSUME Next
    PROVE  \/ UNCHANGED stranded
           \/ \E n \in Notifiers, c \in Callbacks : AddCallback(n, c)
           \/ \E c \in Callbacks : RemoveCallback(c)
           \/ NotifyWhileWriting \/ StartRun
BY DEF Next, RegisterNotifier, Unregister, Suppress, ProcessAvailable, AdvanceToReady,
       Refresh, StartWait, BeginWrite, RefreshUnobserved, PackageAndWait, CallNext,
       FinishNotifier, BeginInCallback, CommitWrite, CancelWrite, CommitElsewhere,
       RunNotifiers, PrepareHandover, ghosts

\* Incidents are noted.
LEMMA IncidentsFrame ==
    ASSUME Next
    PROVE  \/ UNCHANGED incidents
           \/ \E n \in Notifiers, c \in Callbacks : AddCallback(n, c)
           \/ \E c \in Callbacks : RemoveCallback(c)
           \/ BeginInCallback \/ CommitElsewhere \/ PrepareHandover
BY DEF Next, RegisterNotifier, Unregister, Suppress, NotifyWhileWriting, ProcessAvailable,
       AdvanceToReady, Refresh, StartWait, BeginWrite, RefreshUnobserved, PackageAndWait,
       CallNext, FinishNotifier, CommitWrite, CancelWrite, StartRun, RunNotifiers, ghosts

-----------------------------------------------------------------------------
(* Types.                                                                  *)

\* What has run has a version of the file.
LEMMA ReadyVersion ==
    ASSUME Core, NEW s \in SUBSET Notifiers, Deliverable(s) # {}
    PROVE  VersionOf(Deliverable(s)) \in Version /\ VersionOf(Deliverable(s)) <= latest
<1>1. PICK n \in Deliverable(s) : VersionOf(Deliverable(s)) = sg[n]
  BY VersionOfMember
<1>2. n \in Notifiers /\ hasRun[n]
  BY DEF Deliverable
<1>3. sg[n] \in 0 .. latest /\ sg[n] # 0 /\ latest \in Version
  BY <1>2 DEF Core, TypeOK, NotifiersOK, FileOK, Lists, ListOf
<1> QED
  BY <1>1, <1>3, NotificationsAssumption DEF Version

\* The Realm never goes back, and never past the file.
LEMMA Advances ==
    ASSUME Core, AdvanceToReady
    PROVE  current' \in current .. latest /\ seen' = current'
<1> DEFINE ready == Deliverable(NotifiersForRealm)
<1>1. current \in Version /\ latest \in Version /\ current <= latest
  BY DEF Core, TypeOK, FileOK
<1>2. NotifiersForRealm \in SUBSET Notifiers
  BY DEF Core, TypeOK, NotifiersOK, NotifiersForRealm, Alive
<1>3. ready # {} => VersionOf(ready) \in Version /\ VersionOf(ready) <= latest
  BY <1>2, ReadyVersion
<1> HIDE DEF ready
<1>4. IF ready # {} /\ VersionOf(ready) < current
      THEN current' = current
      ELSE current' = IF ready = {} THEN latest ELSE VersionOf(ready)
  BY DEF AdvanceToReady, ready
<1>5. current' \in current .. latest
  BY <1>1, <1>3, <1>4, NotificationsAssumption DEF Version
<1> QED
  BY <1>5 DEF AdvanceToReady

\* Nor does the Realm go back when it has waited for its notifiers.
LEMMA Arrives ==
    ASSUME Core, PackageAndWait
    PROVE  current' \in current .. latest /\ seen' = current'
<1> DEFINE ready == Deliverable(thread.package)
<1>1. /\ current \in Version /\ latest \in Version /\ current <= latest
      /\ thread.target \in 0 .. latest /\ current <= thread.target
  BY DEF Core, TypeOK, FileOK, ThreadOK, PackageAndWait, Waiting
<1>2. thread.package \in SUBSET Notifiers
  BY DEF Core, TypeOK, ThreadOK
<1>3. ready # {} => VersionOf(ready) \in Version /\ VersionOf(ready) <= latest
  BY <1>2, ReadyVersion
<1>4. ready = {} => VersionOf(ready) = 0
  BY VersionOfMember
<1> HIDE DEF ready
<1>5. current' = IF VersionOf(ready) < thread.target \/ thread.op = "begin"
                 THEN latest ELSE VersionOf(ready)
  BY DEF PackageAndWait, ready
<1>6. current' \in current .. latest
  BY <1>1, <1>3, <1>4, <1>5, NotificationsAssumption DEF Version
<1> QED
  BY <1>6 DEF PackageAndWait

\* What a package leaves with its notifiers and their callbacks.
LEMMA Packaged ==
    ASSUME Core, NEW s \in SUBSET Notifiers, Package(s)
    PROVE  /\ accumulated' \in [Callbacks -> SUBSET Version]
           /\ toDeliver' \in [Callbacks -> SUBSET Version]
           /\ count' \in [Notifiers -> Int]
           /\ \A n \in s : /\ count'[n] = Len(callbacks[n])
                           /\ \A i \in DOMAIN callbacks[n] :
                                 /\ toDeliver'[callbacks[n][i]] = accumulated[callbacks[n][i]]
                                 /\ accumulated'[callbacks[n][i]] = {}
           /\ \A n \in Notifiers \ s :
                 /\ count'[n] = count[n]
                 /\ \A i \in DOMAIN callbacks[n] :
                       /\ toDeliver'[callbacks[n][i]] = toDeliver[callbacks[n][i]]
                       /\ accumulated'[callbacks[n][i]] = accumulated[callbacks[n][i]]
           /\ \A c \in Callbacks : accumulated[c] = {} => accumulated'[c] = {}
<1> DEFINE packaged == {c \in Callbacks : \E n \in s : c \in Registered(n)}
<1>1. /\ toDeliver' = [c \in Callbacks |-> IF c \in packaged THEN accumulated[c] ELSE toDeliver[c]]
      /\ accumulated' = [c \in Callbacks |-> IF c \in packaged THEN {} ELSE accumulated[c]]
      /\ count' = [n \in Notifiers |-> IF n \in s THEN Len(callbacks[n]) ELSE count[n]]
  BY DEF Package
<1>2. /\ accumulated \in [Callbacks -> SUBSET Version]
      /\ toDeliver \in [Callbacks -> SUBSET Version]
      /\ count \in [Notifiers -> Int]
  BY DEF Core, TypeOK, CallbackOK, CallbacksOK
<1>3. \A n \in Notifiers : \A i \in DOMAIN callbacks[n] : callbacks[n][i] \in Callbacks
  BY Members DEF Core, TypeOK
<1>4. \A n \in Notifiers : Len(callbacks[n]) \in Nat
  BY Members DEF Core, TypeOK
<1>5. \A n \in s : \A i \in DOMAIN callbacks[n] : callbacks[n][i] \in packaged
  BY <1>3 DEF Registered, ToSet
<1>6. \A n \in Notifiers \ s : \A i \in DOMAIN callbacks[n] : callbacks[n][i] \notin packaged
  <2>1. SUFFICES ASSUME NEW n \in Notifiers \ s, NEW i \in DOMAIN callbacks[n],
                        NEW m \in s, callbacks[n][i] \in Registered(m)
                 PROVE  FALSE
    OBVIOUS
  <2>2. PICK j \in DOMAIN callbacks[m] : callbacks[m][j] = callbacks[n][i]
    BY <2>1 DEF Registered, ToSet
  <2> QED
    BY <2>2 DEF Core, Tokens
<1> HIDE DEF packaged
<1> QED
  BY <1>1, <1>2, <1>3, <1>4, <1>5, <1>6

\* The file and the Realm keep their types.
LEMMA FileStep ==
    ASSUME Core, Next
    PROVE  FileOK'
<1>1. ASSUME NEW n \in Notifiers, RegisterNotifier(n) PROVE FileOK'
  BY <1>1 DEF RegisterNotifier, file, realm, results, cbs, cbData, signals, ghosts, Core,
       TypeOK, FileOK, Version, NoSkip
<1>2. ASSUME NEW n \in Notifiers, Unregister(n) PROVE FileOK'
  BY <1>2 DEF Unregister, file, realm, lists, results, state, cbs, cbData, signals, ghosts,
       Core, TypeOK, FileOK, Version, NoSkip
<1>3. ASSUME NEW n \in Notifiers, NEW c \in Callbacks, AddCallback(n, c) PROVE FileOK'
  BY <1>3 DEF AddCallback, file, realm, lists, results, state, cbData, Core, TypeOK, FileOK,
       Version, NoSkip
<1>4. ASSUME NEW c \in Callbacks, RemoveCallback(c) PROVE FileOK'
  BY <1>4 DEF RemoveCallback, file, realm, lists, results, state, signals, Core, TypeOK,
       FileOK, Version, NoSkip
<1>5. ASSUME NEW c \in Callbacks, Suppress(c) PROVE FileOK'
  BY <1>5 DEF Suppress, file, realm, lists, results, state, cbs, signals, ghosts, Core,
       TypeOK, FileOK, Version, NoSkip
<1>6. CASE NotifyWhileWriting
  BY <1>6 DEF NotifyWhileWriting, file, realm, lists, results, state, cbs, cbData, Core,
       TypeOK, FileOK, Version, NoSkip
<1>7. CASE ProcessAvailable
  BY <1>7 DEF ProcessAvailable, file, realm, lists, state, ghosts, Core, TypeOK, FileOK,
       Version, NoSkip
<1>8. CASE AdvanceToReady
  <2>1. /\ current' \in current .. latest /\ seen' = current' /\ posted' = FALSE
        /\ UNCHANGED <<latest, skipVersion, writing, other, woken>>
    BY <1>8, Advances DEF AdvanceToReady, file
  <2>2. /\ latest' \in Version /\ skipVersion' \in 0 .. latest' /\ current' \in Version
        /\ seen' \in Version /\ seen' <= current' /\ current' <= latest'
    BY <2>1, NotificationsAssumption DEF Core, TypeOK, FileOK, Version, NoSkip
  <2>3. writing \in BOOLEAN /\ woken \in BOOLEAN /\ posted \in BOOLEAN /\ other \in Others
    BY DEF Core, TypeOK, FileOK
  <2> QED
    BY <2>1, <2>2, <2>3 DEF FileOK
<1>9. CASE Refresh
  BY <1>9 DEF Refresh, StartWait, file, realm, lists, results, state, cbs, cbData, ghosts,
       Core, TypeOK, FileOK, Version, NoSkip
<1>10. CASE BeginWrite
  BY <1>10 DEF BeginWrite, StartWait, file, realm, lists, results, state, cbs, cbData,
       ghosts, Core, TypeOK, FileOK, Version, NoSkip
<1>11. CASE RefreshUnobserved
  BY <1>11 DEF RefreshUnobserved, file, lists, results, state, cbs, cbData, signals, ghosts,
       Core, TypeOK, FileOK, Version, NoSkip
<1>12. CASE PackageAndWait
  <2>1. /\ current' \in current .. latest /\ seen' = current' /\ writing' \in BOOLEAN
        /\ UNCHANGED <<latest, skipVersion, other, woken, posted>>
    BY <1>12, Arrives DEF PackageAndWait, file, signals
  <2>2. /\ latest' \in Version /\ skipVersion' \in 0 .. latest' /\ current' \in Version
        /\ seen' \in Version /\ seen' <= current' /\ current' <= latest'
    BY <2>1, NotificationsAssumption DEF Core, TypeOK, FileOK, Version, NoSkip
  <2>3. writing \in BOOLEAN /\ woken \in BOOLEAN /\ posted \in BOOLEAN /\ other \in Others
    BY DEF Core, TypeOK, FileOK
  <2> QED
    BY <2>1, <2>2, <2>3 DEF FileOK
<1>13. CASE CallNext
  BY <1>13 DEF CallNext, file, realm, lists, results, state, signals, Core, TypeOK, FileOK,
       Version, NoSkip
<1>14. CASE FinishNotifier
  BY <1>14 DEF FinishNotifier, file, lists, results, state, cbData, signals, ghosts, Core,
       TypeOK, FileOK, Version, NoSkip
<1>15. CASE BeginInCallback
  BY <1>15 DEF BeginInCallback, file, lists, results, state, cbs, cbData, signals, Core,
       TypeOK, FileOK, Version, NoSkip
<1>16. CASE CommitWrite
  <2>1. /\ latest' = latest + 1 /\ latest < MaxVersion
        /\ current' = latest' /\ seen' = latest' /\ writing' = FALSE /\ woken' = TRUE
        /\ skipVersion' \in {latest', skipVersion} /\ UNCHANGED <<other, posted>>
    BY <1>16 DEF CommitWrite, SkipVersionAfter
  <2>2. /\ latest' \in Version /\ skipVersion' \in 0 .. latest' /\ current' \in Version
        /\ seen' \in Version /\ seen' <= current' /\ current' <= latest'
    BY <2>1, NotificationsAssumption DEF Core, TypeOK, FileOK, Version, NoSkip
  <2>3. writing \in BOOLEAN /\ woken \in BOOLEAN /\ posted \in BOOLEAN /\ other \in Others
    BY DEF Core, TypeOK, FileOK
  <2> QED
    BY <2>1, <2>2, <2>3 DEF FileOK
<1>17. CASE CancelWrite
  BY <1>17 DEF CancelWrite, file, lists, results, state, cbs, cbData, signals, ghosts, Core,
       TypeOK, FileOK, Version, NoSkip
<1>18. CASE CommitElsewhere
  <2>1. /\ latest' = latest + 1 /\ latest < MaxVersion /\ woken' = TRUE
        /\ skipVersion' \in {latest', skipVersion}
        /\ UNCHANGED <<current, seen, writing, other, posted>>
    BY <1>18 DEF CommitElsewhere, realm
  <2>2. /\ latest' \in Version /\ skipVersion' \in 0 .. latest' /\ current' \in Version
        /\ seen' \in Version /\ seen' <= current' /\ current' <= latest'
    BY <2>1, NotificationsAssumption DEF Core, TypeOK, FileOK, Version, NoSkip
  <2>3. writing \in BOOLEAN /\ woken \in BOOLEAN /\ posted \in BOOLEAN /\ other \in Others
    BY DEF Core, TypeOK, FileOK
  <2> QED
    BY <2>1, <2>2, <2>3 DEF FileOK
<1>19. CASE StartRun
  <2>1. /\ woken' = FALSE /\ posted' \in BOOLEAN /\ skipVersion' \in {NoSkip, skipVersion}
        /\ UNCHANGED <<latest, current, seen, writing, other>>
    BY <1>19 DEF StartRun, SkipAfterCleanUp, realm, Core, TypeOK, FileOK
  <2>2. /\ latest' \in Version /\ skipVersion' \in 0 .. latest' /\ current' \in Version
        /\ seen' \in Version /\ seen' <= current' /\ current' <= latest'
    BY <2>1, NotificationsAssumption DEF Core, TypeOK, FileOK, Version, NoSkip
  <2>3. writing \in BOOLEAN /\ woken \in BOOLEAN /\ posted \in BOOLEAN /\ other \in Others
    BY DEF Core, TypeOK, FileOK
  <2> QED
    BY <2>1, <2>2, <2>3 DEF FileOK
<1>20. CASE RunNotifiers
  BY <1>20 DEF RunNotifiers, file, realm, lists, state, cbs, cbData, signals, ghosts, Core,
       TypeOK, FileOK, Version, NoSkip
<1>21. CASE PrepareHandover
  <2>1. /\ posted' \in BOOLEAN /\ skipVersion' \in {NoSkip, skipVersion}
        /\ UNCHANGED <<latest, current, seen, writing, other, woken>>
    BY <1>21 DEF PrepareHandover, SkipAfterCleanUp, realm, Core, TypeOK, FileOK
  <2>2. /\ latest' \in Version /\ skipVersion' \in 0 .. latest' /\ current' \in Version
        /\ seen' \in Version /\ seen' <= current' /\ current' <= latest'
    BY <2>1, NotificationsAssumption DEF Core, TypeOK, FileOK, Version, NoSkip
  <2>3. writing \in BOOLEAN /\ woken \in BOOLEAN /\ posted \in BOOLEAN /\ other \in Others
    BY DEF Core, TypeOK, FileOK
  <2> QED
    BY <2>1, <2>2, <2>3 DEF FileOK
<1> QED
  BY <1>1, <1>2, <1>3, <1>4, <1>5, <1>6, <1>7, <1>8, <1>9, <1>10, <1>11, <1>12, <1>13, <1>14,
       <1>15, <1>16, <1>17, <1>18, <1>19, <1>20, <1>21 DEF Next

\* Versions only grow.
LEMMA Forward ==
    ASSUME Core, Next
    PROVE  latest <= latest' /\ current <= current'
<1>a. /\ latest \in Nat /\ current \in Nat /\ current <= latest
  BY NotificationsAssumption DEF Core, TypeOK, FileOK, Version
<1>1. ASSUME NEW n \in Notifiers, RegisterNotifier(n) PROVE latest <= latest' /\ current <= current'
  BY <1>1, <1>a DEF RegisterNotifier, file, realm, results, cbs, cbData, signals, ghosts
<1>2. ASSUME NEW n \in Notifiers, Unregister(n) PROVE latest <= latest' /\ current <= current'
  BY <1>2, <1>a DEF Unregister, file, realm, lists, results, state, cbs, cbData, signals, ghosts
<1>3. ASSUME NEW n \in Notifiers, NEW c \in Callbacks, AddCallback(n, c) PROVE latest <= latest' /\ current <= current'
  BY <1>3, <1>a DEF AddCallback, file, realm, lists, results, state, cbData
<1>4. ASSUME NEW c \in Callbacks, RemoveCallback(c) PROVE latest <= latest' /\ current <= current'
  BY <1>4, <1>a DEF RemoveCallback, file, realm, lists, results, state, signals
<1>5. ASSUME NEW c \in Callbacks, Suppress(c) PROVE latest <= latest' /\ current <= current'
  BY <1>5, <1>a DEF Suppress, file, realm, lists, results, state, cbs, signals, ghosts
<1>6. CASE NotifyWhileWriting
  BY <1>6, <1>a DEF NotifyWhileWriting, file, realm, lists, results, state, cbs, cbData
<1>7. CASE ProcessAvailable
  BY <1>7, <1>a DEF ProcessAvailable, file, realm, lists, state, ghosts
<1>8. CASE AdvanceToReady
  <2>1. current' \in current .. latest /\ latest' = latest
    BY <1>8, Advances DEF AdvanceToReady, file
  <2> QED
    BY <2>1, <1>a
<1>9. CASE Refresh
  BY <1>9, <1>a DEF Refresh, StartWait, file, realm, lists, results, state, cbs, cbData, ghosts
<1>10. CASE BeginWrite
  BY <1>10, <1>a DEF BeginWrite, StartWait, file, realm, lists, results, state, cbs, cbData,
       ghosts
<1>11. CASE RefreshUnobserved
  BY <1>11, <1>a DEF RefreshUnobserved, file, lists, results, state, cbs, cbData, signals,
       ghosts
<1>12. CASE PackageAndWait
  <2>1. current' \in current .. latest /\ latest' = latest
    BY <1>12, Arrives DEF PackageAndWait, file
  <2> QED
    BY <2>1, <1>a
<1>13. CASE CallNext
  BY <1>13, <1>a DEF CallNext, file, realm, lists, results, state, signals
<1>14. CASE FinishNotifier
  BY <1>14, <1>a DEF FinishNotifier, file, lists, results, state, cbData, signals, ghosts
<1>15. CASE BeginInCallback
  BY <1>15, <1>a DEF BeginInCallback, file, lists, results, state, cbs, cbData, signals
<1>16. CASE CommitWrite
  BY <1>16, <1>a DEF CommitWrite, lists, results, state, cbs, cbData
<1>17. CASE CancelWrite
  BY <1>17, <1>a DEF CancelWrite, file, lists, results, state, cbs, cbData, signals, ghosts
<1>18. CASE CommitElsewhere
  BY <1>18, <1>a DEF CommitElsewhere, realm, lists, results, state, cbs, cbData
<1>19. CASE StartRun
  BY <1>19, <1>a DEF StartRun, realm, results, state, cbs, cbData
<1>20. CASE RunNotifiers
  BY <1>20, <1>a DEF RunNotifiers, file, realm, lists, state, cbs, cbData, signals, ghosts
<1>21. CASE PrepareHandover
  BY <1>21, <1>a DEF PrepareHandover, realm, cbs
<1> QED
  BY <1>1, <1>2, <1>3, <1>4, <1>5, <1>6, <1>7, <1>8, <1>9, <1>10, <1>11, <1>12, <1>13, <1>14,
       <1>15, <1>16, <1>17, <1>18, <1>19, <1>20, <1>21 DEF Next

\* What was in the range of a version stays there.
LEMMA Wider ==
    ASSUME Core, Next
    PROVE  /\ latest \in Version /\ current \in Version /\ latest' \in Version /\ current' \in Version
           /\ latest <= latest' /\ current <= current'
           /\ 0 .. latest \subseteq 0 .. latest' /\ 1 .. current \subseteq 1 .. current'
           /\ {Removed, Unused} \cup 0 .. current \subseteq {Removed, Unused} \cup 0 .. current'
           /\ current \in 0 .. current' /\ current \in 0 .. latest' /\ latest \in 0 .. latest'
           /\ 1 .. latest' \subseteq Version
<1>1. /\ latest \in Version /\ current \in Version /\ latest' \in Version /\ current' \in Version
      /\ current <= latest
  BY FileStep DEF Core, TypeOK, FileOK
<1>2. latest <= latest' /\ current <= current'
  BY Forward
<1> QED
  BY <1>1, <1>2, NotificationsAssumption DEF Version

\* The notifiers keep their types.
LEMMA NotifiersStep ==
    ASSUME Core, Next
    PROVE  NotifiersOK'
<1>w. /\ 0 .. latest \subseteq 0 .. latest' /\ current \in 0 .. latest' /\ 1 .. latest' \subseteq Version
  BY Wider
<1>1. ASSUME NEW n \in Notifiers, RegisterNotifier(n) PROVE NotifiersOK'
  BY <1>1, <1>w DEF RegisterNotifier, file, realm, results, cbs, cbData, signals, ghosts,
       Core, TypeOK, NotifiersOK, Lists, ListOf
<1>2. ASSUME NEW n \in Notifiers, Unregister(n) PROVE NotifiersOK'
  BY <1>2, <1>w DEF Unregister, file, realm, lists, results, state, cbs, cbData, signals,
       ghosts, Core, TypeOK, NotifiersOK
<1>3. ASSUME NEW n \in Notifiers, NEW c \in Callbacks, AddCallback(n, c) PROVE NotifiersOK'
  BY <1>3, <1>w DEF AddCallback, file, realm, lists, results, state, cbData, Core, TypeOK,
       NotifiersOK
<1>4. ASSUME NEW c \in Callbacks, RemoveCallback(c) PROVE NotifiersOK'
  BY <1>4, <1>w DEF RemoveCallback, file, realm, lists, results, state, signals, Core,
       TypeOK, NotifiersOK
<1>5. ASSUME NEW c \in Callbacks, Suppress(c) PROVE NotifiersOK'
  BY <1>5, <1>w DEF Suppress, file, realm, lists, results, state, cbs, signals, ghosts, Core,
       TypeOK, NotifiersOK
<1>6. CASE NotifyWhileWriting
  BY <1>6, <1>w DEF NotifyWhileWriting, file, realm, lists, results, state, cbs, cbData,
       Core, TypeOK, NotifiersOK
<1>7. CASE ProcessAvailable
  BY <1>7, <1>w DEF ProcessAvailable, file, realm, lists, state, ghosts, Core, TypeOK,
       NotifiersOK
<1>8. CASE AdvanceToReady
  BY <1>8, <1>w DEF AdvanceToReady, file, lists, state, ghosts, Core, TypeOK, NotifiersOK
<1>9. CASE Refresh
  BY <1>9, <1>w DEF Refresh, StartWait, file, realm, lists, results, state, cbs, cbData,
       ghosts, Core, TypeOK, NotifiersOK
<1>10. CASE BeginWrite
  BY <1>10, <1>w DEF BeginWrite, StartWait, file, realm, lists, results, state, cbs, cbData,
       ghosts, Core, TypeOK, NotifiersOK
<1>11. CASE RefreshUnobserved
  BY <1>11, <1>w DEF RefreshUnobserved, file, lists, results, state, cbs, cbData, signals,
       ghosts, Core, TypeOK, NotifiersOK
<1>12. CASE PackageAndWait
  BY <1>12, <1>w DEF PackageAndWait, file, lists, state, signals, ghosts, Core, TypeOK,
       NotifiersOK
<1>13. CASE CallNext
  BY <1>13, <1>w DEF CallNext, file, realm, lists, results, state, signals, Core, TypeOK,
       NotifiersOK
<1>14. CASE FinishNotifier
  BY <1>14, <1>w DEF FinishNotifier, file, lists, results, state, cbData, signals, ghosts,
       Core, TypeOK, NotifiersOK
<1>15. CASE BeginInCallback
  BY <1>15, <1>w DEF BeginInCallback, file, lists, results, state, cbs, cbData, signals,
       Core, TypeOK, NotifiersOK
<1>16. CASE CommitWrite
  BY <1>16, <1>w DEF CommitWrite, lists, results, state, cbs, cbData, Core, TypeOK, NotifiersOK
<1>17. CASE CancelWrite
  BY <1>17, <1>w DEF CancelWrite, file, lists, results, state, cbs, cbData, signals, ghosts,
       Core, TypeOK, NotifiersOK
<1>18. CASE CommitElsewhere
  BY <1>18, <1>w DEF CommitElsewhere, realm, lists, results, state, cbs, cbData, Core,
       TypeOK, NotifiersOK
<1>19. CASE StartRun
  BY <1>19, <1>w DEF StartRun, realm, results, state, cbs, cbData, Core, TypeOK, NotifiersOK,
       Alive
<1>20. CASE RunNotifiers
  <2>1. PassVersion \in 0 .. latest /\ PassVersion \in Int
    BY NotificationsAssumption DEF Core, TypeOK, WorkerOK, PassVersion, FileOK, Version
  <2>2. PICK used \in SUBSET {n \in InPass : hasRun[n] /\ ~haveCallbacks[n]} :
          LET run == {n \in InPass : NeedToRun(n, used)} IN
          /\ change' = [n \in Notifiers |->
                 IF n \in run /\ hasRun[n] /\ haveCallbacks[n]
                 THEN rows[n] + 1 .. PassVersion ELSE {}]
          /\ rows' = [n \in Notifiers |-> IF n \in run THEN PassVersion ELSE rows[n]]
    BY <1>20 DEF RunNotifiers
  <2>3. \A n \in Notifiers : rows[n] \in 0 .. latest /\ rows[n] + 1 .. PassVersion \subseteq Version
    BY <2>1, NotificationsAssumption DEF Core, TypeOK, NotifiersOK, FileOK, Version
  <2>4. rows' \in [Notifiers -> 0 .. latest]
    BY <2>1, <2>2, <2>3
  <2>5. change' \in [Notifiers -> SUBSET Version]
    BY <2>2, <2>3
  <2> QED
    BY <1>20, <2>4, <2>5 DEF RunNotifiers, file, lists, state, Core, TypeOK, NotifiersOK
<1>21. CASE PrepareHandover
  <2>1. PassVersion \in 0 .. latest
    BY DEF Core, TypeOK, WorkerOK, PassVersion
  <2>2. sg' \in [Notifiers -> 0 .. latest] /\ hasRun' \in [Notifiers -> BOOLEAN]
    BY <1>21, <2>1 DEF PrepareHandover, Core, TypeOK, NotifiersOK
  <2>3. change' \in [Notifiers -> SUBSET Version]
    BY <1>21 DEF PrepareHandover
  <2>4. /\ newNotifiers' \subseteq newNotifiers /\ notifiers' \subseteq notifiers
        /\ UNCHANGED <<rows, alive, latest>>
    BY <1>21 DEF PrepareHandover, lists, Alive
  <2> QED
    BY <2>2, <2>3, <2>4 DEF Core, TypeOK, NotifiersOK
<1> QED
  BY <1>1, <1>2, <1>3, <1>4, <1>5, <1>6, <1>7, <1>8, <1>9, <1>10, <1>11, <1>12, <1>13, <1>14,
       <1>15, <1>16, <1>17, <1>18, <1>19, <1>20, <1>21 DEF Next

\* What the three deliveries package.
LEMMA Packages ==
    ASSUME Core, ProcessAvailable \/ AdvanceToReady \/ PackageAndWait
    PROVE  (\E s \in SUBSET Notifiers : Package(s)) \/ NothingPackaged
<1>1. Deliverable(NotifiersForRealm) \in SUBSET Notifiers
  BY DEF Core, TypeOK, NotifiersOK, Deliverable, NotifiersForRealm, Alive
<1>2. ReadyAt(current) \in SUBSET Notifiers
  BY <1>1 DEF ReadyAt
<1>3. Deliverable(thread.package) \in SUBSET Notifiers
  BY DEF Core, TypeOK, ThreadOK, Deliverable
<1>4. CASE ProcessAvailable
  BY <1>2, <1>4 DEF ProcessAvailable
<1>5. CASE AdvanceToReady
  BY <1>1, <1>5 DEF AdvanceToReady
<1>6. CASE PackageAndWait
  BY <1>3, <1>6 DEF PackageAndWait
<1> QED
  BY <1>4, <1>5, <1>6

\* The one that is iterated over.
LEMMA Turn ==
    ASSUME Core, CallNext \/ FinishNotifier
    PROVE  thread.turn \in Notifiers /\ thread.turn \in thread.package
BY DEF Core, TypeOK, ThreadOK, Calling, Delivering, CallNext, FinishNotifier, CallbackReturned

\* The lists of callbacks keep their types.
LEMMA CallbacksStep ==
    ASSUME Core, Next
    PROVE  CallbacksOK'
<1>1. ASSUME NEW n \in Notifiers, RegisterNotifier(n) PROVE CallbacksOK'
  BY <1>1 DEF RegisterNotifier, file, realm, results, cbs, cbData, signals, ghosts, Core,
       TypeOK, CallbacksOK
<1>2. ASSUME NEW n \in Notifiers, Unregister(n) PROVE CallbacksOK'
  BY <1>2 DEF Unregister, file, realm, lists, results, state, cbs, cbData, signals, ghosts,
       Core, TypeOK, CallbacksOK
<1>3. ASSUME NEW n \in Notifiers, NEW c \in Callbacks, AddCallback(n, c) PROVE CallbacksOK'
  <2>1. /\ callbacks' = [callbacks EXCEPT ![n] = Append(@, c)]
        /\ UNCHANGED <<index, count>>
        /\ haveCallbacks' = IF index[n] = npos THEN [haveCallbacks EXCEPT ![n] = TRUE]
                            ELSE haveCallbacks
    BY <1>3 DEF AddCallback, WakesWorker
  <2>2. /\ Append(callbacks[n], c) \in Seq(Callbacks) /\ Append(callbacks[n], c) # <<>>
        /\ Len(Append(callbacks[n], c)) = Len(callbacks[n]) + 1
    BY <1>3, Extend, Members DEF Core, TypeOK
  <2>3. index[n] # npos => haveCallbacks[n]
    BY Members DEF Core, TypeOK, CallbacksOK, npos
  <2>4. callbacks' \in [Notifiers -> Seq(Callbacks)] /\ haveCallbacks' \in [Notifiers -> BOOLEAN]
    BY <2>1, <2>2 DEF Core, TypeOK, CallbacksOK
  <2>5. ASSUME NEW m \in Notifiers
        PROVE  index'[m] <= Len(callbacks'[m]) /\ (haveCallbacks'[m] <=> callbacks'[m] # <<>>)
    <3>1. CASE m = n
      BY <3>1, <2>1, <2>2, <2>3, Members DEF Core, TypeOK, CallbacksOK
    <3>2. CASE m # n
      BY <3>2, <2>1 DEF Core, TypeOK, CallbacksOK
    <3> QED
      BY <3>1, <3>2
  <2> QED
    BY <2>1, <2>4, <2>5 DEF Core, TypeOK, CallbacksOK
<1>4. ASSUME NEW c \in Callbacks, RemoveCallback(c) PROVE CallbacksOK'
  <2>1. PICK n \in Notifiers : c \in Registered(n)
    BY <1>4 DEF RemoveCallback, Token
  <2> DEFINE i == find_callback(n, c)
  <2>2. NotifierOf(c) = n /\ i \in 1 .. Len(callbacks[n])
    BY <2>1, Found, Members DEF Core, TypeOK
  <2>3. /\ callbacks' = [callbacks EXCEPT ![n] = RemoveAt(@, i)]
        /\ index' = [index EXCEPT ![n] = IndexAfterRemoval(n, i)]
        /\ count' = [count EXCEPT ![n] = @ - 1]
        /\ haveCallbacks' = [haveCallbacks EXCEPT ![n] = Len(callbacks[n]) > 1]
    BY <1>4, <2>2 DEF RemoveCallback
  <2> HIDE DEF i
  <2>4. /\ RemoveAt(callbacks[n], i) \in Seq(Callbacks)
        /\ Len(RemoveAt(callbacks[n], i)) = Len(callbacks[n]) - 1
    BY <2>2, Erase, Members DEF Core, TypeOK
  <2>5. RemoveAt(callbacks[n], i) # <<>> <=> Len(callbacks[n]) > 1
    BY <2>4, Members, EmptySeq, LenProperties DEF Core, TypeOK
  <2>6. index[n] \in Nat /\ index[n] <= Len(callbacks[n]) /\ count[n] \in Int
    BY DEF Core, TypeOK, CallbacksOK
  <2>7. IndexAfterRemoval(n, i) \in Nat /\ IndexAfterRemoval(n, i) <= Len(callbacks[n]) - 1
    BY <2>2, <2>6, Members DEF IndexAfterRemoval, npos, Core, TypeOK
  <2>8. /\ callbacks' \in [Notifiers -> Seq(Callbacks)] /\ haveCallbacks' \in [Notifiers -> BOOLEAN]
        /\ index' \in [Notifiers -> Nat] /\ count' \in [Notifiers -> Int]
    BY <2>3, <2>4, <2>6, <2>7 DEF Core, TypeOK, CallbacksOK
  <2>9. ASSUME NEW m \in Notifiers
        PROVE  index'[m] <= Len(callbacks'[m]) /\ (haveCallbacks'[m] <=> callbacks'[m] # <<>>)
    <3>1. CASE m = n
      BY <3>1, <2>3, <2>4, <2>5, <2>7 DEF Core, TypeOK, CallbacksOK
    <3>2. CASE m # n
      BY <3>2, <2>3 DEF Core, TypeOK, CallbacksOK
    <3> QED
      BY <3>1, <3>2
  <2> QED
    BY <2>8, <2>9 DEF CallbacksOK
<1>5. ASSUME NEW c \in Callbacks, Suppress(c) PROVE CallbacksOK'
  BY <1>5 DEF Suppress, file, realm, lists, results, state, cbs, signals, ghosts, Core,
       TypeOK, CallbacksOK
<1>6. CASE NotifyWhileWriting
  BY <1>6 DEF NotifyWhileWriting, file, realm, lists, results, state, cbs, cbData, Core,
       TypeOK, CallbacksOK
<1>7. CASE ProcessAvailable
  <2>1. count' \in [Notifiers -> Int]
    BY <1>7, Packages, Packaged DEF NothingPackaged, Core, TypeOK, CallbacksOK
  <2>2. UNCHANGED <<callbacks, index, haveCallbacks>>
    BY <1>7 DEF ProcessAvailable
  <2> QED
    BY <2>1, <2>2 DEF Core, TypeOK, CallbacksOK
<1>8. CASE AdvanceToReady
  <2>1. count' \in [Notifiers -> Int]
    BY <1>8, Packages, Packaged DEF NothingPackaged, Core, TypeOK, CallbacksOK
  <2>2. UNCHANGED <<callbacks, index, haveCallbacks>>
    BY <1>8 DEF AdvanceToReady
  <2> QED
    BY <2>1, <2>2 DEF Core, TypeOK, CallbacksOK
<1>9. CASE Refresh
  BY <1>9 DEF Refresh, StartWait, file, realm, lists, results, state, cbs, cbData, ghosts,
       Core, TypeOK, CallbacksOK
<1>10. CASE BeginWrite
  BY <1>10 DEF BeginWrite, StartWait, file, realm, lists, results, state, cbs, cbData,
       ghosts, Core, TypeOK, CallbacksOK
<1>11. CASE RefreshUnobserved
  BY <1>11 DEF RefreshUnobserved, file, lists, results, state, cbs, cbData, signals, ghosts,
       Core, TypeOK, CallbacksOK
<1>12. CASE PackageAndWait
  <2>1. count' \in [Notifiers -> Int]
    BY <1>12, Packages, Packaged DEF NothingPackaged, Core, TypeOK, CallbacksOK
  <2>2. UNCHANGED <<callbacks, index, haveCallbacks>>
    BY <1>12 DEF PackageAndWait
  <2> QED
    BY <2>1, <2>2 DEF Core, TypeOK, CallbacksOK
<1>13. CASE CallNext
  <2> DEFINE n == thread.turn
             i == NextIndex(n)
  <2>1. n \in Notifiers
    BY <1>13, Turn
  <2>2. i # npos /\ index' = [index EXCEPT ![n] = i] /\ UNCHANGED <<callbacks, count, haveCallbacks>>
    BY <1>13 DEF CallNext
  <2>3. i \in Nat /\ i <= Len(callbacks[n])
    BY <2>1, <2>2, NextDue, Members DEF Core, TypeOK, CallbacksOK
  <2> HIDE DEF n, i
  <2> QED
    BY <2>1, <2>2, <2>3 DEF Core, TypeOK, CallbacksOK
<1>14. CASE FinishNotifier
  <2>1. index' = [index EXCEPT ![thread.turn] = npos] /\ UNCHANGED <<callbacks, count, haveCallbacks>>
    BY <1>14 DEF FinishNotifier
  <2>2. \A m \in Notifiers : Len(callbacks[m]) \in Nat
    BY Members DEF Core, TypeOK
  <2>3. index' \in [Notifiers -> Nat] /\ \A m \in Notifiers : index'[m] = npos \/ index'[m] = index[m]
    BY <2>1 DEF Core, TypeOK, CallbacksOK, npos
  <2>4. \A m \in Notifiers : index[m] <= Len(callbacks[m])
    BY DEF Core, TypeOK, CallbacksOK
  <2>5. \A m \in Notifiers : index'[m] <= Len(callbacks[m])
    BY <2>2, <2>3, <2>4 DEF npos
  <2> QED
    BY <2>1, <2>3, <2>5 DEF Core, TypeOK, CallbacksOK
<1>15. CASE BeginInCallback
  BY <1>15 DEF BeginInCallback, file, lists, results, state, cbs, cbData, signals, Core,
       TypeOK, CallbacksOK
<1>16. CASE CommitWrite
  BY <1>16 DEF CommitWrite, lists, results, state, cbs, cbData, Core, TypeOK, CallbacksOK
<1>17. CASE CancelWrite
  BY <1>17 DEF CancelWrite, file, lists, results, state, cbs, cbData, signals, ghosts, Core,
       TypeOK, CallbacksOK
<1>18. CASE CommitElsewhere
  BY <1>18 DEF CommitElsewhere, realm, lists, results, state, cbs, cbData, Core, TypeOK,
       CallbacksOK
<1>19. CASE StartRun
  BY <1>19 DEF StartRun, realm, results, state, cbs, cbData, Core, TypeOK, CallbacksOK
<1>20. CASE RunNotifiers
  BY <1>20 DEF RunNotifiers, file, realm, lists, state, cbs, cbData, signals, ghosts, Core,
       TypeOK, CallbacksOK
<1>21. CASE PrepareHandover
  BY <1>21 DEF PrepareHandover, realm, cbs, Core, TypeOK, CallbacksOK
<1> QED
  BY <1>1, <1>2, <1>3, <1>4, <1>5, <1>6, <1>7, <1>8, <1>9, <1>10, <1>11, <1>12, <1>13, <1>14,
       <1>15, <1>16, <1>17, <1>18, <1>19, <1>20, <1>21 DEF Next

\* What is kept of each callback keeps its type.
LEMMA CallbackStep ==
    ASSUME Core, Next
    PROVE  CallbackOK'
<1>w. /\ 1 .. current \subseteq 1 .. current' /\ current \in 0 .. current'
      /\ {Removed, Unused} \cup 0 .. current \subseteq {Removed, Unused} \cup 0 .. current'
  BY Wider
<1>t. Token \subseteq Callbacks
  BY Members DEF Core, TypeOK, Token
<1>1. ASSUME NEW n \in Notifiers, RegisterNotifier(n) PROVE CallbackOK'
  BY <1>1, <1>w DEF RegisterNotifier, file, realm, results, cbs, cbData, signals, ghosts,
       Core, TypeOK, CallbackOK
<1>2. ASSUME NEW n \in Notifiers, Unregister(n) PROVE CallbackOK'
  BY <1>2, <1>w DEF Unregister, file, realm, lists, results, state, cbs, cbData, signals,
       ghosts, Core, TypeOK, CallbackOK
<1>3. ASSUME NEW n \in Notifiers, NEW c \in Callbacks, AddCallback(n, c) PROVE CallbackOK'
  <2>1. 0 \in {Removed, Unused} \cup 0 .. current'
    BY Wider DEF Version
  <2> QED
    BY <1>3, <2>1, <1>w DEF AddCallback, file, realm, lists, results, state, cbData, Core,
         TypeOK, CallbackOK, Happened
<1>4. ASSUME NEW c \in Callbacks, RemoveCallback(c) PROVE CallbackOK'
  <2>1. /\ accumulated' = [accumulated EXCEPT ![c] = {}]
        /\ toDeliver' = [toDeliver EXCEPT ![c] = {}]
        /\ initial' = [initial EXCEPT ![c] = FALSE]
        /\ skipNext' = [skipNext EXCEPT ![c] = FALSE]
        /\ hushed' = [hushed EXCEPT ![c] = {}]
        /\ stranded' = stranded \ {c} /\ told' = [told EXCEPT ![c] = Removed]
        /\ suppressing' = suppressing
        /\ incidents' \in {incidents, incidents \cup {"miscounted"}}
    BY <1>4 DEF RemoveCallback, Happened
  <2> QED
    BY <2>1, <1>w DEF Core, TypeOK, CallbackOK
<1>5. ASSUME NEW c \in Callbacks, Suppress(c) PROVE CallbackOK'
  BY <1>5, <1>w DEF Suppress, file, realm, lists, results, state, cbs, signals, ghosts, Core,
       TypeOK, CallbackOK
<1>6. CASE NotifyWhileWriting
  BY <1>6, <1>w, <1>t DEF NotifyWhileWriting, file, realm, lists, results, state, cbs,
       cbData, Core, TypeOK, CallbackOK
<1>7. CASE ProcessAvailable
  <2>1. /\ accumulated' \in [Callbacks -> SUBSET Version]
        /\ toDeliver' \in [Callbacks -> SUBSET Version]
    BY <1>7, Packages, Packaged DEF NothingPackaged, Core, TypeOK, CallbackOK
  <2>2. UNCHANGED <<initial, skipNext, told, hushed, stranded, suppressing, incidents>>
    BY <1>7 DEF ProcessAvailable, ghosts
  <2> QED
    BY <2>1, <2>2, <1>w DEF Core, TypeOK, CallbackOK
<1>8. CASE AdvanceToReady
  <2>1. /\ accumulated' \in [Callbacks -> SUBSET Version]
        /\ toDeliver' \in [Callbacks -> SUBSET Version]
    BY <1>8, Packages, Packaged DEF NothingPackaged, Core, TypeOK, CallbackOK
  <2>2. UNCHANGED <<initial, skipNext, told, hushed, stranded, suppressing, incidents>>
    BY <1>8 DEF AdvanceToReady, ghosts
  <2> QED
    BY <2>1, <2>2, <1>w DEF Core, TypeOK, CallbackOK
<1>9. CASE Refresh
  BY <1>9, <1>w DEF Refresh, StartWait, file, realm, lists, results, state, cbs, cbData,
       ghosts, Core, TypeOK, CallbackOK
<1>10. CASE BeginWrite
  BY <1>10, <1>w DEF BeginWrite, StartWait, file, realm, lists, results, state, cbs, cbData,
       ghosts, Core, TypeOK, CallbackOK
<1>11. CASE RefreshUnobserved
  BY <1>11, <1>w DEF RefreshUnobserved, file, lists, results, state, cbs, cbData, signals,
       ghosts, Core, TypeOK, CallbackOK
<1>12. CASE PackageAndWait
  <2>1. /\ accumulated' \in [Callbacks -> SUBSET Version]
        /\ toDeliver' \in [Callbacks -> SUBSET Version]
    BY <1>12, Packages, Packaged DEF NothingPackaged, Core, TypeOK, CallbackOK
  <2>2. UNCHANGED <<initial, skipNext, told, hushed, stranded, suppressing, incidents>>
    BY <1>12 DEF PackageAndWait, ghosts
  <2> QED
    BY <2>1, <2>2, <1>w DEF Core, TypeOK, CallbackOK
<1>13. CASE CallNext
  <2>1. PICK c :
           /\ toDeliver' = [toDeliver EXCEPT ![c] = {}]
           /\ initial' = [initial EXCEPT ![c] = TRUE]
           /\ told' = [told EXCEPT ![c] = current]
           /\ hushed' = [hushed EXCEPT ![c] = IF skipNext[c] THEN @ ELSE {}]
           /\ UNCHANGED <<accumulated, skipNext, stranded, suppressing, incidents>>
    BY <1>13 DEF CallNext
  <2> QED
    BY <2>1, <1>w DEF Core, TypeOK, CallbackOK
<1>14. CASE FinishNotifier
  BY <1>14, <1>w DEF FinishNotifier, file, lists, results, state, cbData, signals, ghosts,
       Core, TypeOK, CallbackOK
<1>15. CASE BeginInCallback
  BY <1>15, <1>w DEF BeginInCallback, file, lists, results, state, cbs, cbData, signals,
       Core, TypeOK, CallbackOK, Happened
<1>16. CASE CommitWrite
  <2>1. hushed' = [c \in Callbacks |-> IF c \in suppressing THEN hushed[c] \cup {current'} ELSE hushed[c]]
    BY <1>16 DEF CommitWrite
  <2>2. current' \in 1 .. current'
    BY Wider, NotificationsAssumption DEF Version
  <2>3. hushed' \in [Callbacks -> SUBSET (1 .. current')]
    BY <2>1, <2>2, <1>w DEF Core, TypeOK, CallbackOK
  <2> QED
    BY <1>16, <2>3, <1>w DEF CommitWrite, cbData, Core, TypeOK, CallbackOK
<1>17. CASE CancelWrite
  BY <1>17, <1>w DEF CancelWrite, file, lists, results, state, cbs, cbData, signals, ghosts,
       Core, TypeOK, CallbackOK
<1>18. CASE CommitElsewhere
  BY <1>18, <1>w DEF CommitElsewhere, realm, lists, results, state, cbs, cbData, Core,
       TypeOK, CallbackOK, Happened
<1>19. CASE StartRun
  BY <1>19, <1>w DEF StartRun, realm, results, state, cbs, cbData, Core, TypeOK, CallbackOK
<1>20. CASE RunNotifiers
  BY <1>20, <1>w DEF RunNotifiers, file, realm, lists, state, cbs, cbData, signals, ghosts,
       Core, TypeOK, CallbackOK
<1>21. CASE PrepareHandover
  <2> DEFINE informed == {c \in Token : NotifierOf(c) \in InPass}
  <2>1. /\ skipNext' = [c \in Callbacks |-> skipNext[c] /\ c \notin informed]
        /\ accumulated' = [c \in Callbacks |->
              IF c \in informed /\ ~skipNext[c]
              THEN accumulated[c] \cup change[NotifierOf(c)] ELSE accumulated[c]]
        /\ incidents' \in {incidents, incidents \cup {"hasty"}}
        /\ UNCHANGED <<toDeliver, initial, told, hushed, stranded, suppressing>>
    BY <1>21 DEF PrepareHandover, Happened
  <2>2. \A c \in informed : NotifierOf(c) \in Notifiers
    BY Found DEF Token, Core, TypeOK
  <2> HIDE DEF informed
  <2>3. accumulated' \in [Callbacks -> SUBSET Version]
    BY <2>1, <2>2 DEF Core, TypeOK, CallbackOK, NotifiersOK
  <2>4. skipNext' \in [Callbacks -> BOOLEAN]
    BY <2>1 DEF Core, TypeOK, CallbackOK
  <2> QED
    BY <2>1, <2>3, <2>4, <1>w DEF Core, TypeOK, CallbackOK
<1> QED
  BY <1>1, <1>2, <1>3, <1>4, <1>5, <1>6, <1>7, <1>8, <1>9, <1>10, <1>11, <1>12, <1>13, <1>14,
       <1>15, <1>16, <1>17, <1>18, <1>19, <1>20, <1>21 DEF Next

\* The worker keeps its type.
LEMMA WorkerStep ==
    ASSUME Core, Next
    PROVE  WorkerOK'
<1>w. 0 .. latest \subseteq 0 .. latest' /\ latest \in 0 .. latest'
  BY Wider
<1>1. ASSUME NEW n \in Notifiers, RegisterNotifier(n) PROVE WorkerOK'
  BY <1>1, <1>w DEF RegisterNotifier, file, realm, results, cbs, cbData, signals, ghosts,
       Core, TypeOK, WorkerOK
<1>2. ASSUME NEW n \in Notifiers, Unregister(n) PROVE WorkerOK'
  BY <1>2, <1>w DEF Unregister, file, realm, lists, results, state, cbs, cbData, signals,
       ghosts, Core, TypeOK, WorkerOK
<1>3. ASSUME NEW n \in Notifiers, NEW c \in Callbacks, AddCallback(n, c) PROVE WorkerOK'
  BY <1>3, <1>w DEF AddCallback, file, realm, lists, results, state, cbData, Core, TypeOK,
       WorkerOK
<1>4. ASSUME NEW c \in Callbacks, RemoveCallback(c) PROVE WorkerOK'
  BY <1>4, <1>w DEF RemoveCallback, file, realm, lists, results, state, signals, Core,
       TypeOK, WorkerOK
<1>5. ASSUME NEW c \in Callbacks, Suppress(c) PROVE WorkerOK'
  BY <1>5, <1>w DEF Suppress, file, realm, lists, results, state, cbs, signals, ghosts, Core,
       TypeOK, WorkerOK
<1>6. CASE NotifyWhileWriting
  BY <1>6, <1>w DEF NotifyWhileWriting, file, realm, lists, results, state, cbs, cbData,
       Core, TypeOK, WorkerOK
<1>7. CASE ProcessAvailable
  BY <1>7, <1>w DEF ProcessAvailable, file, realm, lists, state, ghosts, Core, TypeOK, WorkerOK
<1>8. CASE AdvanceToReady
  BY <1>8, <1>w DEF AdvanceToReady, file, lists, state, ghosts, Core, TypeOK, WorkerOK
<1>9. CASE Refresh
  BY <1>9, <1>w DEF Refresh, StartWait, file, realm, lists, results, state, cbs, cbData,
       ghosts, Core, TypeOK, WorkerOK
<1>10. CASE BeginWrite
  BY <1>10, <1>w DEF BeginWrite, StartWait, file, realm, lists, results, state, cbs, cbData,
       ghosts, Core, TypeOK, WorkerOK
<1>11. CASE RefreshUnobserved
  BY <1>11, <1>w DEF RefreshUnobserved, file, lists, results, state, cbs, cbData, signals,
       ghosts, Core, TypeOK, WorkerOK
<1>12. CASE PackageAndWait
  BY <1>12, <1>w DEF PackageAndWait, file, lists, state, signals, ghosts, Core, TypeOK, WorkerOK
<1>13. CASE CallNext
  BY <1>13, <1>w DEF CallNext, file, realm, lists, results, state, signals, Core, TypeOK,
       WorkerOK
<1>14. CASE FinishNotifier
  BY <1>14, <1>w DEF FinishNotifier, file, lists, results, state, cbData, signals, ghosts,
       Core, TypeOK, WorkerOK
<1>15. CASE BeginInCallback
  BY <1>15, <1>w DEF BeginInCallback, file, lists, results, state, cbs, cbData, signals,
       Core, TypeOK, WorkerOK
<1>16. CASE CommitWrite
  BY <1>16, <1>w DEF CommitWrite, lists, results, state, cbs, cbData, Core, TypeOK, WorkerOK
<1>17. CASE CancelWrite
  BY <1>17, <1>w DEF CancelWrite, file, lists, results, state, cbs, cbData, signals, ghosts,
       Core, TypeOK, WorkerOK
<1>18. CASE CommitElsewhere
  BY <1>18, <1>w DEF CommitElsewhere, realm, lists, results, state, cbs, cbData, Core,
       TypeOK, WorkerOK
<1>19. CASE StartRun
  <2>1. \/ UNCHANGED <<worker, latest>>
        \/ /\ worker' = [pc |-> IF SkipAfterCleanUp = NoSkip THEN "final" ELSE "skip",
                         version |-> latest, skip |-> SkipAfterCleanUp,
                         running |-> Alive(notifiers), fresh |-> Alive(newNotifiers)]
           /\ latest' = latest
    BY <1>19 DEF StartRun
  <2>2. /\ SkipAfterCleanUp \in 0 .. latest
        /\ Alive(notifiers) \in SUBSET Notifiers /\ Alive(newNotifiers) \in SUBSET Notifiers
    BY NotificationsAssumption DEF SkipAfterCleanUp, NoSkip, Alive, Core, TypeOK, FileOK,
         NotifiersOK, Version
  <2> QED
    BY <2>1, <2>2, <1>w DEF Core, TypeOK, WorkerOK
<1>20. CASE RunNotifiers
  BY <1>20, <1>w DEF RunNotifiers, file, realm, lists, state, cbs, cbData, signals, ghosts,
       Core, TypeOK, WorkerOK
<1>21. CASE PrepareHandover
  <2>1. worker' \in {[worker EXCEPT !.pc = "final"], Asleep} /\ latest' = latest
    BY <1>21 DEF PrepareHandover
  <2>2. 0 \in 0 .. latest
    BY Wider DEF Version
  <2> QED
    BY <2>1, <2>2 DEF Asleep, NoSkip, Core, TypeOK, WorkerOK
<1> QED
  BY <1>1, <1>2, <1>3, <1>4, <1>5, <1>6, <1>7, <1>8, <1>9, <1>10, <1>11, <1>12, <1>13, <1>14,
       <1>15, <1>16, <1>17, <1>18, <1>19, <1>20, <1>21 DEF Next

\* A delivery leaves the target thread well formed.
LEMMA DeliverStep ==
    ASSUME NEW op \in {"process", "advance", "refresh", "begin"}, NEW s \in SUBSET Notifiers,
           Deliver(op, s), latest' \in Nat
    PROVE  ThreadOK' /\ thread'.step = "delivering" /\ thread'.op = op /\ thread'.package = s
           /\ thread'.turn \in s
BY DEF Deliver, ThreadOK

\* The target thread keeps its type.
LEMMA ThreadStep ==
    ASSUME Core, Next
    PROVE  ThreadOK'
<1>w. 0 .. latest \subseteq 0 .. latest' /\ latest \in 0 .. latest' /\ 0 \in 0 .. latest' /\ latest' \in Nat
  BY Wider, NotificationsAssumption DEF Version
<1>i. thread' = NoOne => ThreadOK'
  BY <1>w DEF ThreadOK, NoOne
<1>s. thread' = thread => ThreadOK'
  BY <1>w DEF Core, TypeOK, ThreadOK
<1>r. /\ NotifiersForRealm \in SUBSET Notifiers
      /\ Deliverable(NotifiersForRealm) \in SUBSET Notifiers
      /\ ReadyAt(current) \in SUBSET Notifiers
      /\ Deliverable(thread.package) \in SUBSET Notifiers
  BY DEF Core, TypeOK, NotifiersOK, ThreadOK, Deliverable, NotifiersForRealm, Alive, ReadyAt
<1>1. CASE ProcessAvailable
  <2>1. thread' = thread \/ Deliver("process", ReadyAt(current))
    BY <1>1 DEF ProcessAvailable
  <2> QED
    BY <2>1, <1>s, <1>r, <1>w, DeliverStep
<1>2. CASE AdvanceToReady
  <2>1. thread' = thread \/ Deliver("advance", Deliverable(NotifiersForRealm))
    BY <1>2 DEF AdvanceToReady
  <2> QED
    BY <2>1, <1>s, <1>r, <1>w, DeliverStep
<1>3. CASE Refresh \/ BeginWrite
  <2>1. \E op \in {"refresh", "begin"} :
           thread' = [NoOne EXCEPT !.step = "waiting", !.op = op, !.package = NotifiersForRealm,
                                   !.target = latest]
    BY <1>3 DEF Refresh, BeginWrite, StartWait
  <2> QED
    BY <2>1, <1>r, <1>w DEF NoOne, ThreadOK
<1>4. CASE PackageAndWait
  <2>1. thread' = NoOne \/ Deliver(thread.op, Deliverable(thread.package))
    BY <1>4 DEF PackageAndWait
  <2>2. thread.op \in {"process", "advance", "refresh", "begin"}
    BY <1>4 DEF PackageAndWait, Core, Waiting
  <2> QED
    BY <2>1, <2>2, <1>i, <1>r, <1>w, DeliverStep
<1>5. CASE CallNext
  BY <1>5, <1>w DEF CallNext, Core, TypeOK, ThreadOK
<1>6. CASE FinishNotifier
  <2>1. \/ thread' = [thread EXCEPT !.step = "undefined"]
        \/ thread' = NoOne
        \/ Deliver(thread.op, thread.package \ {thread.turn})
    BY <1>6 DEF FinishNotifier
  <2>2. ThreadOK /\ thread.op # "none"
    BY <1>6 DEF Core, TypeOK, Calling, FinishNotifier, CallbackReturned, Delivering
  <2>3. thread.package \ {thread.turn} \in SUBSET Notifiers
    BY <2>2 DEF ThreadOK
  <2>4. thread.op \in {"process", "advance", "refresh", "begin"}
    BY <2>2 DEF ThreadOK
  <2>5. thread' = [thread EXCEPT !.step = "undefined"] => ThreadOK'
    BY <2>2, <1>w DEF ThreadOK
  <2> QED
    BY <2>1, <2>3, <2>4, <2>5, <1>i, <1>w, DeliverStep
<1> QED
  BY <1>1, <1>2, <1>3, <1>4, <1>5, <1>6, <1>s, ThreadFrame

\* Every step keeps the types.
LEMMA TypeStep ==
    ASSUME Core, Next
    PROVE  TypeOK'
BY FileStep, NotifiersStep, CallbacksStep, CallbackStep, WorkerStep, ThreadStep DEF TypeOK

-----------------------------------------------------------------------------
(* Callbacks that come and go.                                             *)

\* The new callback stands last; nobody else has it.
LEMMA Added ==
    ASSUME Core, NEW n \in Notifiers, NEW c \in Callbacks, AddCallback(n, c)
    PROVE  /\ \A m \in Notifiers \ {n} : callbacks'[m] = callbacks[m]
           /\ callbacks'[n] # <<>>
           /\ DOMAIN callbacks'[n] = 1 .. Len(callbacks[n]) + 1
           /\ Len(callbacks'[n]) = Len(callbacks[n]) + 1
           /\ \A i \in DOMAIN callbacks[n] : callbacks'[n][i] = callbacks[n][i]
           /\ callbacks'[n][Len(callbacks[n]) + 1] = c
           /\ \A m \in Notifiers : \A i \in DOMAIN callbacks[m] : callbacks[m][i] # c
<1>1. callbacks' = [callbacks EXCEPT ![n] = Append(@, c)] /\ told[c] = Unused
  BY DEF AddCallback
<1>2. /\ callbacks[n] \in Seq(Callbacks) /\ Len(callbacks[n]) \in Nat
      /\ DOMAIN callbacks[n] = 1 .. Len(callbacks[n])
      /\ callbacks \in [Notifiers -> Seq(Callbacks)]
  BY Members DEF Core, TypeOK, CallbacksOK
<1>3. /\ callbacks'[n] = Append(callbacks[n], c)
      /\ \A m \in Notifiers \ {n} : callbacks'[m] = callbacks[m]
  BY <1>1, <1>2
<1>4. /\ callbacks'[n] # <<>> /\ callbacks'[n] \in Seq(Callbacks)
      /\ Len(callbacks'[n]) = Len(callbacks[n]) + 1
      /\ \A k \in 1 .. Len(callbacks[n]) + 1 :
            callbacks'[n][k] = IF k <= Len(callbacks[n]) THEN callbacks[n][k] ELSE c
  BY <1>2, <1>3, Extend
<1>5. DOMAIN callbacks'[n] = 1 .. Len(callbacks[n]) + 1
  BY <1>4, LenProperties
<1>6. \A i \in DOMAIN callbacks[n] : callbacks'[n][i] = callbacks[n][i]
  BY <1>2, <1>4
<1>7. callbacks'[n][Len(callbacks[n]) + 1] = c
  BY <1>2, <1>4
<1>8. \A m \in Notifiers : \A i \in DOMAIN callbacks[m] : callbacks[m][i] # c
  BY <1>1 DEF Core, Tokens, Unused
<1> QED
  BY <1>3, <1>4, <1>5, <1>6, <1>7, <1>8

\* The callback that goes, k-th of n, and what it leaves.
Leaves(c, n, k) ==
    /\ k \in DOMAIN callbacks[n] /\ callbacks[n][k] = c
    /\ DOMAIN callbacks'[n] = 1 .. Len(callbacks[n]) - 1
    /\ Len(callbacks'[n]) = Len(callbacks[n]) - 1
    /\ \A i \in DOMAIN callbacks'[n] :
          callbacks'[n][i] = IF i < k THEN callbacks[n][i] ELSE callbacks[n][i + 1]
    /\ index'[n] = IF index[n] >= k THEN index[n] - 1 ELSE index[n]
    /\ count'[n] = count[n] - 1
    /\ haveCallbacks'[n] = (Len(callbacks[n]) > 1)
    /\ \A m \in Notifiers \ {n} : /\ callbacks'[m] = callbacks[m] /\ index'[m] = index[m]
                                  /\ count'[m] = count[m] /\ haveCallbacks'[m] = haveCallbacks[m]
    /\ \/ "miscounted" \in incidents'
       \/ incidents' = incidents /\ (n \in thread.package /\ thread.step # "waiting" => k <= count[n])

\* A token that is dropped leads to the callback that goes.
LEMMA Left ==
    ASSUME Core, NEW c \in Callbacks, RemoveCallback(c)
    PROVE  \E n \in Notifiers : \E k \in DOMAIN callbacks[n] : Leaves(c, n, k)
<1>1. PICK n \in Notifiers : c \in Registered(n)
  BY DEF RemoveCallback, Token
<1> DEFINE k == find_callback(n, c)
<1>2. NotifierOf(c) = n /\ k \in DOMAIN callbacks[n] /\ callbacks[n][k] = c
  BY <1>1, Found DEF Core, TypeOK
<1>3. /\ callbacks[n] \in Seq(Callbacks) /\ Len(callbacks[n]) \in Nat
      /\ DOMAIN callbacks[n] = 1 .. Len(callbacks[n])
  BY Members DEF Core, TypeOK
<1>4. /\ callbacks \in [Notifiers -> Seq(Callbacks)] /\ haveCallbacks \in [Notifiers -> BOOLEAN]
      /\ index \in [Notifiers -> Nat] /\ count \in [Notifiers -> Int]
  BY DEF Core, TypeOK, CallbacksOK
<1>5. /\ callbacks' = [callbacks EXCEPT ![n] = RemoveAt(@, k)]
      /\ index' = [index EXCEPT ![n] = IndexAfterRemoval(n, k)]
      /\ count' = [count EXCEPT ![n] = @ - 1]
      /\ haveCallbacks' = [haveCallbacks EXCEPT ![n] = Len(callbacks[n]) > 1]
      /\ IF n \in thread.package /\ thread.step # "waiting" /\ k > count[n]
         THEN incidents' = incidents \cup {"miscounted"}
         ELSE incidents' = incidents
  BY <1>2 DEF RemoveCallback, Happened
<1> HIDE DEF k
<1>6. /\ callbacks'[n] = RemoveAt(callbacks[n], k)
      /\ index'[n] = IndexAfterRemoval(n, k) /\ count'[n] = count[n] - 1
      /\ haveCallbacks'[n] = (Len(callbacks[n]) > 1)
      /\ \A m \in Notifiers \ {n} : /\ callbacks'[m] = callbacks[m] /\ index'[m] = index[m]
                                    /\ count'[m] = count[m] /\ haveCallbacks'[m] = haveCallbacks[m]
  BY <1>4, <1>5
<1>7. /\ callbacks'[n] \in Seq(Callbacks) /\ Len(callbacks'[n]) = Len(callbacks[n]) - 1
      /\ \A i \in 1 .. Len(callbacks[n]) - 1 :
            callbacks'[n][i] = IF i < k THEN callbacks[n][i] ELSE callbacks[n][i + 1]
  <2>1. k \in 1 .. Len(callbacks[n])
    BY <1>2, <1>3
  <2>2. /\ RemoveAt(callbacks[n], k) \in Seq(Callbacks)
        /\ Len(RemoveAt(callbacks[n], k)) = Len(callbacks[n]) - 1
        /\ \A i \in 1 .. Len(callbacks[n]) - 1 :
              RemoveAt(callbacks[n], k)[i] = IF i < k THEN callbacks[n][i] ELSE callbacks[n][i + 1]
    BY <1>3, <2>1, Erase
  <2>3. callbacks'[n] = RemoveAt(callbacks[n], k)
    BY <1>6
  <2> QED
    BY <2>2, <2>3
<1>8. DOMAIN callbacks'[n] = 1 .. Len(callbacks[n]) - 1
  BY <1>7, LenProperties
<1>9. index'[n] = IF index[n] >= k THEN index[n] - 1 ELSE index[n]
  BY <1>2, <1>3, <1>4, <1>6 DEF IndexAfterRemoval, npos
<1>10. \/ "miscounted" \in incidents'
       \/ incidents' = incidents /\ (n \in thread.package /\ thread.step # "waiting" => k <= count[n])
  BY <1>2, <1>3, <1>4, <1>5
<1>11. Leaves(c, n, k)
  BY <1>2, <1>6, <1>7, <1>8, <1>9, <1>10 DEF Leaves
<1> QED
  BY <1>2, <1>11

\* Whoever is still there was there before, and is due if it was.
LEMMA Survives ==
    ASSUME Core, NEW c \in Callbacks, RemoveCallback(c),
           NEW m \in Notifiers, NEW i \in DOMAIN callbacks'[m]
    PROVE  \E j \in DOMAIN callbacks[m] :
              /\ callbacks'[m][i] = callbacks[m][j] /\ callbacks[m][j] # c
              /\ "miscounted" \notin incidents' => (Due(m, i)' <=> Due(m, j))
<1>1. PICK n \in Notifiers : \E k \in DOMAIN callbacks[n] : Leaves(c, n, k)
  BY Left
<1>2. PICK k \in DOMAIN callbacks[n] : Leaves(c, n, k)
  BY <1>1
<1>3. /\ \A p \in Notifiers : DOMAIN callbacks[p] = 1 .. Len(callbacks[p]) /\ Len(callbacks[p]) \in Nat
      /\ \A p, q \in Notifiers : \A a \in DOMAIN callbacks[p], b \in DOMAIN callbacks[q] :
            callbacks[p][a] = callbacks[q][b] => p = q /\ a = b
      /\ \A p \in Notifiers : index[p] \in Nat /\ count[p] \in Int
  BY Members DEF Core, TypeOK, CallbacksOK, Tokens
<1>4. thread' = thread
  BY DEF RemoveCallback
<1>5. CASE m # n
  <2>1. /\ callbacks'[m] = callbacks[m] /\ index'[m] = index[m] /\ count'[m] = count[m]
    BY <1>2, <1>5 DEF Leaves
  <2>2. i \in DOMAIN callbacks[m] /\ callbacks[m][i] # c
    BY <1>2, <1>3, <1>5, <2>1 DEF Leaves
  <2>3. Due(m, i)' <=> Due(m, i)
    BY <2>1, <1>4 DEF Due, Delivering
  <2> QED
    BY <2>1, <2>2, <2>3
<1>6. CASE m = n
  <2> DEFINE j == IF i < k THEN i ELSE i + 1
  <2>1. /\ i \in 1 .. Len(callbacks[n]) - 1 /\ k \in 1 .. Len(callbacks[n]) /\ Len(callbacks[n]) \in Nat
        /\ callbacks'[n][i] = callbacks[n][j]
    BY <1>2, <1>3, <1>6 DEF Leaves
  <2>2. j \in 1 .. Len(callbacks[n]) /\ j # k
    BY <2>1
  <2>3. callbacks[n][j] # c
    BY <2>2, <1>2, <1>3 DEF Leaves
  <2>4. ASSUME "miscounted" \notin incidents' PROVE Due(n, i)' <=> Due(n, j)
    <3>1. /\ index'[n] = IF index[n] >= k THEN index[n] - 1 ELSE index[n]
          /\ count'[n] = count[n] - 1 /\ index[n] \in Nat /\ count[n] \in Int
      BY <1>2, <1>3 DEF Leaves
    <3>2. CASE Delivering /\ n \in thread.package
      <4>1. k <= count[n]
        BY <3>2, <2>4, <1>2 DEF Leaves, Delivering
      <4>2. (index'[n] < i /\ i <= count'[n]) <=> (index[n] < j /\ j <= count[n])
        BY <3>1, <4>1, <2>1
      <4> QED
        BY <3>2, <4>2, <1>4 DEF Due, Delivering
    <3>3. CASE ~(Delivering /\ n \in thread.package)
      BY <3>3, <1>4 DEF Due, Delivering
    <3> QED
      BY <3>2, <3>3
  <2> QED
    BY <2>1, <2>2, <2>3, <2>4, <1>3, <1>6
<1> QED
  BY <1>5, <1>6

-----------------------------------------------------------------------------
(* The core of the inductive invariant, part by part.                      *)

\* Tokens belong to one notifier.
LEMMA TokensStep ==
    ASSUME Core, Next
    PROVE  Tokens'
<1>t. Tokens /\ CallbackOK /\ \A n \in Notifiers : \A i \in DOMAIN callbacks[n] : callbacks[n][i] \in Callbacks
  BY Members DEF Core, TypeOK
<1>1. ASSUME NEW n \in Notifiers, NEW c \in Callbacks, AddCallback(n, c)
      PROVE  Tokens'
  <2>1. UNCHANGED <<initial, skipNext>> /\ told' = [told EXCEPT ![c] = 0] /\ told[c] = Unused
    BY <1>1 DEF AddCallback, cbData
  <2>2. \A d \in Callbacks : (told'[d] <= 0 => ~initial'[d]) /\ (told'[d] < 0 => ~skipNext'[d])
    BY <1>t, <2>1 DEF Tokens, CallbackOK, Unused
  <2>3. ASSUME NEW m \in Notifiers, NEW i \in DOMAIN callbacks'[m]
        PROVE  /\ callbacks'[m][i] = c => m = n /\ i = Len(callbacks[n]) + 1
               /\ callbacks'[m][i] # c => i \in DOMAIN callbacks[m] /\ callbacks'[m][i] = callbacks[m][i]
               /\ callbacks'[m][i] \in Callbacks
    <3>1. CASE m # n
      BY <3>1, <1>1, <1>t, Added
    <3>2. CASE m = n
      <4>1. DOMAIN callbacks[n] = 1 .. Len(callbacks[n]) /\ Len(callbacks[n]) \in Nat
        BY Members DEF Core, TypeOK
      <4>2. i \in 1 .. Len(callbacks[n]) + 1
        BY <3>2, <1>1, Added
      <4>3. CASE i \in DOMAIN callbacks[n]
        BY <3>2, <4>3, <1>1, <1>t, Added
      <4>4. CASE i = Len(callbacks[n]) + 1
        BY <3>2, <4>4, <1>1, Added
      <4> QED
        BY <4>1, <4>2, <4>3, <4>4
    <3> QED
      BY <3>1, <3>2
  <2>4. ASSUME NEW m \in Notifiers, NEW i \in DOMAIN callbacks'[m]
        PROVE  told'[callbacks'[m][i]] >= 0
    <3>1. CASE callbacks'[m][i] = c
      BY <3>1, <2>1, <1>t DEF CallbackOK
    <3>2. CASE callbacks'[m][i] # c
      BY <3>2, <2>1, <2>3, <1>t DEF Tokens, CallbackOK
    <3> QED
      BY <3>1, <3>2
  <2>5. ASSUME NEW m \in Notifiers, NEW p \in Notifiers,
               NEW i \in DOMAIN callbacks'[m], NEW j \in DOMAIN callbacks'[p],
               callbacks'[m][i] = callbacks'[p][j]
        PROVE  m = p /\ i = j
    <3>1. CASE callbacks'[m][i] = c
      BY <3>1, <2>3, <2>5
    <3>2. CASE callbacks'[m][i] # c
      BY <3>2, <2>3, <2>5, <1>t DEF Tokens
    <3> QED
      BY <3>1, <3>2
  <2> QED
    BY <2>2, <2>4, <2>5 DEF Tokens
<1>2. ASSUME NEW c \in Callbacks, RemoveCallback(c)
      PROVE  Tokens'
  <2>1. /\ initial' = [initial EXCEPT ![c] = FALSE] /\ skipNext' = [skipNext EXCEPT ![c] = FALSE]
        /\ told' = [told EXCEPT ![c] = Removed]
    BY <1>2 DEF RemoveCallback
  <2>2. \A d \in Callbacks : (told'[d] <= 0 => ~initial'[d]) /\ (told'[d] < 0 => ~skipNext'[d])
    BY <1>t, <2>1 DEF Tokens, CallbackOK, Unused
  <2>3. ASSUME NEW m \in Notifiers, NEW i \in DOMAIN callbacks'[m]
        PROVE  told'[callbacks'[m][i]] >= 0
    <3>1. PICK j \in DOMAIN callbacks[m] : callbacks'[m][i] = callbacks[m][j] /\ callbacks[m][j] # c
      BY <1>2, Survives
    <3> QED
      BY <3>1, <2>1, <1>t DEF Tokens, CallbackOK
  <2>4. PICK n \in Notifiers : \E k \in DOMAIN callbacks[n] : Leaves(c, n, k)
    BY <1>2, Left
  <2>5. PICK k \in DOMAIN callbacks[n] : Leaves(c, n, k)
    BY <2>4
  <2>6. ASSUME NEW m \in Notifiers, NEW i \in DOMAIN callbacks'[m]
        PROVE  /\ (IF m = n /\ ~(i < k) THEN i + 1 ELSE i) \in DOMAIN callbacks[m]
               /\ callbacks'[m][i] = callbacks[m][IF m = n /\ ~(i < k) THEN i + 1 ELSE i]
    <3>1. DOMAIN callbacks[n] = 1 .. Len(callbacks[n]) /\ Len(callbacks[n]) \in Nat
      BY Members DEF Core, TypeOK
    <3>2. CASE m = n
      BY <3>1, <3>2, <2>5 DEF Leaves
    <3>3. CASE m # n
      BY <3>3, <2>5 DEF Leaves
    <3> QED
      BY <3>2, <3>3
  <2>7. ASSUME NEW m \in Notifiers, NEW p \in Notifiers,
               NEW i \in DOMAIN callbacks'[m], NEW j \in DOMAIN callbacks'[p],
               callbacks'[m][i] = callbacks'[p][j]
        PROVE  m = p /\ i = j
    <3> DEFINE a == IF m = n /\ ~(i < k) THEN i + 1 ELSE i
               b == IF p = n /\ ~(j < k) THEN j + 1 ELSE j
    <3>1. a \in DOMAIN callbacks[m] /\ b \in DOMAIN callbacks[p] /\ callbacks[m][a] = callbacks[p][b]
      BY <2>6, <2>7
    <3>2. m = p /\ a = b
      BY <3>1, <1>t DEF Tokens
    <3>3. CASE m = n
      <4>1. i \in Int /\ j \in Int /\ k \in Int
        BY <3>2, <3>3, <2>5, Members DEF Leaves, Core, TypeOK
      <4> QED
        BY <3>2, <3>3, <4>1
    <3> QED
      BY <3>2, <3>3
  <2> QED
    BY <2>2, <2>3, <2>7 DEF Tokens
<1>3. ASSUME NEW c \in Callbacks, Suppress(c)
      PROVE  Tokens'
  <2>1. skipNext' = [skipNext EXCEPT ![c] = TRUE] /\ UNCHANGED <<told, initial, callbacks>>
    BY <1>3 DEF Suppress, ghosts, cbs
  <2>2. told[c] >= 0 /\ told[c] \in Int
    BY <1>3, <1>t DEF Suppress, Token, Registered, ToSet, Tokens, CallbackOK, Removed, Unused
  <2> QED
    BY <2>1, <2>2, <1>t DEF Tokens, CallbackOK
<1>4. CASE CallNext
  <2>1. PICK d :
           /\ d = callbacks[thread.turn][NextIndex(thread.turn)] /\ NextIndex(thread.turn) # npos
           /\ initial' = [initial EXCEPT ![d] = TRUE] /\ told' = [told EXCEPT ![d] = current]
           /\ UNCHANGED <<skipNext, callbacks>>
    BY <1>4 DEF CallNext
  <2>2. current \in Nat /\ current > 0
    BY NotificationsAssumption DEF Core, TypeOK, FileOK, Version
  <2>3. \A c \in Callbacks : (told'[c] <= 0 => ~initial'[c]) /\ (told'[c] < 0 => ~skipNext'[c])
    BY <1>t, <2>1, <2>2 DEF Tokens, CallbackOK
  <2>4. \A c \in Callbacks : told[c] >= 0 => told'[c] >= 0
    BY <1>t, <2>1, <2>2 DEF CallbackOK
  <2> QED
    BY <1>t, <2>1, <2>3, <2>4 DEF Tokens
<1>5. CASE PrepareHandover
  <2>1. \A c \in Callbacks : skipNext'[c] => skipNext[c]
    BY <1>5 DEF PrepareHandover
  <2>2. UNCHANGED <<told, initial, callbacks>>
    BY <1>5 DEF PrepareHandover, cbs
  <2> QED
    BY <2>1, <2>2, <1>t DEF Tokens
<1>6. CASE UNCHANGED <<told, initial, skipNext, callbacks>>
  BY <1>t, <1>6 DEF Tokens
<1> QED
  BY <1>1, <1>2, <1>3, <1>4, <1>5, <1>6, ListFrame, ToldFrame, SkipNextFrame

\* What a pass has and where it goes to.
LEMMA PassFacts ==
    ASSUME Core
    PROVE  /\ InPass \subseteq worker.running \cup worker.fresh
           /\ InPass \subseteq Notifiers
           /\ worker.running \cup worker.fresh \subseteq Notifiers
           /\ worker.pc \in {"final", "finished"} =>
                 InPass = worker.running \cup worker.fresh /\ PassVersion = worker.version
           /\ worker.pc \in {"skip", "skipped"} => InPass = worker.running /\ PassVersion = worker.skip
           /\ Busy => /\ PassVersion \in 1 .. latest /\ PassVersion <= worker.version
                      /\ \A n \in InPass : sg[n] <= PassVersion
<1>1. /\ InPass \subseteq worker.running \cup worker.fresh
      /\ worker.running \cup worker.fresh \subseteq Notifiers
      /\ worker.pc \in {"final", "finished"} =>
            InPass = worker.running \cup worker.fresh /\ PassVersion = worker.version
      /\ worker.pc \in {"skip", "skipped"} => InPass = worker.running /\ PassVersion = worker.skip
  BY DEF InPass, PassVersion, Core, TypeOK, WorkerOK
<1>2. ASSUME Busy
      PROVE  /\ PassVersion \in 1 .. latest /\ PassVersion <= worker.version
             /\ \A n \in InPass : sg[n] <= PassVersion
  <2>1. /\ worker.version \in 0 .. latest /\ worker.skip \in 0 .. latest /\ latest \in Nat
        /\ worker.pc \in {"skip", "skipped", "final", "finished"}
    BY <1>2, NotificationsAssumption DEF Busy, Core, TypeOK, WorkerOK, FileOK, Version
  <2>2. /\ 1 <= worker.version
        /\ worker.pc \in {"skip", "skipped"} => 1 <= worker.skip /\ worker.skip <= worker.version
        /\ \A n \in Notifiers : PassOf(n)
    BY <1>2 DEF Core, Passes
  <2>3. PassVersion \in 1 .. latest /\ PassVersion <= worker.version
    BY <2>1, <2>2 DEF PassVersion
  <2>4. \A n \in InPass : sg[n] <= PassVersion
    BY <2>1, <2>2, <1>1 DEF PassOf
  <2> QED
    BY <2>3, <2>4
<1> QED
  BY <1>1, <1>2

\* What the worker starts with.
LEMMA Starts ==
    ASSUME Core, StartRun
    PROVE  /\ ~Busy /\ newNotifiers' = {} /\ notifiers' = Alive(notifiers \cup newNotifiers)
           /\ \/ /\ Alive(notifiers \cup newNotifiers) = {} /\ UNCHANGED worker /\ posted' = TRUE
                 /\ skipVersion' \in {NoSkip, skipVersion}
                 /\ other = "nothing"
              \/ /\ worker'.running = Alive(notifiers) /\ worker'.fresh = Alive(newNotifiers)
                 /\ worker'.version = latest /\ worker'.skip = SkipAfterCleanUp
                 /\ worker'.pc = (IF SkipAfterCleanUp = NoSkip THEN "final" ELSE "skip")
                 /\ skipVersion' = NoSkip /\ UNCHANGED posted
           /\ SkipAfterCleanUp \in {NoSkip, skipVersion}
           /\ SkipAfterCleanUp # NoSkip => Alive(notifiers) # {} \/ other # "nothing"
<1>1. SkipAfterCleanUp \in {NoSkip, skipVersion}
  BY DEF SkipAfterCleanUp
<1>2. SkipAfterCleanUp # NoSkip => Alive(notifiers) # {} \/ other # "nothing"
  BY DEF SkipAfterCleanUp, NoNotifiersLeft, Core, Skips
<1> QED
  BY <1>1, <1>2 DEF StartRun, Busy, NoNotifiersLeft

\* What a handover leaves.
LEMMA HandsOver ==
    ASSUME Core, PrepareHandover
    PROVE  /\ Busy /\ worker.pc \in {"skipped", "finished"}
           /\ \A n \in InPass : sg'[n] = PassVersion /\ hasRun'[n]
           /\ \A n \in Notifiers \ InPass : sg'[n] = sg[n] /\ hasRun'[n] = hasRun[n]
           /\ \/ /\ worker.pc = "skipped" /\ worker' = [worker EXCEPT !.pc = "final"]
                 /\ UNCHANGED <<newNotifiers, notifiers, skipVersion, posted>>
              \/ /\ worker.pc = "finished" /\ worker' = Asleep /\ posted' = TRUE
                 /\ newNotifiers' = Alive(newNotifiers) /\ notifiers' = Alive(notifiers)
                 /\ skipVersion' = SkipAfterCleanUp
<1>1. InPass \subseteq Notifiers
  BY PassFacts
<1> QED
  BY <1>1 DEF PrepareHandover, Busy, lists, Core, TypeOK, NotifiersOK

\* The lists of notifiers keep in step with the worker's passes.
LEMMA ListsStep ==
    ASSUME Core, Next
    PROVE  Lists'
<1>l. /\ \A n \in Notifiers : ListOf(n)
      /\ Busy => \A n \in Notifiers : PassOf(n)
      /\ sg \in [Notifiers -> 0 .. latest] /\ alive \in [Notifiers -> BOOLEAN]
      /\ hasRun \in [Notifiers -> BOOLEAN]
      /\ newNotifiers \subseteq Notifiers /\ notifiers \subseteq Notifiers
  BY DEF Core, Lists, Passes, TypeOK, NotifiersOK
<1>1. ASSUME NEW n \in Notifiers, RegisterNotifier(n)
      PROVE  Lists'
  <2>1. /\ sg[n] = 0 /\ sg' = [sg EXCEPT ![n] = current] /\ current # 0
        /\ newNotifiers' = newNotifiers \cup {n}
        /\ UNCHANGED <<notifiers, hasRun, alive, callbacks, worker>>
    BY <1>1, NotificationsAssumption DEF RegisterNotifier, cbs, Core, TypeOK, FileOK, Version
  <2>2. n \notin newNotifiers /\ n \notin notifiers /\ ~hasRun[n] /\ callbacks[n] = <<>>
    BY <1>l, <2>1 DEF ListOf
  <2>3. sg'[n] # 0 /\ \A m \in Notifiers \ {n} : sg'[m] = sg[m]
    BY <1>l, <2>1
  <2>4. ASSUME NEW m \in Notifiers PROVE ListOf(m)'
    <3>1. CASE m = n
      BY <3>1, <2>1, <2>2, <2>3 DEF ListOf, Busy
    <3>2. CASE m # n
      BY <3>2, <1>l, <2>1, <2>3 DEF ListOf, Busy
    <3> QED
      BY <3>1, <3>2
  <2> QED
    BY <2>4 DEF Lists
<1>2. ASSUME NEW n \in Notifiers, Unregister(n)
      PROVE  Lists'
  <2>1. /\ callbacks[n] = <<>> /\ alive' = [alive EXCEPT ![n] = FALSE]
        /\ UNCHANGED <<newNotifiers, notifiers, sg, hasRun, callbacks, worker>>
    BY <1>2 DEF Unregister, lists, state, cbs
  <2>2. ~alive'[n] /\ \A m \in Notifiers \ {n} : alive'[m] = alive[m]
    BY <1>l, <2>1
  <2>3. ASSUME NEW m \in Notifiers PROVE ListOf(m)'
    BY <1>l, <2>1, <2>2 DEF ListOf, Busy
  <2> QED
    BY <2>3 DEF Lists
<1>3. ASSUME NEW n \in Notifiers, NEW c \in Callbacks, AddCallback(n, c)
      PROVE  Lists'
  <2>1. /\ sg[n] # 0 /\ alive[n]
        /\ UNCHANGED <<newNotifiers, notifiers, sg, hasRun, alive, worker>>
    BY <1>3 DEF AddCallback, lists, state
  <2>2. \A m \in Notifiers \ {n} : callbacks'[m] = callbacks[m]
    BY <1>3, Added
  <2>3. ASSUME NEW m \in Notifiers PROVE ListOf(m)'
    BY <1>l, <2>1, <2>2 DEF ListOf, Busy
  <2> QED
    BY <2>3 DEF Lists
<1>4. ASSUME NEW c \in Callbacks, RemoveCallback(c)
      PROVE  Lists'
  <2>1. PICK n \in Notifiers : \E k \in DOMAIN callbacks[n] : Leaves(c, n, k)
    BY <1>4, Left
  <2>2. callbacks[n] # <<>> /\ \A m \in Notifiers \ {n} : callbacks'[m] = callbacks[m]
    BY <2>1, Members DEF Leaves, Core, TypeOK
  <2>3. UNCHANGED <<newNotifiers, notifiers, sg, hasRun, alive, worker>>
    BY <1>4 DEF RemoveCallback, lists, state
  <2>4. ASSUME NEW m \in Notifiers PROVE ListOf(m)'
    BY <1>l, <2>2, <2>3 DEF ListOf, Busy
  <2> QED
    BY <2>4 DEF Lists
<1>5. CASE StartRun
  <2>1. /\ ~Busy /\ newNotifiers' = {} /\ notifiers' = Alive(notifiers \cup newNotifiers)
        /\ \/ Alive(notifiers \cup newNotifiers) = {} /\ UNCHANGED worker
           \/ worker'.running = Alive(notifiers) /\ worker'.fresh = Alive(newNotifiers) /\ Busy'
    BY <1>5, Starts DEF Busy, Core
  <2>2. UNCHANGED <<sg, hasRun, alive, callbacks>>
    BY <1>5 DEF StartRun, state, cbs
  <2>3. ASSUME NEW m \in Notifiers PROVE ListOf(m)'
    BY <1>l, <2>1, <2>2 DEF ListOf, Busy, Alive
  <2> QED
    BY <2>3 DEF Lists
<1>6. CASE RunNotifiers
  <2>1. /\ Busy /\ Busy' /\ worker'.running = worker.running /\ worker'.fresh = worker.fresh
        /\ UNCHANGED <<newNotifiers, notifiers, sg, hasRun, alive, callbacks>>
    BY <1>6 DEF RunNotifiers, Busy, lists, state, cbs, Core, TypeOK, WorkerOK
  <2>2. ASSUME NEW m \in Notifiers PROVE ListOf(m)'
    BY <1>l, <2>1 DEF ListOf
  <2> QED
    BY <2>2 DEF Lists
<1>7. CASE PrepareHandover
  <2>1. /\ Busy /\ UNCHANGED <<alive, callbacks>>
        /\ \A n \in InPass : sg'[n] = PassVersion /\ hasRun'[n]
        /\ \A n \in Notifiers \ InPass : sg'[n] = sg[n] /\ hasRun'[n] = hasRun[n]
    BY <1>7, HandsOver DEF PrepareHandover, cbs
  <2>2. PassVersion # 0
    BY <2>1, PassFacts
  <2>3. CASE /\ worker.pc = "skipped" /\ worker' = [worker EXCEPT !.pc = "final"]
             /\ UNCHANGED <<newNotifiers, notifiers, skipVersion, posted>>
    <3>1. /\ InPass = worker.running
          /\ Busy' /\ worker'.running = worker.running /\ worker'.fresh = worker.fresh
      BY <2>3, PassFacts DEF Busy, Core, TypeOK, WorkerOK
    <3>2. ASSUME NEW m \in Notifiers PROVE ListOf(m)'
      <4>1. CASE m \in InPass
        BY <4>1, <1>l, <2>1, <2>2, <2>3, <3>1 DEF ListOf, PassOf
      <4>2. CASE m \notin InPass
        BY <4>2, <1>l, <2>1, <2>3, <3>1 DEF ListOf
      <4> QED
        BY <4>1, <4>2
    <3> QED
      BY <3>2 DEF Lists
  <2>4. CASE /\ worker.pc = "finished" /\ worker' = Asleep /\ posted' = TRUE
             /\ newNotifiers' = Alive(newNotifiers) /\ notifiers' = Alive(notifiers)
             /\ skipVersion' = SkipAfterCleanUp
    <3>1. InPass = worker.running \cup worker.fresh /\ ~Busy'
      BY <2>4, PassFacts DEF Busy, Asleep
    <3>2. newNotifiers \cap notifiers = {}
      BY DEF Core, TypeOK, NotifiersOK
    <3>3. ASSUME NEW m \in Notifiers PROVE ListOf(m)'
      <4>1. CASE m \in InPass
        BY <4>1, <1>l, <2>1, <2>2, <2>4, <3>1, <3>2 DEF ListOf, PassOf, Alive
      <4>2. CASE m \notin InPass
        BY <4>2, <1>l, <2>1, <2>4, <3>1 DEF ListOf, Alive
      <4> QED
        BY <4>1, <4>2
    <3> QED
      BY <3>3 DEF Lists
  <2> QED
    BY <1>7, <2>3, <2>4, HandsOver
<1>8. CASE UNCHANGED <<newNotifiers, notifiers, sg, hasRun, alive, callbacks, worker>>
  BY <1>l, <1>8 DEF Lists, ListOf, Busy
<1> QED
  BY <1>1, <1>2, <1>3, <1>4, <1>5, <1>6, <1>7, <1>8,
     NotifierFrame, VersionFrame, RunFrame, AliveFrame, ListFrame, WorkerFrame

\* No pass takes a notifier back.
LEMMA PassesStep ==
    ASSUME Core, Next
    PROVE  Passes'
<1>o. other' = other
  BY DEF Next, RegisterNotifier, Unregister, AddCallback, RemoveCallback, Suppress,
         NotifyWhileWriting, ProcessAvailable, AdvanceToReady, Refresh, StartWait, BeginWrite,
         RefreshUnobserved, PackageAndWait, CallNext, FinishNotifier, BeginInCallback,
         CommitWrite,
         CancelWrite, CommitElsewhere, StartRun, RunNotifiers, PrepareHandover
<1>l. /\ \A n \in Notifiers : ListOf(n)
      /\ Busy => \A n \in Notifiers : PassOf(n)
      /\ sg \in [Notifiers -> 0 .. latest] /\ alive \in [Notifiers -> BOOLEAN]
      /\ current \in Nat /\ latest \in Nat /\ current > 0 /\ latest > 0 /\ other' = other
  <2>1. current \in Nat /\ latest \in Nat /\ current > 0 /\ latest > 0
    BY NotificationsAssumption DEF Core, TypeOK, FileOK, Version
  <2>2. /\ \A n \in Notifiers : ListOf(n)
        /\ Busy => \A n \in Notifiers : PassOf(n)
        /\ sg \in [Notifiers -> 0 .. latest] /\ alive \in [Notifiers -> BOOLEAN]
    BY DEF Core, Lists, Passes, TypeOK, NotifiersOK
  <2> QED
    BY <1>o, <2>1, <2>2
<1>1. ASSUME NEW n \in Notifiers, RegisterNotifier(n)
      PROVE  Passes'
  <2>1. /\ sg[n] = 0 /\ sg' = [sg EXCEPT ![n] = current]
        /\ UNCHANGED <<notifiers, hasRun, alive, worker>>
    BY <1>1 DEF RegisterNotifier
  <2>2. ~hasRun[n] /\ (Busy => n \notin worker.running \cup worker.fresh)
    BY <1>l, <2>1 DEF ListOf, PassOf
  <2>3. \A m \in Notifiers \ {n} : sg'[m] = sg[m]
    BY <1>l, <2>1
  <2>4. ASSUME Busy, NEW m \in Notifiers PROVE PassOf(m)'
    <3>1. CASE m = n
      BY <3>1, <2>1, <2>2, <2>4 DEF PassOf
    <3>2. CASE m # n
      BY <3>2, <1>l, <2>1, <2>3, <2>4 DEF PassOf, PassVersion
    <3> QED
      BY <3>1, <3>2
  <2> QED
    BY <2>1, <2>4, <1>l DEF Core, Passes, Busy
<1>2. ASSUME NEW n \in Notifiers, Unregister(n)
      PROVE  Passes'
  <2>1. /\ alive' = [alive EXCEPT ![n] = FALSE] /\ UNCHANGED <<notifiers, sg, hasRun, worker>>
    BY <1>2 DEF Unregister, lists, state
  <2>2. \A m \in Notifiers : alive'[m] => alive[m]
    BY <1>l, <2>1
  <2>3. ASSUME Busy, NEW m \in Notifiers PROVE PassOf(m)'
    BY <1>l, <2>1, <2>2, <2>3 DEF PassOf, PassVersion
  <2> QED
    BY <2>1, <2>3, <1>l DEF Core, Passes, Busy
<1>3. CASE StartRun
  <2>1. CASE UNCHANGED worker
    BY <2>1, <1>3, Starts DEF Passes, Busy, Core
  <2>2. CASE ~UNCHANGED worker
    <3>1. /\ ~Busy /\ notifiers' = Alive(notifiers \cup newNotifiers)
          /\ worker'.running = Alive(notifiers) /\ worker'.fresh = Alive(newNotifiers)
          /\ worker'.version = latest /\ worker'.skip = SkipAfterCleanUp
          /\ worker'.pc = (IF SkipAfterCleanUp = NoSkip THEN "final" ELSE "skip")
          /\ SkipAfterCleanUp \in {NoSkip, skipVersion}
          /\ SkipAfterCleanUp # NoSkip => Alive(notifiers) # {} \/ other # "nothing"
      BY <1>3, <2>2, Starts
    <3>2. UNCHANGED <<sg, hasRun, alive>>
      BY <1>3 DEF StartRun, state
    <3>3. skipVersion \in 0 .. latest /\ (skipVersion # NoSkip => \A n \in notifiers : sg[n] <= skipVersion)
      BY DEF Core, TypeOK, FileOK, Skips
    <3>4. worker'.pc = "skip" => /\ worker'.skip = skipVersion /\ skipVersion # NoSkip
                                 /\ Alive(notifiers) # {} \/ other # "nothing"
      BY <3>1
    <3>5. ASSUME NEW m \in Notifiers PROVE PassOf(m)'
      <4>1. m \in worker'.running => hasRun[m] /\ m \in notifiers /\ m \in notifiers'
        BY <3>1, <1>l DEF Alive, ListOf
      <4>2. m \in worker'.fresh => ~hasRun[m] /\ m \in notifiers' /\ sg[m] # 0
        BY <3>1, <1>l DEF Alive, ListOf
      <4>3. PassVersion' = IF worker'.pc = "skip" THEN skipVersion ELSE latest
        BY <3>1, <3>4 DEF PassVersion
      <4>4. m \in notifiers => sg[m] <= PassVersion'
        BY <3>3, <3>4, <4>3, <1>l
      <4> QED
        BY <3>1, <3>2, <4>1, <4>2, <4>4, <1>l DEF PassOf
    <3> QED
      <4>1. worker'.pc \notin {"skipped"} /\ 1 <= worker'.version
        BY <3>1, <1>l
      <4>2. worker'.pc = "skip" => 1 <= worker'.skip /\ worker'.skip <= worker'.version
        BY <3>1, <3>3, <3>4, <1>l DEF NoSkip
      <4>3. worker'.pc = "skip" => worker'.running # {} \/ other' # "nothing"
        BY <3>1, <3>4, <1>l
      <4> QED
        BY <3>5, <4>1, <4>2, <4>3 DEF Passes
  <2> QED
    BY <2>1, <2>2
<1>4. CASE RunNotifiers
  <2>1. /\ Busy /\ worker.pc \in {"skip", "final"} /\ worker'.pc \in {"skipped", "finished"}
        /\ worker'.pc = (IF worker.pc = "skip" THEN "skipped" ELSE "finished")
        /\ worker'.running = worker.running /\ worker'.fresh = worker.fresh
        /\ worker'.version = worker.version /\ worker'.skip = worker.skip
        /\ UNCHANGED <<notifiers, sg, hasRun, alive>>
    BY <1>4 DEF RunNotifiers, Busy, lists, state, Core, TypeOK, WorkerOK
  <2>2. PassVersion' = PassVersion
    BY <2>1 DEF PassVersion
  <2>3. ASSUME NEW m \in Notifiers PROVE PassOf(m)'
    BY <1>l, <2>1, <2>2 DEF PassOf
  <2> QED
    BY <2>1, <2>3 DEF Core, Passes
<1>5. CASE PrepareHandover
  <2>1. CASE worker' = Asleep
    BY <2>1 DEF Passes, Busy, Asleep
  <2>2. CASE worker' # Asleep
    <3>1. /\ Busy /\ worker.pc = "skipped" /\ worker' = [worker EXCEPT !.pc = "final"]
          /\ UNCHANGED <<notifiers, alive>>
          /\ \A n \in InPass : sg'[n] = PassVersion /\ hasRun'[n]
          /\ \A n \in Notifiers \ InPass : sg'[n] = sg[n] /\ hasRun'[n] = hasRun[n]
      BY <1>5, <2>2, HandsOver DEF PrepareHandover
    <3>2. /\ worker'.pc = "final" /\ worker'.running = worker.running /\ worker'.fresh = worker.fresh
          /\ worker'.version = worker.version
      BY <3>1 DEF Core, TypeOK, WorkerOK
    <3>3. InPass = worker.running /\ PassVersion \in 1 .. latest /\ PassVersion <= worker.version
      BY <3>1, PassFacts
    <3>4. PassVersion' = worker.version
      BY <3>2 DEF PassVersion
    <3>5. ASSUME NEW m \in Notifiers PROVE PassOf(m)'
      <4>1. CASE m \in InPass
        BY <4>1, <1>l, <3>1, <3>2, <3>3, <3>4 DEF PassOf
      <4>2. CASE m \notin InPass
        BY <4>2, <1>l, <3>1, <3>2, <3>3 DEF PassOf
      <4> QED
        BY <4>1, <4>2
    <3> QED
      BY <3>1, <3>2, <3>5 DEF Core, Passes
  <2> QED
    BY <2>1, <2>2
<1>6. CASE UNCHANGED <<notifiers, sg, hasRun, alive, worker>>
  BY <1>l, <1>6 DEF Core, Passes, PassOf, PassVersion, Busy
<1> QED
  BY <1>1, <1>2, <1>3, <1>4, <1>5, <1>6,
     NotifierFrame, VersionFrame, RunFrame, AliveFrame, WorkerFrame

\* Incidents are not forgotten.
LEMMA IncidentsGrow ==
    ASSUME Next
    PROVE  incidents \subseteq incidents'
<1>1. ASSUME NEW n \in Notifiers, NEW c \in Callbacks, AddCallback(n, c) PROVE incidents \subseteq incidents'
  BY <1>1 DEF AddCallback, Happened
<1>2. ASSUME NEW c \in Callbacks, RemoveCallback(c) PROVE incidents \subseteq incidents'
  BY <1>2 DEF RemoveCallback, Happened
<1>3. CASE BeginInCallback \/ CommitElsewhere \/ PrepareHandover
  BY <1>3 DEF BeginInCallback, CommitElsewhere, PrepareHandover, Happened
<1> QED
  BY <1>1, <1>2, <1>3, IncidentsFrame

\* A version to be skipped stays ahead of the worker.
LEMMA SkipsStep ==
    ASSUME Core, Next
    PROVE  Skips'
<1>l. /\ \A n \in Notifiers : ListOf(n)
      /\ sg \in [Notifiers -> 0 .. latest] /\ latest \in Nat
      /\ notifiers \subseteq Notifiers /\ newNotifiers \subseteq Notifiers
      /\ skipVersion \in 0 .. latest /\ worker.version \in 0 .. latest
  BY NotificationsAssumption
     DEF Core, Lists, TypeOK, NotifiersOK, FileOK, WorkerOK, Version
<1>o. other' = other
  BY DEF Next, RegisterNotifier,
         Unregister, AddCallback, RemoveCallback, Suppress, NotifyWhileWriting, ProcessAvailable,
         AdvanceToReady, Refresh, StartWait, BeginWrite, RefreshUnobserved, PackageAndWait,
         CallNext, FinishNotifier, BeginInCallback, CommitWrite, CancelWrite, CommitElsewhere,
         StartRun, RunNotifiers, PrepareHandover
<1>1. ASSUME NEW n \in Notifiers, RegisterNotifier(n)
      PROVE  Skips'
  <2>1. /\ sg[n] = 0 /\ sg' = [sg EXCEPT ![n] = current]
        /\ UNCHANGED <<notifiers, worker, skipVersion>>
    BY <1>1 DEF RegisterNotifier, file
  <2>2. \A m \in notifiers : sg'[m] = sg[m]
    BY <1>l, <2>1 DEF ListOf
  <2> QED
    BY <2>1, <2>2, <1>o DEF Core, Skips, Busy
<1>2. CASE CommitWrite \/ CommitElsewhere
  <2>1. /\ latest' = latest + 1 /\ UNCHANGED <<notifiers, worker, sg>>
        /\ \/ skipVersion' = skipVersion
           \/ skipVersion' = latest' /\ (notifiers # {} \/ other # "nothing")
    BY <1>2 DEF CommitWrite, CommitElsewhere, SkipVersionAfter, HaveNotifiers, Alive, lists, state
  <2>2. CASE skipVersion' = skipVersion
    BY <2>1, <2>2, <1>o DEF Core, Skips, Busy
  <2>3. CASE skipVersion' = latest' /\ (notifiers # {} \/ other # "nothing")
    <3>1. worker.version < latest' /\ \A n \in notifiers : sg[n] <= latest'
      BY <2>1, <1>l
    <3> QED
      BY <2>1, <2>3, <3>1, <1>o DEF Skips
  <2> QED
    BY <2>1, <2>2, <2>3
<1>3. CASE StartRun
  <2>1. skipVersion' = NoSkip \/ (notifiers' = {} /\ UNCHANGED <<skipVersion, worker>>
                                  /\ Alive(notifiers \cup newNotifiers) = {} /\ other = "nothing"
                                  /\ skipVersion' = SkipAfterCleanUp)
    BY <1>3, Starts DEF StartRun
  <2>2. CASE skipVersion' = NoSkip
    BY <2>2 DEF Skips
  <2>3. CASE skipVersion' # NoSkip
    <3>1. Alive(notifiers) = {} /\ other = "nothing" /\ SkipAfterCleanUp # NoSkip
      BY <2>1, <2>3 DEF Alive
    <3> QED
      BY <3>1, <1>3, Starts
  <2> QED
    BY <2>2, <2>3
<1>4. CASE RunNotifiers
  BY <1>4, <1>o DEF RunNotifiers, file, lists, state, Core, Skips, Busy, TypeOK, WorkerOK
<1>5. CASE PrepareHandover
  <2>1. /\ Busy /\ UNCHANGED alive
        /\ \A n \in InPass : sg'[n] = PassVersion
        /\ \A n \in Notifiers \ InPass : sg'[n] = sg[n]
    BY <1>5, HandsOver DEF PrepareHandover
  <2>2. PassVersion \in 1 .. latest /\ PassVersion <= worker.version
    BY <2>1, PassFacts
  <2>3. ASSUME skipVersion # NoSkip, NEW n \in notifiers
        PROVE  sg'[n] <= skipVersion
    <3>1. worker.version < skipVersion /\ sg[n] <= skipVersion
      BY <2>1, <2>3 DEF Core, Skips
    <3>2. CASE n \in InPass
      BY <3>1, <3>2, <2>1, <2>2, <1>l
    <3>3. CASE n \notin InPass
      BY <3>1, <3>3, <2>1, <1>l
    <3> QED
      BY <3>2, <3>3
  <2>4. CASE /\ worker.pc = "skipped" /\ worker' = [worker EXCEPT !.pc = "final"]
             /\ UNCHANGED <<newNotifiers, notifiers, skipVersion, posted>>
    <3>1. worker'.version = worker.version
      BY <2>4 DEF Core, TypeOK, WorkerOK
    <3> QED
      BY <2>1, <2>3, <2>4, <3>1, <1>o DEF Core, Skips
  <2>5. CASE /\ worker.pc = "finished" /\ worker' = Asleep /\ posted' = TRUE
             /\ newNotifiers' = Alive(newNotifiers) /\ notifiers' = Alive(notifiers)
             /\ skipVersion' = SkipAfterCleanUp
    <3>1. ~Busy' /\ Alive(notifiers) \subseteq notifiers
      BY <2>5 DEF Busy, Asleep, Alive
    <3>2. SkipAfterCleanUp # NoSkip =>
            /\ SkipAfterCleanUp = skipVersion
            /\ Alive(notifiers) # {} \/ other # "nothing"
      BY DEF SkipAfterCleanUp, NoNotifiersLeft, Core, Skips
    <3> QED
      BY <2>3, <2>5, <3>1, <3>2, <1>o DEF Skips
  <2> QED
    BY <1>5, <2>4, <2>5, HandsOver
<1>6. CASE UNCHANGED <<skipVersion, notifiers, sg, worker>>
  BY <1>6, <1>o DEF Core, Skips, Busy
<1> QED
  BY <1>1, <1>2, <1>3, <1>4, <1>5, <1>6, SkipFrame, NotifierFrame, VersionFrame, WorkerFrame

\* The notifiers that have run stay together.
LEMMA OneVersionStep ==
    ASSUME Core, Next
    PROVE  OneVersion'
<1>l. /\ \A n \in Notifiers : ListOf(n)
      /\ sg \in [Notifiers -> 0 .. latest] /\ alive \in [Notifiers -> BOOLEAN]
  BY DEF Core, Lists, TypeOK, NotifiersOK
<1>1. ASSUME NEW n \in Notifiers, RegisterNotifier(n)
      PROVE  OneVersion'
  <2>1. /\ sg[n] = 0 /\ sg' = [sg EXCEPT ![n] = current] /\ UNCHANGED <<alive, hasRun>>
    BY <1>1 DEF RegisterNotifier
  <2>2. ~hasRun[n] /\ \A m \in Notifiers \ {n} : sg'[m] = sg[m]
    BY <1>l, <2>1 DEF ListOf
  <2> QED
    BY <2>1, <2>2 DEF Core, OneVersion
<1>2. ASSUME NEW n \in Notifiers, Unregister(n)
      PROVE  OneVersion'
  <2>1. alive' = [alive EXCEPT ![n] = FALSE] /\ UNCHANGED <<sg, hasRun>>
    BY <1>2 DEF Unregister, state
  <2>2. \A m \in Notifiers : alive'[m] => alive[m]
    BY <2>1, <1>l
  <2> QED
    BY <2>1, <2>2 DEF Core, OneVersion
<1>3. CASE PrepareHandover
  <2>1. /\ Busy /\ UNCHANGED alive /\ worker.pc \in {"skipped", "finished"}
        /\ \A n \in InPass : sg'[n] = PassVersion /\ hasRun'[n]
        /\ \A n \in Notifiers \ InPass : sg'[n] = sg[n] /\ hasRun'[n] = hasRun[n]
    BY <1>3, HandsOver DEF PrepareHandover
  <2>2. ASSUME NEW n \in Notifiers \ InPass, alive[n], hasRun[n]
        PROVE  FALSE
    <3>1. n \in worker.running \cup worker.fresh
      BY <2>1, <2>2, <1>l DEF ListOf
    <3>2. n \in worker.fresh => ~hasRun[n]
      BY <2>1 DEF Core, Passes, PassOf
    <3>3. worker.running \subseteq InPass
      BY <2>1, PassFacts
    <3> QED
      BY <3>1, <3>2, <3>3, <2>2
  <2> QED
    BY <2>1, <2>2 DEF OneVersion
<1>4. CASE UNCHANGED <<sg, hasRun, alive>>
  BY <1>4 DEF Core, OneVersion
<1> QED
  BY <1>1, <1>2, <1>3, <1>4, VersionFrame, RunFrame, AliveFrame

\* Whoever is behind will be run.
LEMMA RunsStep ==
    ASSUME Core, Next
    PROVE  Runs'
<1>l. /\ \A n \in Notifiers : ListOf(n)
      /\ sg \in [Notifiers -> 0 .. latest] /\ alive \in [Notifiers -> BOOLEAN]
      /\ \A n \in Notifiers : haveCallbacks[n] <=> callbacks[n] # <<>>
      /\ Runs
  BY DEF Core, Lists, TypeOK, NotifiersOK, CallbacksOK
<1>w. woken' = TRUE => Runs'
  BY DEF Runs
<1>1. ASSUME NEW n \in Notifiers, RegisterNotifier(n)
      PROVE  Runs'
  <2>1. /\ sg[n] = 0 /\ sg' = [sg EXCEPT ![n] = current]
        /\ UNCHANGED <<alive, hasRun, haveCallbacks, latest, woken, worker>>
    BY <1>1 DEF RegisterNotifier, cbs, file, signals
  <2>2. ~hasRun[n] /\ ~haveCallbacks[n] /\ \A m \in Notifiers \ {n} : sg'[m] = sg[m]
    BY <1>l, <2>1 DEF ListOf
  <2> QED
    BY <1>l, <2>1, <2>2 DEF Runs, Behind, Busy
<1>2. ASSUME NEW n \in Notifiers, Unregister(n)
      PROVE  Runs'
  <2>1. alive' = [alive EXCEPT ![n] = FALSE]
        /\ UNCHANGED <<sg, hasRun, haveCallbacks, latest, woken, worker>>
    BY <1>2 DEF Unregister, state, cbs, file, signals
  <2>2. \A m \in Notifiers : alive'[m] => alive[m]
    BY <2>1, <1>l
  <2> QED
    BY <1>l, <2>1, <2>2 DEF Runs, Behind, Busy
<1>3. ASSUME NEW n \in Notifiers, NEW c \in Callbacks, AddCallback(n, c)
      PROVE  Runs'
  <2>1. UNCHANGED <<sg, hasRun, alive, latest, worker>>
    BY <1>3 DEF AddCallback, state, file
  <2>2. woken' = TRUE \/ UNCHANGED <<woken, haveCallbacks>>
    BY <1>3 DEF AddCallback
  <2> QED
    BY <1>l, <1>w, <2>1, <2>2 DEF Runs, Behind, Busy
<1>4. ASSUME NEW c \in Callbacks, RemoveCallback(c)
      PROVE  Runs'
  <2>1. UNCHANGED <<sg, hasRun, alive, latest, worker, woken>>
    BY <1>4 DEF RemoveCallback, state, file, signals
  <2>2. PICK n \in Notifiers : \E k \in DOMAIN callbacks[n] : Leaves(c, n, k)
    BY <1>4, Left
  <2>3. callbacks[n] # <<>> /\ \A m \in Notifiers \ {n} : haveCallbacks'[m] = haveCallbacks[m]
    BY <2>2, Members DEF Leaves, Core, TypeOK
  <2>4. \A m \in Notifiers : Behind(m)' => Behind(m)
    BY <1>l, <2>1, <2>3 DEF Behind
  <2> QED
    BY <1>l, <2>1, <2>4 DEF Runs, Busy
<1>5. CASE Refresh \/ BeginWrite
  <2>1. /\ woken' = TRUE \/ woken' = woken
        /\ UNCHANGED <<sg, hasRun, alive, haveCallbacks, latest, worker>>
    BY <1>5 DEF Refresh, BeginWrite, StartWait, state, cbs, file, Core, TypeOK, FileOK
  <2> QED
    BY <1>l, <1>w, <2>1 DEF Runs, Behind, Busy
<1>6. CASE CommitWrite \/ CommitElsewhere
  BY <1>6, <1>w DEF CommitWrite, CommitElsewhere
<1>7. CASE StartRun
  <2>1. /\ ~Busy /\ UNCHANGED <<sg, hasRun, alive, haveCallbacks, callbacks, latest>>
        /\ \/ Alive(notifiers \cup newNotifiers) = {}
           \/ /\ worker'.running = Alive(notifiers) /\ worker'.fresh = Alive(newNotifiers)
              /\ worker'.version = latest /\ Busy'
        /\ worker'.version = latest \/ ~Busy'
    BY <1>7, Starts DEF StartRun, state, cbs, Busy
  <2>2. ASSUME NEW n \in Notifiers, Behind(n)'
        PROVE  n \in Alive(notifiers) \cup Alive(newNotifiers)
    BY <2>1, <2>2, <1>l DEF Behind, ListOf, Alive
  <2>3. ASSUME NEW n \in Notifiers, Behind(n)'
        PROVE  Busy' /\ n \in worker'.running \cup worker'.fresh
    BY <2>1, <2>2, <2>3 DEF Alive
  <2> QED
    BY <2>1, <2>3 DEF Runs
<1>8. CASE RunNotifiers
  <2>1. /\ Busy /\ Busy' /\ worker'.running = worker.running /\ worker'.fresh = worker.fresh
        /\ worker'.version = worker.version
        /\ UNCHANGED <<sg, hasRun, alive, haveCallbacks, latest, woken>>
    BY <1>8 DEF RunNotifiers, Busy, file, state, cbs, signals, Core, TypeOK, WorkerOK
  <2> QED
    BY <1>l, <2>1 DEF Runs, Behind
<1>9. CASE PrepareHandover
  <2>1. /\ Busy /\ worker.pc \in {"skipped", "finished"}
        /\ UNCHANGED <<alive, haveCallbacks, callbacks, latest, woken>>
        /\ \A n \in InPass : sg'[n] = PassVersion /\ hasRun'[n]
        /\ \A n \in Notifiers \ InPass : sg'[n] = sg[n] /\ hasRun'[n] = hasRun[n]
    BY <1>9, HandsOver DEF PrepareHandover, cbs
  <2>2. CASE /\ worker.pc = "skipped" /\ worker' = [worker EXCEPT !.pc = "final"]
    <3>1. /\ Busy' /\ worker'.running = worker.running /\ worker'.fresh = worker.fresh
          /\ worker'.version = worker.version /\ InPass = worker.running
      BY <2>2, PassFacts DEF Busy, Core, TypeOK, WorkerOK
    <3>2. \A n \in worker.running : hasRun[n] /\ n \in Notifiers
      BY <2>1, PassFacts DEF Core, Passes, PassOf
    <3>3. ASSUME NEW n \in Notifiers, Behind(n)'
          PROVE  woken' \/ n \in worker'.running \cup worker'.fresh
      <4>1. CASE n \in InPass
        BY <4>1, <3>1
      <4>2. CASE n \notin InPass
        <5>1. Behind(n)
          BY <4>2, <3>3, <2>1 DEF Behind
        <5> QED
          BY <5>1, <1>l, <2>1, <3>1 DEF Runs
      <4> QED
        BY <4>1, <4>2
    <3> QED
      BY <1>l, <2>1, <3>1, <3>3 DEF Runs
  <2>3. CASE worker.pc = "finished" /\ worker' = Asleep
    <3>1. InPass = worker.running \cup worker.fresh /\ PassVersion = worker.version
      BY <2>3, PassFacts
    <3>2. ASSUME NEW n \in Notifiers, Behind(n)'
          PROVE  woken'
      <4>1. CASE n \in InPass
        BY <4>1, <3>1, <3>2, <1>l, <2>1 DEF Behind, Runs
      <4>2. CASE n \notin InPass
        <5>1. Behind(n)
          BY <4>2, <3>2, <2>1 DEF Behind
        <5> QED
          BY <5>1, <4>2, <3>1, <1>l, <2>1 DEF Runs
      <4> QED
        BY <4>1, <4>2
    <3> QED
      BY <2>3, <3>2 DEF Runs, Busy, Asleep
  <2> QED
    BY <1>9, <2>2, <2>3, HandsOver
<1>10. CASE UNCHANGED <<sg, hasRun, alive, callbacks, haveCallbacks, latest, woken, worker>>
  BY <1>l, <1>10 DEF Runs, Behind, Busy
<1> QED
  BY <1>1, <1>2, <1>3, <1>4, <1>5, <1>6, <1>7, <1>8, <1>9, <1>10,
     VersionFrame, RunFrame, AliveFrame, ListFrame, LatestFrame, WokenFrame, WorkerFrame

\* Nobody registers, and no write begins, while the target thread waits.
LEMMA WaitingStep ==
    ASSUME Core, Next
    PROVE  Waiting'
<1>l. /\ \A n \in Notifiers : ListOf(n)
      /\ sg \in [Notifiers -> 0 .. latest] /\ alive \in [Notifiers -> BOOLEAN]
      /\ current <= latest /\ Waiting
  BY DEF Core, Lists, TypeOK, NotifiersOK, FileOK
<1>1. ASSUME NEW n \in Notifiers, RegisterNotifier(n)
      PROVE  Waiting'
  BY <1>1 DEF RegisterNotifier, UserCode, Waiting
<1>2. ASSUME NEW n \in Notifiers, Unregister(n)
      PROVE  Waiting'
  BY <1>2 DEF Unregister, UserCode, Waiting
<1>3. CASE ProcessAvailable
  BY <1>3, <1>l DEF ProcessAvailable, Deliver, Waiting
<1>4. CASE AdvanceToReady
  BY <1>4, <1>l DEF AdvanceToReady, Deliver, Waiting
<1>5. CASE Refresh \/ BeginWrite
  <2>1. /\ \E op \in {"refresh", "begin"} :
             thread' = [NoOne EXCEPT !.step = "waiting", !.op = op, !.package = NotifiersForRealm,
                                     !.target = latest]
        /\ ~writing /\ UNCHANGED <<current, writing, latest, sg, alive>>
    BY <1>5 DEF Refresh, BeginWrite, StartWait, file, realm, state
  <2>2. /\ thread'.op \in {"refresh", "begin"} /\ thread'.target = latest
        /\ thread'.package = NotifiersForRealm
    BY <2>1 DEF NoOne
  <2>3. \A n \in Notifiers : alive[n] /\ sg[n] # 0 => n \in NotifiersForRealm
    BY <1>l DEF ListOf, NotifiersForRealm, Alive
  <2> QED
    BY <2>1, <2>2, <2>3, <1>l DEF Waiting
<1>6. CASE PackageAndWait
  BY <1>6 DEF PackageAndWait, Deliver, NoOne, Waiting
<1>7. CASE CallNext
  BY <1>7 DEF CallNext, Waiting, Core, TypeOK, ThreadOK
<1>8. CASE FinishNotifier
  <2>1. \/ thread' = [thread EXCEPT !.step = "undefined"]
        \/ thread' = NoOne
        \/ Deliver(thread.op, thread.package \ {thread.turn})
    BY <1>8 DEF FinishNotifier
  <2> QED
    BY <2>1 DEF Deliver, NoOne, Waiting, Core, TypeOK, ThreadOK
<1>9. CASE RefreshUnobserved \/ BeginInCallback \/ CommitWrite \/ CancelWrite
  <2>1. thread.step = "idle" \/ thread.step = "calling"  \/ writing
    BY <1>9 DEF RefreshUnobserved, BeginInCallback, CommitWrite, CancelWrite, MayEndWrite
  <2>2. thread' = thread /\ thread.step # "waiting"
    BY <1>9, <2>1, <1>l DEF RefreshUnobserved, BeginInCallback, CommitWrite, CancelWrite, Waiting
  <2> QED
    BY <2>2 DEF Waiting
<1>10. CASE CommitElsewhere
  BY <1>10, <1>l DEF CommitElsewhere, realm, state, Waiting
<1>11. CASE PrepareHandover
  <2>1. /\ Busy /\ UNCHANGED <<alive, thread, writing, current, latest>>
        /\ \A n \in Notifiers \ InPass : sg'[n] = sg[n]
    BY <1>11, HandsOver DEF PrepareHandover, realm
  <2>2. \A n \in InPass : sg[n] # 0
    BY <1>l, <2>1, PassFacts DEF Core, Passes, PassOf, ListOf
  <2> QED
    BY <2>1, <2>2, <1>l DEF Waiting
<1>12. CASE UNCHANGED <<thread, writing, current, latest, sg, alive>>
  BY <1>12, <1>l DEF Waiting
<1> QED
  BY <1>1, <1>2, <1>3, <1>4, <1>5, <1>6, <1>7, <1>8, <1>9, <1>10, <1>11, <1>12,
     ThreadFrame, WritingFrame, CurrentFrame, LatestFrame, VersionFrame, AliveFrame

\* A delivery that starts.
LEMMA Starting ==
    ASSUME Core, NEW op, NEW s \in SUBSET Notifiers, Deliver(op, s),
           op \in {"process", "advance", "refresh", "begin"}, op = "begin" => writing',
           \A n \in s : hasRun'[n], \A n \in Notifiers : index'[n] = npos
    PROVE  Calling' /\ Delivering' /\ thread'.package = s
<1>1. /\ thread'.step = "delivering" /\ thread'.op = op /\ thread'.package = s
      /\ thread'.turn \in s
  BY DEF Deliver
<1> QED
  BY <1>1 DEF Calling, Delivering

\* The target thread iterates over what it has packaged.
LEMMA CallingStep ==
    ASSUME Core, Next
    PROVE  Calling'
<1>l. /\ Calling /\ index \in [Notifiers -> Nat] /\ ThreadOK
      /\ NotifiersForRealm \in SUBSET Notifiers
      /\ Deliverable(NotifiersForRealm) \in SUBSET Notifiers
      /\ ReadyAt(current) \in SUBSET Notifiers /\ Deliverable(thread.package) \in SUBSET Notifiers
  BY DEF Core, TypeOK, CallbacksOK, NotifiersOK, ThreadOK, Deliverable, NotifiersForRealm, Alive,
         ReadyAt
<1>1. CASE ProcessAvailable
  <2>1. /\ UNCHANGED <<index, hasRun, writing, incidents>> /\ thread.step = "idle"
        /\ thread' = thread \/ Deliver("process", ReadyAt(current))
    BY <1>1 DEF ProcessAvailable, realm, state, ghosts
  <2>2. \A n \in Notifiers : index[n] = npos
    BY <1>l, <2>1 DEF Calling, Delivering
  <2>3. \A n \in ReadyAt(current) : hasRun[n]
    BY DEF ReadyAt, Deliverable
  <2>4. CASE thread' = thread
    BY <2>1, <2>4, <1>l DEF Calling, Delivering
  <2>5. CASE Deliver("process", ReadyAt(current))
    BY <2>1, <2>2, <2>3, <2>5, <1>l, Starting
  <2> QED
    BY <2>1, <2>4, <2>5
<1>2. CASE AdvanceToReady
  <2>1. /\ UNCHANGED <<index, hasRun, writing, incidents>> /\ thread.step = "idle"
        /\ thread' = thread \/ Deliver("advance", Deliverable(NotifiersForRealm))
    BY <1>2 DEF AdvanceToReady, state, ghosts
  <2>2. \A n \in Notifiers : index[n] = npos
    BY <1>l, <2>1 DEF Calling, Delivering
  <2>3. \A n \in Deliverable(NotifiersForRealm) : hasRun[n]
    BY DEF Deliverable
  <2>4. CASE thread' = thread
    BY <2>1, <2>4, <1>l DEF Calling, Delivering
  <2>5. CASE Deliver("advance", Deliverable(NotifiersForRealm))
    BY <2>1, <2>2, <2>3, <2>5, <1>l, Starting
  <2> QED
    BY <2>1, <2>4, <2>5
<1>3. CASE Refresh \/ BeginWrite
  <2>1. /\ thread.step = "idle" /\ thread'.step = "waiting" /\ index' = index
    BY <1>3, <1>l DEF Refresh, BeginWrite, StartWait, cbs, NoOne
  <2> QED
    BY <2>1, <1>l DEF Calling, Delivering
<1>4. CASE PackageAndWait
  <2>1. /\ UNCHANGED <<index, hasRun>> /\ thread.step = "waiting"
        /\ thread.op \in {"refresh", "begin"} /\ writing' = (thread.op = "begin")
        /\ thread' = NoOne \/ Deliver(thread.op, Deliverable(thread.package))
    BY <1>4 DEF PackageAndWait, state, Core, Waiting
  <2>2. \A n \in Notifiers : index[n] = npos
    BY <1>l, <2>1 DEF Calling, Delivering
  <2>3. \A n \in Deliverable(thread.package) : hasRun[n]
    BY DEF Deliverable
  <2>4. CASE thread' = NoOne
    BY <2>1, <2>2, <2>4 DEF Calling, Delivering, NoOne
  <2>5. CASE Deliver(thread.op, Deliverable(thread.package))
    BY <2>1, <2>2, <2>3, <2>5, <1>l, Starting
  <2> QED
    BY <2>1, <2>4, <2>5
<1>5. CASE CallNext
  <2>1. /\ Delivering /\ thread' = [thread EXCEPT !.step = "calling"]
        /\ index' = [index EXCEPT ![thread.turn] = NextIndex(thread.turn)]
        /\ UNCHANGED <<hasRun, writing, incidents>>
    BY <1>5 DEF CallNext, CallbackReturned, Delivering, state, realm
  <2>2. /\ thread'.step = "calling" /\ thread'.turn = thread.turn /\ thread'.op = thread.op
        /\ thread'.package = thread.package
    BY <2>1, <1>l DEF ThreadOK
  <2>3. \A n \in Notifiers : n # thread.turn => index'[n] = index[n]
    BY <2>1, <1>l
  <2> QED
    BY <2>1, <2>2, <2>3, <1>l DEF Calling, Delivering
<1>6. CASE FinishNotifier
  <2>1. /\ Delivering /\ index' = [index EXCEPT ![thread.turn] = npos]
        /\ UNCHANGED <<hasRun, writing, incidents, count, callbacks>>
        /\ IF Beyond(thread.turn) THEN thread' = [thread EXCEPT !.step = "undefined"]
           ELSE thread' = NoOne \/ Deliver(thread.op, thread.package \ {thread.turn})
    BY <1>6 DEF FinishNotifier, CallbackReturned, Delivering, state, ghosts
  <2>2. \A n \in Notifiers : index'[n] = npos
    BY <2>1, <1>l DEF Calling, npos
  <2>3. CASE Beyond(thread.turn)
    <3>1. thread'.step = "undefined"
      BY <2>1, <2>3, <1>l DEF ThreadOK
    <3>2. thread.turn \in Notifiers /\ thread.turn \in thread.package
      BY <1>6, Turn
    <3>3. ~(index[thread.turn] <= count[thread.turn] /\ count[thread.turn] <= Len(callbacks[thread.turn]))
      BY <2>3, <3>2, Members DEF Beyond, Core, TypeOK, CallbacksOK
    <3>4. "miscounted" \in incidents
      BY <2>1, <3>2, <3>3 DEF Core, Counted
    <3> QED
      BY <2>1, <2>2, <3>1, <3>4 DEF Calling, Delivering
  <2>4. CASE thread' = NoOne
    BY <2>2, <2>4 DEF Calling, Delivering, NoOne
  <2>5. CASE Deliver(thread.op, thread.package \ {thread.turn})
    <3>1. /\ thread.package \ {thread.turn} \in SUBSET Notifiers
          /\ thread.op \in {"process", "advance", "refresh", "begin"}
          /\ \A n \in thread.package \ {thread.turn} : hasRun[n]
          /\ thread.op = "begin" => writing
      BY <2>1, <1>l DEF ThreadOK, Calling
    <3> QED
      BY <2>1, <2>2, <2>5, <3>1, Starting
  <2> QED
    BY <2>1, <2>3, <2>4, <2>5
<1>7. ASSUME NEW c \in Callbacks, RemoveCallback(c)
      PROVE  Calling'
  <2>1. UNCHANGED <<thread, hasRun, writing>> /\ incidents \subseteq incidents'
    BY <1>7, IncidentsGrow DEF RemoveCallback, state, realm, Next
  <2>2. PICK n \in Notifiers : \E k \in DOMAIN callbacks[n] : Leaves(c, n, k)
    BY <1>7, Left
  <2>3. PICK k \in DOMAIN callbacks[n] : Leaves(c, n, k)
    BY <2>2
  <2>4. k \in Nat \ {0} /\ index[n] \in Nat
    BY <2>3, <1>l, Members DEF Core, TypeOK
  <2>5. \A m \in Notifiers : index'[m] # npos => index[m] # npos
    BY <2>3, <2>4 DEF Leaves, npos
  <2> QED
    BY <2>1, <2>5, <1>l DEF Calling, Delivering
<1>8. CASE PrepareHandover
  <2>1. /\ UNCHANGED <<thread, index, writing>> /\ incidents \subseteq incidents'
    BY <1>8, IncidentsGrow DEF PrepareHandover, realm, cbs, Next
  <2>2. \A n \in Notifiers : hasRun[n] => hasRun'[n]
    BY <1>8, HandsOver
  <2> QED
    BY <2>1, <2>2, <1>l DEF Calling, Delivering, ThreadOK
<1>9. CASE RefreshUnobserved \/ BeginInCallback \/ CommitWrite \/ CancelWrite
  <2>1. /\ UNCHANGED <<thread, index, hasRun>> /\ incidents \subseteq incidents'
        /\ thread.step = "idle" \/ thread.op # "begin" \/ writing'
    BY <1>9, IncidentsGrow DEF RefreshUnobserved, BeginInCallback, CommitWrite, CancelWrite,
       MayEndWrite, state, cbs, Next
  <2> QED
    BY <2>1, <1>l DEF Calling, Delivering
<1>10. CASE UNCHANGED <<thread, index, hasRun, writing>>
  <2>1. incidents \subseteq incidents'
    BY IncidentsGrow
  <2> QED
    BY <2>1, <1>10, <1>l DEF Calling, Delivering
<1> QED
  BY <1>1, <1>2, <1>3, <1>4, <1>5, <1>6, <1>7, <1>8, <1>9, <1>10,
     ThreadFrame, IndexFrame, RunFrame, WritingFrame

\* Only a Realm at the newest version writes.
LEMMA WritingStep ==
    ASSUME Core, Next
    PROVE  Writing'
<1>l. Writing
  BY DEF Core
<1>1. CASE AdvanceToReady
  BY <1>1, <1>l DEF AdvanceToReady, Writing
<1>2. CASE RefreshUnobserved
  BY <1>2, <1>l DEF RefreshUnobserved, Writing, file
<1>3. CASE PackageAndWait
  <2>1. ~writing
    BY <1>3 DEF PackageAndWait, Core, Waiting
  <2> QED
    BY <1>3, <1>l, <2>1 DEF PackageAndWait, Writing, file
<1>4. CASE BeginInCallback
  BY <1>4, <1>l DEF BeginInCallback, Writing, file
<1>5. CASE CommitWrite
  BY <1>5 DEF CommitWrite, Writing
<1>6. CASE CancelWrite
  BY <1>6 DEF CancelWrite, Writing
<1>7. CASE CommitElsewhere
  BY <1>7, <1>l DEF CommitElsewhere, Writing, realm
<1>8. ASSUME NEW c \in Callbacks, Suppress(c)
      PROVE  Writing'
  BY <1>8, <1>l DEF Suppress, MayEndWrite, Writing, realm, file
<1>9. CASE UNCHANGED <<writing, current, latest, suppressing>>
  BY <1>9, <1>l DEF Writing
<1> QED
  BY <1>1, <1>2, <1>3, <1>4, <1>5, <1>6, <1>7, <1>8, <1>9,
     WritingFrame, CurrentFrame, LatestFrame, SuppressingFrame

\* A new package counts the callbacks that are there.
LEMMA FreshCount ==
    ASSUME Core, NEW s \in SUBSET Notifiers, Package(s), callbacks' = callbacks, index' = index,
           ~Delivering, thread'.package \subseteq s
    PROVE  Counted'
<1>1. \A n \in s : count'[n] = Len(callbacks[n]) /\ index[n] = npos /\ Len(callbacks[n]) \in Nat
  BY Packaged, Members DEF Core, TypeOK, Calling
<1> QED
  BY <1>1 DEF Counted, npos

\* The callbacks counted are there.
LEMMA CountedStep ==
    ASSUME Core, Next
    PROVE  Counted'
<1>l. /\ Counted /\ Calling /\ ThreadOK
      /\ index \in [Notifiers -> Nat] /\ count \in [Notifiers -> Int]
      /\ \A n \in Notifiers : Len(callbacks[n]) \in Nat /\ DOMAIN callbacks[n] = 1 .. Len(callbacks[n])
      /\ incidents \subseteq incidents'
      /\ Deliverable(NotifiersForRealm) \in SUBSET Notifiers
      /\ ReadyAt(current) \in SUBSET Notifiers /\ Deliverable(thread.package) \in SUBSET Notifiers
  BY Members, IncidentsGrow
     DEF Core, TypeOK, CallbacksOK, NotifiersOK, ThreadOK, Deliverable, NotifiersForRealm, Alive,
         ReadyAt
<1>1. ASSUME NEW n \in Notifiers, NEW c \in Callbacks, AddCallback(n, c)
      PROVE  Counted'
  <2>1. UNCHANGED <<thread, index, count>>
    BY <1>1 DEF AddCallback
  <2>2. \A m \in Notifiers : Len(callbacks[m]) <= Len(callbacks'[m]) /\ Len(callbacks'[m]) \in Nat
    BY <1>1, <1>l, Added
  <2>3. \A m \in thread.package : m \in Notifiers
    BY <1>l DEF ThreadOK
  <2> QED
    BY <2>1, <2>2, <2>3, <1>l DEF Counted, Delivering
<1>2. ASSUME NEW c \in Callbacks, RemoveCallback(c)
      PROVE  Counted'
  <2>1. thread' = thread
    BY <1>2 DEF RemoveCallback
  <2>2. PICK n \in Notifiers : \E k \in DOMAIN callbacks[n] : Leaves(c, n, k)
    BY <1>2, Left
  <2>3. PICK k \in DOMAIN callbacks[n] : Leaves(c, n, k)
    BY <2>2
  <2>4. ASSUME Delivering, "miscounted" \notin incidents', NEW m \in thread.package
        PROVE  index'[m] <= count'[m] /\ count'[m] <= Len(callbacks'[m])
    <3>1. m \in Notifiers /\ index[m] <= count[m] /\ count[m] <= Len(callbacks[m])
      BY <2>4, <1>l DEF Counted, ThreadOK
    <3>2. CASE m = n
      <4>1. k <= count[n]
        BY <2>3, <2>4, <3>2 DEF Leaves, Delivering
      <4>2. /\ index'[n] = IF index[n] >= k THEN index[n] - 1 ELSE index[n]
            /\ count'[n] = count[n] - 1 /\ Len(callbacks'[n]) = Len(callbacks[n]) - 1
            /\ k \in Int
        BY <2>3, <1>l DEF Leaves
      <4> QED
        BY <3>1, <3>2, <4>1, <4>2, <1>l
    <3>3. CASE m # n
      BY <3>1, <3>3, <2>3 DEF Leaves
    <3> QED
      BY <3>2, <3>3
  <2> QED
    BY <2>1, <2>4 DEF Counted, Delivering
<1>3. CASE ProcessAvailable
  <2>1. /\ ~Delivering /\ UNCHANGED <<callbacks, index>>
        /\ \/ thread' = thread
           \/ Package(ReadyAt(current)) /\ thread'.package = ReadyAt(current)
    BY <1>3 DEF ProcessAvailable, Deliver, Delivering
  <2> QED
    BY <2>1, <1>l, FreshCount DEF Counted, Delivering
<1>4. CASE AdvanceToReady
  <2>1. /\ ~Delivering /\ UNCHANGED <<callbacks, index>>
        /\ \/ thread' = thread
           \/ /\ Package(Deliverable(NotifiersForRealm))
              /\ thread'.package = Deliverable(NotifiersForRealm)
    BY <1>4 DEF AdvanceToReady, Deliver, Delivering
  <2> QED
    BY <2>1, <1>l, FreshCount DEF Counted, Delivering
<1>5. CASE Refresh \/ BeginWrite
  <2>1. thread'.step = "waiting"
    BY <1>5 DEF Refresh, BeginWrite, StartWait, NoOne
  <2> QED
    BY <2>1 DEF Counted, Delivering
<1>6. CASE PackageAndWait
  <2>1. /\ ~Delivering /\ UNCHANGED <<callbacks, index>>
        /\ \/ thread' = NoOne
           \/ thread'.package = {}
           \/ /\ Package(Deliverable(thread.package))
              /\ thread'.package = Deliverable(thread.package)
    BY <1>6 DEF PackageAndWait, Deliver, Delivering
  <2> QED
    BY <2>1, <1>l, FreshCount DEF Counted, Delivering, NoOne
<1>7. CASE CallNext
  <2> DEFINE n == thread.turn
             i == NextIndex(n)
  <2>1. /\ Delivering /\ n \in Notifiers /\ n \in thread.package
        /\ index' = [index EXCEPT ![n] = i] /\ i # npos
        /\ UNCHANGED <<callbacks, count, incidents>> /\ thread'.package = thread.package
    BY <1>7, Turn, <1>l DEF CallNext, CallbackReturned, Delivering, ThreadOK
  <2>2. ASSUME "miscounted" \notin incidents
        PROVE  i <= count[n] /\ index'[n] = i
    <3>1. index[n] <= count[n] /\ count[n] <= Len(callbacks[n]) /\ index[n] \in Nat /\ count[n] \in Int
      BY <2>1, <2>2, <1>l DEF Counted
    <3>2. ~Beyond(n)
      BY <3>1, <2>1, <1>l DEF Beyond
    <3>3. i \in index[n] + 1 .. Limit(n) /\ Limit(n) = count[n]
      BY <2>1, <3>2, NextDue DEF Core, TypeOK
    <3> QED
      BY <2>1, <3>1, <3>3, <1>l
  <2> HIDE DEF i, n
  <2>3. \A m \in Notifiers : m # n => index'[m] = index[m]
    BY <2>1, <1>l
  <2>4. \A m \in thread.package : m \in Notifiers
    BY <1>l DEF ThreadOK
  <2> QED
    BY <2>1, <2>2, <2>3, <2>4, <1>l DEF Counted
<1>8. CASE FinishNotifier
  <2>1. /\ Delivering /\ index' = [index EXCEPT ![thread.turn] = npos]
        /\ UNCHANGED <<callbacks, count, incidents>>
        /\ \/ thread' = [thread EXCEPT !.step = "undefined"]
           \/ thread' = NoOne
           \/ thread'.package = thread.package \ {thread.turn}
    BY <1>8 DEF FinishNotifier, CallbackReturned, Delivering, ghosts, Deliver
  <2>2. \A m \in Notifiers : m # thread.turn => index'[m] = index[m]
    BY <2>1, <1>l
  <2>3. \A m \in thread.package : m \in Notifiers
    BY <1>l DEF ThreadOK
  <2> QED
    BY <2>1, <2>2, <2>3, <1>l DEF Counted, Delivering, NoOne, ThreadOK
<1>9. CASE UNCHANGED <<thread, callbacks, index, count>>
  BY <1>9, <1>l DEF Counted, Delivering
<1> QED
  BY <1>1, <1>2, <1>3, <1>4, <1>5, <1>6, <1>7, <1>8, <1>9,
     ThreadFrame, ListFrame, IndexFrame, CountFrame

\* Every step keeps the parts that the others rest on.
LEMMA CoreStep ==
    ASSUME Core, Next
    PROVE  Core'
BY TypeStep, TokensStep, ListsStep, PassesStep, SkipsStep, OneVersionStep, RunsStep, WaitingStep,
   CallingStep, WritingStep, CountedStep DEF Core

\* They hold before anything is observed.
LEMMA CoreInit ==
    ASSUME Init
    PROVE  Core
<1>1. /\ 1 \in Version /\ 1 .. 1 \subseteq Version /\ 0 \in 0 .. 1
  BY NotificationsAssumption DEF Version
<1>2. <<>> \in Seq(Callbacks) /\ Len(<<>>) = 0 /\ DOMAIN <<>> = {}
  BY EmptySeq
<1>3. FileOK
  <2>1. /\ writing \in BOOLEAN /\ woken \in BOOLEAN /\ posted \in BOOLEAN
        /\ other \in Others
    BY Zenon DEF Init
  <2>2. /\ latest \in Version /\ current \in Version /\ seen \in Version
        /\ skipVersion \in 0 .. latest /\ seen <= current /\ current <= latest
    BY <1>1 DEF Init, NoSkip
  <2> QED
    BY <2>1, <2>2 DEF FileOK
<1>10. NotifiersOK
  <2>1. sg \in [Notifiers -> 0 .. latest] /\ rows \in [Notifiers -> 0 .. latest]
    BY <1>1 DEF Init
  <2>2. /\ change \in [Notifiers -> SUBSET Version]
        /\ hasRun \in [Notifiers -> BOOLEAN] /\ alive \in [Notifiers -> BOOLEAN]
    BY DEF Init
  <2>3. newNotifiers = {} /\ notifiers = {}
    BY DEF Init
  <2> QED
    BY <2>1, <2>2, <2>3 DEF NotifiersOK
<1>4. CallbacksOK
  BY <1>2 DEF Init, CallbacksOK, npos
<1>5. CallbackOK
  BY <1>1 DEF Init, CallbackOK
<1>6. WorkerOK /\ ThreadOK
  BY <1>1 DEF Init, WorkerOK, ThreadOK, Asleep, NoOne, NoSkip
<1>7. Tokens
  BY <1>2 DEF Init, Tokens, Unused
<1>8. Lists /\ Passes /\ Skips /\ OneVersion
  BY DEF Init, Lists, ListOf, Passes, Busy, Asleep, Skips, OneVersion
<1>9. Runs /\ Waiting /\ Calling /\ Writing /\ Counted
  BY DEF Init, Runs, Behind, Busy, Asleep, Waiting, Calling, Writing, Counted, Delivering, NoOne
<1> QED
  BY <1>3, <1>4, <1>5, <1>6, <1>7, <1>8, <1>9, <1>10 DEF Core, TypeOK

\* They read no variable that is not in vars.
LEMMA CoreStutters ==
    ASSUME Core, UNCHANGED vars
    PROVE  Core'
BY DEF Core, TypeOK, FileOK, NotifiersOK, CallbacksOK, CallbackOK, WorkerOK, ThreadOK, Tokens,
   Lists,
       ListOf, Passes, PassOf, PassVersion, Skips, OneVersion, Runs, Behind, Waiting, Calling,
       Writing,
       Counted, Busy, Delivering, vars, file, realm, lists, results, state, cbs, cbData,
       signals, ghosts

-----------------------------------------------------------------------------
(* Nobody is forgotten.                                                    *)

\* The i-th callback of n, if there is something to tell it, is going to be
\* told: by the worker, the run loop or the target thread, which then has not
\* reached it and has taken its changes along.
Hears(n, i) ==
    LET c == callbacks[n][i] IN
    c \notin stranded /\ (told[c] = 0 \/ accumulated[c] # {}) =>
        \/ woken \/ Busy \/ posted \/ thread.step = "waiting"
        \/ Due(n, i) /\ accumulated[c] = {}
News ==
    "miscounted" \notin incidents =>
        \A n \in Notifiers : \A i \in DOMAIN callbacks[n] : Hears(n, i)

\* What the signals, the tokens and the target thread depend on.
LEMMA NewsFrame ==
    ASSUME Next
    PROVE  \/ /\ UNCHANGED <<callbacks, told, accumulated, stranded, index, count, thread, woken, posted>>
              /\ worker' = worker \/ Busy'
           \/ \E n \in Notifiers, c \in Callbacks : AddCallback(n, c)
           \/ \E c \in Callbacks : RemoveCallback(c)
           \/ NotifyWhileWriting \/ ProcessAvailable \/ AdvanceToReady \/ Refresh \/ BeginWrite
           \/ PackageAndWait \/ CallNext \/ FinishNotifier \/ CommitWrite \/ CommitElsewhere
           \/ StartRun \/ RunNotifiers \/ PrepareHandover
BY DEF Next, RegisterNotifier, Unregister, Suppress, RefreshUnobserved, BeginInCallback,
   CancelWrite,
       cbs, cbData, signals, ghosts

\* A notifier with callbacks that the worker has no reason to run is ready at
\* the newest version.
LEMMA UpToDate ==
    ASSUME Core, NEW n \in Notifiers, callbacks[n] # <<>>, ~woken, ~Busy
    PROVE  /\ alive[n] /\ hasRun[n] /\ sg[n] = latest
           /\ n \in NotifiersForRealm /\ n \in Deliverable(NotifiersForRealm)
<1>1. alive[n] /\ sg[n] # 0 /\ n \in newNotifiers \cup notifiers /\ haveCallbacks[n]
  BY DEF Core, Lists, ListOf, TypeOK, CallbacksOK
<1>2. hasRun[n] /\ sg[n] = latest
  BY <1>1 DEF Core, Runs, Behind
<1> QED
  BY <1>1, <1>2 DEF NotifiersForRealm, Alive, Deliverable

\* All callbacks of a notifier that is packaged are due.
LEMMA BecomeDue ==
    ASSUME Core, NEW op, NEW s \in SUBSET Notifiers, Package(s), Deliver(op, s), index' = index,
           ~Delivering, NEW n \in s, NEW i \in DOMAIN callbacks[n]
    PROVE  Due(n, i)' /\ accumulated'[callbacks[n][i]] = {}
<1>1. count'[n] = Len(callbacks[n]) /\ accumulated'[callbacks[n][i]] = {}
  BY Packaged
<1>2. i \in 1 .. Len(callbacks[n]) /\ Len(callbacks[n]) \in Nat
  BY Members DEF Core, TypeOK
<1>3. index'[n] = 0
  BY DEF Core, Calling, npos
<1>4. thread'.step = "delivering" /\ thread'.package = s
  BY DEF Deliver
<1>5. index'[n] < i /\ i <= count'[n]
  BY <1>1, <1>2, <1>3
<1> QED
  BY <1>1, <1>4, <1>5 DEF Due, Delivering

\* A callback due that waits for its first call is not passed over.
LEMMA NotPassedOver ==
    ASSUME Core, CallNext \/ FinishNotifier, "miscounted" \notin incidents,
           NEW i \in DOMAIN callbacks[thread.turn], Due(thread.turn, i),
           told[callbacks[thread.turn][i]] = 0
    PROVE  NextIndex(thread.turn) # npos /\ NextIndex(thread.turn) <= i
<1> DEFINE n == thread.turn
<1>1. /\ n \in Notifiers /\ n \in thread.package /\ Delivering
  BY Turn DEF CallNext, FinishNotifier, CallbackReturned, Delivering
<1>2. /\ CallbacksOK /\ index[n] \in Nat /\ count[n] \in Int
      /\ i \in 1 .. Len(callbacks[n]) /\ Len(callbacks[n]) \in Nat
      /\ callbacks[n][i] \in Callbacks
  BY <1>1, Members DEF Core, TypeOK, CallbacksOK
<1>3. index[n] <= count[n] /\ count[n] <= Len(callbacks[n])
  BY <1>1 DEF Core, Counted
<1>b. ~Beyond(n)
  BY <1>2, <1>3 DEF Beyond
<1>4. Limit(n) = count[n]
  BY <1>1, <1>2, <1>b, NextDue
<1>5. i \in index[n] + 1 .. Limit(n)
  BY <1>2, <1>4 DEF Due
<1>6. HasNews(callbacks[n][i])
  BY <1>2 DEF HasNews, Core, Tokens
<1> HIDE DEF n
<1>7. NextIndex(n) # npos
  BY <1>1, <1>2, <1>5, <1>6, NextDue
<1>8. /\ NextIndex(n) \in index[n] + 1 .. Limit(n)
      /\ \A k \in index[n] + 1 .. NextIndex(n) - 1 : ~HasNews(callbacks[n][k])
  BY <1>1, <1>2, <1>7, NextDue
<1>9. NextIndex(n) <= i
  BY <1>2, <1>4, <1>5, <1>6, <1>8
<1> QED
  BY <1>7, <1>9 DEF n

\* Every step that takes a signal away leaves another, or calls.
LEMMA NewsStep ==
    ASSUME Core, News, Next
    PROVE  News'
<1>1. SUFFICES ASSUME "miscounted" \notin incidents',
                      NEW n \in Notifiers, NEW i \in DOMAIN callbacks'[n]
               PROVE  Hears(n, i)'
  BY DEF News
<1>2. "miscounted" \notin incidents
  BY <1>1, IncidentsGrow
<1>h. \A m \in Notifiers : \A j \in DOMAIN callbacks[m] : Hears(m, j)
  BY <1>2 DEF News
<1>l. /\ \A m \in Notifiers : \A j \in DOMAIN callbacks[m] :
            callbacks[m][j] \in Callbacks /\ told[callbacks[m][j]] >= 0
      /\ \A m, p \in Notifiers : \A j \in DOMAIN callbacks[m], k \in DOMAIN callbacks[p] :
            callbacks[m][j] = callbacks[p][k] => m = p /\ j = k
      /\ \A m \in Notifiers : DOMAIN callbacks[m] = 1 .. Len(callbacks[m]) /\ Len(callbacks[m]) \in Nat
      /\ told \in [Callbacks -> {Removed, Unused} \cup 0 .. current]
  BY Members DEF Core, TypeOK, Tokens, CallbackOK
<1>e. \A m \in Notifiers : \A j \in DOMAIN callbacks[m] : callbacks[m] # <<>>
  BY <1>l, Members DEF Core, TypeOK
<1>3. ASSUME NEW m \in Notifiers, NEW c \in Callbacks, AddCallback(m, c)
      PROVE  Hears(n, i)'
  <2>1. /\ told' = [told EXCEPT ![c] = 0] /\ UNCHANGED <<thread, index, count, posted, worker, accumulated>>
        /\ woken' \/ (woken' = woken /\ index[m] # npos)
        /\ stranded' = IF index[m] = npos THEN stranded ELSE stranded \cup {c}
    BY <1>3 DEF AddCallback, WakesWorker, cbData
  <2>2. CASE n \in Notifiers /\ i \in DOMAIN callbacks[n]
    <3>1. callbacks'[n][i] = callbacks[n][i] /\ callbacks[n][i] # c
      BY <1>3, <2>2, Added
    <3>2. told'[callbacks[n][i]] = told[callbacks[n][i]]
      BY <2>1, <3>1, <1>l
    <3>3. Due(n, i)' <=> Due(n, i)
      BY <2>1 DEF Due, Delivering
    <3> QED
      BY <1>h, <2>1, <2>2, <3>1, <3>2, <3>3 DEF Hears, Busy
  <2>3. CASE i \notin DOMAIN callbacks[n]
    <3>1. n = m /\ i = Len(callbacks[m]) + 1
      BY <1>1, <1>3, <1>l, <2>3, Added
    <3>2. callbacks'[n][i] = c
      BY <1>3, <3>1, Added
    <3> QED
      BY <2>1, <3>2 DEF Hears
  <2> QED
    BY <2>2, <2>3
<1>4. ASSUME NEW c \in Callbacks, RemoveCallback(c)
      PROVE  Hears(n, i)'
  <2>1. PICK j \in DOMAIN callbacks[n] :
          /\ callbacks'[n][i] = callbacks[n][j] /\ callbacks[n][j] # c
          /\ "miscounted" \notin incidents' => (Due(n, i)' <=> Due(n, j))
    BY <1>1, <1>4, Survives
  <2>2. /\ told' = [told EXCEPT ![c] = Removed] /\ accumulated' = [accumulated EXCEPT ![c] = {}]
        /\ stranded' = stranded \ {c} /\ UNCHANGED <<woken, worker, posted, thread>>
    BY <1>4 DEF RemoveCallback, signals
  <2>3. accumulated \in [Callbacks -> SUBSET Version]
    BY DEF Core, TypeOK, CallbackOK
  <2>4. /\ told'[callbacks[n][j]] = told[callbacks[n][j]]
        /\ accumulated'[callbacks[n][j]] = accumulated[callbacks[n][j]]
    BY <2>1, <2>2, <2>3, <1>l
  <2> QED
    BY <1>1, <1>h, <2>1, <2>2, <2>4 DEF Hears, Busy
<1>5. CASE NotifyWhileWriting
  <2>1. /\ stranded' = stranded \cup {c \in Token : told[c] = 0 \/ accumulated[c] # {}}
        /\ UNCHANGED <<callbacks, told, accumulated>>
    BY <1>5 DEF NotifyWhileWriting, cbs, cbData
  <2>2. callbacks[n][i] \in Token
    BY <1>1, <2>1 DEF Token, Registered, ToSet
  <2> QED
    BY <2>1, <2>2 DEF Hears
<1>6. CASE ProcessAvailable
  <2>1. /\ ~Delivering /\ seen = latest
        /\ UNCHANGED <<callbacks, index, told, stranded, woken, worker>>
        /\ ReadyAt(current) # {} => Package(ReadyAt(current)) /\ Deliver("process", ReadyAt(current))
    BY <1>6 DEF ProcessAvailable, Delivering, ghosts
  <2>2. CASE woken \/ Busy
    BY <2>1, <2>2 DEF Hears, Busy
  <2>3. CASE ~woken /\ ~Busy
    <3>1. hasRun[n] /\ alive[n] /\ sg[n] = latest /\ n \in Deliverable(NotifiersForRealm)
      BY <1>1, <1>e, <2>1, <2>3, UpToDate
    <3>2. current = latest
      BY <2>1, NotificationsAssumption DEF Core, TypeOK, FileOK, Version
    <3>3. n \in ReadyAt(current) /\ ReadyAt(current) \in SUBSET Notifiers
      BY <3>1, <3>2 DEF ReadyAt, Deliverable, NotifiersForRealm, Alive, Core, TypeOK, NotifiersOK
    <3>4. Due(n, i)' /\ accumulated'[callbacks[n][i]] = {}
      BY <1>1, <2>1, <3>3, BecomeDue
    <3> QED
      BY <2>1, <3>4 DEF Hears
  <2> QED
    BY <2>2, <2>3
<1>7. CASE AdvanceToReady
  <2> DEFINE ready == Deliverable(NotifiersForRealm)
  <2>1. /\ ~Delivering /\ UNCHANGED <<callbacks, index, told, stranded, woken, worker>>
        /\ ready # {} => Package(ready)
        /\ ready # {} /\ ~(VersionOf(ready) < current) => Deliver("advance", ready)
    BY <1>7 DEF AdvanceToReady, Delivering, ghosts
  <2>2. CASE woken \/ Busy
    BY <2>1, <2>2 DEF Hears, Busy
  <2>3. CASE ~woken /\ ~Busy
    <3>1. sg[n] = latest /\ n \in ready
      BY <1>1, <1>e, <2>1, <2>3, UpToDate
    <3>2. NotifiersForRealm \in SUBSET Notifiers /\ ready \in SUBSET Notifiers
      BY DEF Deliverable, NotifiersForRealm, Alive, Core, TypeOK, NotifiersOK
    <3>3. VersionOf(ready) = latest
      BY <3>1, <3>2, SharedVersion DEF Core
    <3>4. ~(latest < current)
      BY NotificationsAssumption DEF Core, TypeOK, FileOK, Version
    <3> HIDE DEF ready
    <3>5. Package(ready) /\ Deliver("advance", ready)
      BY <2>1, <3>1, <3>3, <3>4
    <3>6. Due(n, i)' /\ accumulated'[callbacks[n][i]] = {}
      BY <1>1, <2>1, <3>1, <3>2, <3>5, BecomeDue
    <3> QED
      BY <2>1, <3>6 DEF Hears
  <2> QED
    BY <2>2, <2>3
<1>8. CASE Refresh \/ BeginWrite
  BY <1>8 DEF Refresh, BeginWrite, StartWait, NoOne, Hears
<1>9. CASE PackageAndWait
  <2> DEFINE ready == Deliverable(thread.package)
  <2>1. /\ ~Delivering /\ UNCHANGED <<callbacks, index, told, stranded, woken, worker, posted>>
        /\ ready # {} => Package(ready)
        /\ ~(VersionOf(ready) < thread.target) => Deliver(thread.op, ready)
        /\ ReadyFor(thread.package, thread.target)
    BY <1>9 DEF PackageAndWait, Delivering, ghosts, signals
  <2>2. alive[n] /\ sg[n] # 0 /\ haveCallbacks[n]
    BY <1>1, <1>e, <2>1 DEF Core, Lists, ListOf, TypeOK, CallbacksOK
  <2>3. n \in thread.package
    BY <1>9, <2>2 DEF PackageAndWait, Core, Waiting
  <2>4. hasRun[n] /\ sg[n] >= thread.target
    BY <2>1, <2>2, <2>3 DEF ReadyFor
  <2>5. n \in ready
    BY <2>2, <2>3, <2>4 DEF Deliverable
  <2>6. thread.package \in SUBSET Notifiers /\ ready \in SUBSET Notifiers
    BY DEF Deliverable, Core, TypeOK, ThreadOK
  <2>7. VersionOf(ready) = sg[n]
    BY <2>5, <2>6, SharedVersion DEF Core
  <2>8. sg[n] \in Int /\ thread.target \in Int
    BY DEF Core, TypeOK, NotifiersOK, ThreadOK
  <2> HIDE DEF ready
  <2>9. ~(sg[n] < thread.target)
    BY <2>4, <2>8
  <2>10. Package(ready) /\ Deliver(thread.op, ready)
    BY <2>1, <2>5, <2>7, <2>9
  <2>11. Due(n, i)' /\ accumulated'[callbacks[n][i]] = {}
    BY <1>1, <2>1, <2>5, <2>6, <2>10, BecomeDue
  <2> QED
    BY <2>1, <2>11 DEF Hears
<1>10. CASE CallNext
  <2> DEFINE t == thread.turn
             k == NextIndex(t)
  <2>1. /\ Delivering /\ t \in Notifiers /\ t \in thread.package
        /\ index' = [index EXCEPT ![t] = k] /\ k # npos
        /\ told' = [told EXCEPT ![callbacks[t][k]] = current]
        /\ thread' = [thread EXCEPT !.step = "calling"]
        /\ UNCHANGED <<callbacks, count, accumulated, stranded, woken, worker, posted>>
    BY <1>10, Turn DEF CallNext, CallbackReturned, Delivering, signals
  <2>2. /\ thread'.step = "calling" /\ thread'.package = thread.package /\ thread.step # "waiting"
    BY <2>1 DEF Core, TypeOK, ThreadOK, Delivering
  <2>3. \A m \in Notifiers : m # t => index'[m] = index[m]
    BY <2>1 DEF Core, TypeOK, CallbacksOK
  <2>4. /\ index'[t] = k /\ k \in DOMAIN callbacks[t] /\ callbacks[t][k] \in Callbacks
        /\ k \in Int /\ i \in Int
    <3>1. CallbacksOK /\ index[t] \in Nat
      BY <2>1 DEF Core, TypeOK, CallbacksOK
    <3>2. k \in index[t] + 1 .. Limit(t) /\ Limit(t) \in Int /\ Limit(t) <= Len(callbacks[t])
      BY <2>1, <3>1, NextDue
    <3>3. index'[t] = k
      BY <2>1 DEF Core, TypeOK, CallbacksOK
    <3> HIDE DEF t, k
    <3>4. k \in 1 .. Len(callbacks[t])
      BY <2>1, <3>1, <3>2, <1>l
    <3> QED
      BY <1>1, <2>1, <3>3, <3>4, <1>l
  <2> HIDE DEF k
  <2>5. CASE n = t /\ i = k
    <3>1. told'[callbacks[n][i]] = current /\ current # 0
      BY <2>1, <2>4, <2>5, <1>l, NotificationsAssumption DEF Core, TypeOK, FileOK, Version
    <3>2. accumulated[callbacks[n][i]] # {} /\ callbacks[n][i] \notin stranded => woken \/ Busy \/ posted
      BY <1>h, <2>2, <2>4, <2>5 DEF Hears
    <3> QED
      BY <2>1, <3>1, <3>2 DEF Hears, Busy
  <2>6. CASE ~(n = t /\ i = k)
    <3>1. told'[callbacks[n][i]] = told[callbacks[n][i]]
      BY <1>1, <2>1, <2>4, <2>6, <1>l
    <3>2. ASSUME Due(n, i), told[callbacks[n][i]] = 0
          PROVE  Due(n, i)'
      <4>1. CASE n # t
        BY <2>1, <2>2, <2>3, <3>2, <4>1 DEF Due, Delivering
      <4>2. CASE n = t
        <5>1. k <= i
          BY <1>1, <1>2, <1>10, <2>1, <3>2, <4>2, NotPassedOver DEF k
        <5>2. index'[n] < i
          BY <2>4, <2>6, <4>2, <5>1
        <5> QED
          BY <2>1, <2>2, <3>2, <5>2 DEF Due, Delivering
      <4> QED
        BY <4>1, <4>2
    <3> QED
      BY <1>1, <1>h, <2>1, <2>2, <3>1, <3>2 DEF Hears, Busy
  <2> QED
    BY <2>5, <2>6
<1>11. CASE FinishNotifier
  <2> DEFINE t == thread.turn
  <2>1. /\ Delivering /\ t \in Notifiers /\ t \in thread.package /\ thread.step # "waiting"
        /\ index' = [index EXCEPT ![t] = npos] /\ NextIndex(t) = npos
        /\ UNCHANGED <<callbacks, count, told, accumulated, stranded, woken, worker, posted>>
        /\ IF Beyond(t) THEN thread' = [thread EXCEPT !.step = "undefined"]
           ELSE IF thread.package \ {t} = {} THEN thread' = NoOne
           ELSE Deliver(thread.op, thread.package \ {t})
    BY <1>11, Turn DEF FinishNotifier, CallbackReturned, Delivering, signals, cbData, ghosts
  <2>2. ASSUME Due(n, i), told[callbacks[n][i]] = 0
        PROVE  Due(n, i)'
    <3>1. n # t
      BY <1>1, <1>2, <1>11, <2>1, <2>2, NotPassedOver
    <3>2. index'[n] = index[n] /\ n \in thread.package \ {t}
      BY <2>1, <2>2, <3>1 DEF Due, Core, TypeOK, CallbacksOK
    <3>3. index[t] <= count[t] /\ count[t] <= Len(callbacks[t])
      BY <1>2, <2>1 DEF Core, Counted
    <3>4. index[t] \in Nat /\ count[t] \in Int /\ Len(callbacks[t]) \in Nat
      BY <1>l, <2>1 DEF Core, TypeOK, CallbacksOK
    <3>5. ~Beyond(t)
      BY <3>3, <3>4 DEF Beyond
    <3>6. thread'.step = "delivering" /\ thread'.package = thread.package \ {t}
      BY <2>1, <3>2, <3>5 DEF Deliver
    <3> QED
      BY <2>1, <2>2, <3>2, <3>6 DEF Due, Delivering
  <2> HIDE DEF t
  <2> QED
    BY <1>1, <1>h, <2>1, <2>2 DEF Hears, Busy
<1>12. CASE CommitWrite \/ CommitElsewhere
  BY <1>12 DEF CommitWrite, CommitElsewhere, Hears
<1>13. CASE StartRun
  <2>1. Busy' \/ posted'
    BY <1>13 DEF StartRun, Busy
  <2> QED
    BY <2>1 DEF Hears
<1>14. CASE RunNotifiers
  <2>1. Busy'
    BY <1>14 DEF RunNotifiers, Busy, Core, TypeOK, WorkerOK
  <2> QED
    BY <2>1 DEF Hears
<1>15. CASE PrepareHandover
  <2>1. Busy' \/ posted'
    BY <1>15, HandsOver DEF Busy, Core, TypeOK, WorkerOK
  <2> QED
    BY <2>1 DEF Hears
<1>16. CASE /\ UNCHANGED <<callbacks, told, accumulated, stranded, index, count, thread, woken, posted>>
            /\ worker' = worker \/ Busy'
  <2>1. Hears(n, i)
    BY <1>1, <1>16, <1>h
  <2> QED
    BY <1>16, <2>1 DEF Hears, Due, Delivering, Busy
<1> QED
  BY <1>3, <1>4, <1>5, <1>6, <1>7, <1>8, <1>9, <1>10, <1>11, <1>12, <1>13, <1>14, <1>15, <1>16,
     NewsFrame

-----------------------------------------------------------------------------
(* The changes are those between the rows compared.                        *)

\* A run has been made that is not handed over.
Ran == worker.pc \in {"skipped", "finished"}

\* Whose callbacks are to be told has rows to compare with: those of its
\* version, or of the version it is about to be given.
RowsOf(n) ==
    /\ alive[n] /\ Ran /\ n \in InPass /\ (callbacks[n] # <<>> \/ ~hasRun[n]) => rows[n] = PassVersion
    /\ hasRun[n] /\ callbacks[n] # <<>> /\ ~(Ran /\ n \in InPass) => rows[n] = sg[n]
ChangeOf(n) ==
    /\ change[n] # {} => Ran /\ n \in InPass /\ hasRun[n] /\ change[n] = sg[n] + 1 .. PassVersion
    /\ Ran /\ n \in InPass /\ hasRun[n] /\ callbacks[n] # <<>> => change[n] = sg[n] + 1 .. PassVersion
Compared == "unwatched" \notin incidents => \A n \in Notifiers : RowsOf(n) /\ ChangeOf(n)

\* What rows and changes depend on.
LEMMA ComparedFrame ==
    ASSUME Next
    PROVE  \/ UNCHANGED <<callbacks, worker, sg, hasRun, alive, rows, change>>
           \/ \E n \in Notifiers : RegisterNotifier(n) \/ Unregister(n)
           \/ \E n \in Notifiers, c \in Callbacks : AddCallback(n, c)
           \/ \E c \in Callbacks : RemoveCallback(c)
           \/ StartRun \/ RunNotifiers \/ PrepareHandover
BY DEF Next, Suppress, NotifyWhileWriting, ProcessAvailable, AdvanceToReady, Refresh, StartWait,
       BeginWrite, RefreshUnobserved, PackageAndWait, CallNext, FinishNotifier, BeginInCallback,
       CommitWrite, CancelWrite, CommitElsewhere, cbs, state, results

\* Rows and changes stay together.
LEMMA ComparedStep ==
    ASSUME Core, Compared, Next
    PROVE  Compared'
<1>1. SUFFICES ASSUME "unwatched" \notin incidents', NEW n \in Notifiers
               PROVE  RowsOf(n)' /\ ChangeOf(n)'
  BY DEF Compared
<1>2. RowsOf(n) /\ ChangeOf(n)
  BY <1>1, IncidentsGrow DEF Compared
<1>l. /\ ListOf(n) /\ sg \in [Notifiers -> 0 .. latest] /\ alive \in [Notifiers -> BOOLEAN]
      /\ callbacks \in [Notifiers -> Seq(Callbacks)] /\ CallbacksOK
      /\ hasRun \in [Notifiers -> BOOLEAN] /\ rows \in [Notifiers -> 0 .. latest] /\ latest \in Nat
      /\ haveCallbacks[n] <=> callbacks[n] # <<>>
  BY NotificationsAssumption
     DEF Core, Lists, TypeOK, NotifiersOK, CallbacksOK, FileOK, Version
<1>3. ASSUME NEW m \in Notifiers, RegisterNotifier(m)
      PROVE  RowsOf(n)' /\ ChangeOf(n)'
  <2>1. /\ UNCHANGED <<callbacks, worker, hasRun, alive, rows, change>> /\ sg[m] = 0
        /\ sg' = [sg EXCEPT ![m] = current]
    BY <1>3 DEF RegisterNotifier, cbs, results
  <2>2. hasRun[n] => sg'[n] = sg[n]
    BY <2>1, <1>l DEF ListOf
  <2> QED
    BY <2>1, <2>2, <1>2 DEF RowsOf, ChangeOf, Ran, InPass, PassVersion
<1>4. ASSUME NEW m \in Notifiers, Unregister(m)
      PROVE  RowsOf(n)' /\ ChangeOf(n)'
  <2>1. /\ UNCHANGED <<callbacks, worker, sg, hasRun, rows, change>>
        /\ alive' = [alive EXCEPT ![m] = FALSE]
    BY <1>4 DEF Unregister, cbs, results, state
  <2>2. alive'[n] => alive[n]
    BY <2>1, <1>l
  <2> QED
    BY <2>1, <2>2, <1>2 DEF RowsOf, ChangeOf, Ran, InPass, PassVersion
<1>5. ASSUME NEW m \in Notifiers, NEW c \in Callbacks, AddCallback(m, c)
      PROVE  RowsOf(n)' /\ ChangeOf(n)'
  <2>1. /\ UNCHANGED <<worker, sg, hasRun, alive, rows, change>>
        /\ ~Unwatched(m)
    BY <1>1, <1>5 DEF AddCallback, results, state, Happened
  <2>2. CASE n # m \/ callbacks[n] # <<>>
    <3>1. callbacks[n] = <<>> => callbacks'[n] = <<>>
      BY <2>2, <1>5, Added
    <3> QED
      BY <2>1, <3>1, <1>2 DEF RowsOf, ChangeOf, Ran, InPass, PassVersion
  <2>3. CASE n = m /\ callbacks[n] = <<>>
    <3>1. ASSUME hasRun[n]
          PROVE  /\ rows[n] = sg[n]
                 /\ Ran /\ n \in InPass => rows[n] = PassVersion
      BY <2>1, <2>3, <3>1, <1>l DEF Unwatched, Ran
    <3>2. ASSUME hasRun[n], Ran, n \in InPass
          PROVE  change[n] = sg[n] + 1 .. PassVersion
      <4>1. sg[n] = PassVersion /\ sg[n] \in Nat
        BY <3>1, <3>2, <1>l
      <4>2. sg[n] + 1 .. PassVersion = {}
        BY <4>1
      <4> QED
        BY <4>2, <1>2 DEF ChangeOf
    <3>3. alive[n] /\ Ran /\ n \in InPass /\ ~hasRun[n] => rows[n] = PassVersion
      BY <1>2 DEF RowsOf
    <3> QED
      BY <2>1, <3>1, <3>2, <3>3, <1>2 DEF RowsOf, ChangeOf, Ran, InPass, PassVersion
  <2> QED
    BY <2>2, <2>3
<1>6. ASSUME NEW c \in Callbacks, RemoveCallback(c)
      PROVE  RowsOf(n)' /\ ChangeOf(n)'
  <2>1. UNCHANGED <<worker, sg, hasRun, alive, rows, change>>
    BY <1>6 DEF RemoveCallback, results, state
  <2>2. PICK m \in Notifiers : \E k \in DOMAIN callbacks[m] : Leaves(c, m, k)
    BY <1>6, Left
  <2>3. callbacks[n] = <<>> => callbacks'[n] = <<>>
    <3>1. SUFFICES ASSUME callbacks[n] = <<>> PROVE n # m
      BY <2>2 DEF Leaves
    <3>2. DOMAIN callbacks[n] = {}
      BY <3>1, <1>l, Members, EmptySeq
    <3> QED
      BY <2>2, <3>2
  <2> QED
    BY <2>1, <2>3, <1>2 DEF RowsOf, ChangeOf, Ran, InPass, PassVersion
<1>7. CASE StartRun
  <2>1. /\ UNCHANGED <<callbacks, sg, hasRun, alive, rows, change>> /\ ~Ran /\ ~Ran'
    BY <1>7, Starts DEF StartRun, cbs, results, state, Ran, Busy
  <2> QED
    BY <2>1, <1>2 DEF RowsOf, ChangeOf
<1>8. CASE RunNotifiers
  <2>1. /\ UNCHANGED <<callbacks, sg, hasRun, alive>> /\ ~Ran /\ Ran' /\ Busy
        /\ worker' = [worker EXCEPT !.pc = IF worker.pc = "skip" THEN "skipped" ELSE "finished"]
        /\ worker.pc \in {"skip", "final"}
    BY <1>8 DEF RunNotifiers, cbs, state, Ran, Busy, Core, TypeOK, WorkerOK
  <2>2. InPass' = InPass /\ PassVersion' = PassVersion /\ PassVersion \in Nat
    <3>1. /\ worker'.running = worker.running /\ worker'.fresh = worker.fresh
          /\ worker'.skip = worker.skip /\ worker'.version = worker.version
          /\ worker'.pc = IF worker.pc = "skip" THEN "skipped" ELSE "finished"
      BY <2>1 DEF Core, TypeOK, WorkerOK
    <3>2. PassVersion \in 1 .. latest
      BY <2>1, PassFacts
    <3> QED
      BY <2>1, <3>1, <3>2, <1>l DEF InPass, PassVersion
  <2>3. PICK used \in SUBSET {m \in InPass : hasRun[m] /\ ~haveCallbacks[m]} :
          /\ change' = [m \in Notifiers |->
                IF m \in {q \in InPass : NeedToRun(q, used)} /\ hasRun[m] /\ haveCallbacks[m]
                THEN rows[m] + 1 .. PassVersion ELSE {}]
          /\ rows' = [m \in Notifiers |-> IF m \in {q \in InPass : NeedToRun(q, used)}
                                          THEN PassVersion ELSE rows[m]]
    BY <1>8 DEF RunNotifiers
  <2>4. /\ change'[n] = IF n \in InPass /\ NeedToRun(n, used) /\ hasRun[n] /\ haveCallbacks[n]
                        THEN rows[n] + 1 .. PassVersion ELSE {}
        /\ rows'[n] = IF n \in InPass /\ NeedToRun(n, used) THEN PassVersion ELSE rows[n]
    BY <2>3
  <2>5. hasRun[n] /\ callbacks[n] # <<>> => rows[n] = sg[n]
    BY <2>1, <1>2 DEF RowsOf
  <2>6. callbacks[n] # <<>> => alive[n]
    BY <1>l DEF ListOf
  <2>7. ASSUME n \in InPass, callbacks[n] # <<>> \/ ~hasRun[n], alive[n]
        PROVE  rows'[n] = PassVersion
    BY <2>4, <2>7, <1>l DEF NeedToRun
  <2>8. ASSUME n \in InPass, hasRun[n], callbacks[n] # <<>>
        PROVE  change'[n] = sg[n] + 1 .. PassVersion
    <3>1. CASE rows[n] # PassVersion
      <4>1. NeedToRun(n, used)
        BY <3>1, <2>6, <2>8, <1>l DEF NeedToRun
      <4> QED
        BY <4>1, <2>4, <2>5, <2>8, <1>l
    <3>2. CASE rows[n] = PassVersion
      <4>1. ~NeedToRun(n, used)
        BY <3>2, <2>8 DEF NeedToRun
      <4>2. change'[n] = {} /\ sg[n] = PassVersion
        BY <4>1, <3>2, <2>4, <2>5, <2>8
      <4>3. sg[n] + 1 .. PassVersion = {}
        BY <4>2, <2>2
      <4> QED
        BY <4>2, <4>3
    <3> QED
      BY <3>1, <3>2
  <2>9. change'[n] # {} => n \in InPass /\ hasRun[n] /\ callbacks[n] # <<>>
    BY <2>4, <1>l
  <2>10. hasRun[n] /\ callbacks[n] # <<>> /\ n \notin InPass => rows'[n] = sg[n]
    BY <2>4, <2>5
  <2> QED
    BY <2>1, <2>2, <2>7, <2>8, <2>9, <2>10 DEF RowsOf, ChangeOf
<1>9. CASE PrepareHandover
  <2>1. /\ UNCHANGED <<callbacks, alive, rows>> /\ Ran /\ ~Ran' /\ change'[n] = {}
        /\ n \in InPass => sg'[n] = PassVersion
        /\ n \notin InPass => sg'[n] = sg[n] /\ hasRun'[n] = hasRun[n]
    <3>1. worker'.pc \notin {"skipped", "finished"}
      <4>1. worker' = [worker EXCEPT !.pc = "final"] \/ worker' = Asleep
        BY <1>9, HandsOver
      <4>2. worker'.pc = "final" \/ worker'.pc = "idle"
        BY <4>1 DEF Asleep, Core, TypeOK, WorkerOK
      <4> QED
        BY <4>2
    <3>2. UNCHANGED <<callbacks, alive, rows>> /\ change'[n] = {} /\ Ran
      BY <1>9 DEF PrepareHandover, cbs, Ran
    <3> QED
      BY <1>9, <3>1, <3>2, HandsOver DEF Ran
  <2>2. callbacks[n] # <<>> => alive[n]
    BY <1>l DEF ListOf
  <2>3. callbacks[n] # <<>> /\ n \in InPass => rows[n] = PassVersion
    BY <2>1, <2>2, <1>2 DEF RowsOf
  <2>4. callbacks[n] # <<>> /\ n \notin InPass /\ hasRun[n] => rows[n] = sg[n]
    BY <2>1, <1>2 DEF RowsOf
  <2> QED
    BY <2>1, <2>3, <2>4 DEF RowsOf, ChangeOf
<1>10. CASE UNCHANGED <<callbacks, worker, sg, hasRun, alive, rows, change>>
  BY <1>10, <1>2 DEF RowsOf, ChangeOf, Ran, InPass, PassVersion
<1> QED
  BY <1>3, <1>4, <1>5, <1>6, <1>7, <1>8, <1>9, <1>10, ComparedFrame

-----------------------------------------------------------------------------
(* What a callback has been told and is going to be told fits together.    *)

\* A callback that waits for its turn is given what its Realm has just become,
\* and what the worker adds meanwhile is later.
DueFits(n, i) ==
    LET c == callbacks[n][i] IN
    Due(n, i) => /\ current <= sg[n] /\ ~skipNext[c]
                 /\ accumulated[c] = current + 1 .. sg[n]
                 /\ told[c] > 0 => toDeliver[c] = (told[c] + 1 .. current) \ hushed[c]

\* One that knows of a version has everything from there to its notifier's
\* version ahead of it.  Its Realm is at most the version just written ahead
\* of the notifier, and then nothing is ahead of the callback.
RestFits(n, i) ==
    LET c == callbacks[n][i] IN
    ~Due(n, i) /\ told[c] > 0 =>
        /\ toDeliver[c] = {}
        /\ told[c] <= sg[n] /\ current - 1 <= sg[n]
        /\ accumulated[c] = (told[c] + 1 .. sg[n]) \ hushed[c]
        /\ sg[n] < current => accumulated[c] = {}

\* A callback that is to be skipped is up to date, and the next version its
\* notifier is given is the one to be skipped: the worker is going to stop there.
Spared(n, i) ==
    LET c == callbacks[n][i] IN
    /\ skipNext[c] =>
          /\ accumulated[c] = {}
          /\ \A v \in hushed[c] : v <= sg[n] + 1
          /\ c \in suppressing => sg[n] = latest
          /\ c \notin suppressing =>
                /\ sg[n] + 1 \in hushed[c]
                /\ \/ skipVersion = sg[n] + 1
                   \/ worker.pc \in {"skip", "skipped"} /\ worker.skip = sg[n] + 1
    /\ ~skipNext[c] /\ told[c] > 0 => \A v \in hushed[c] : v <= sg[n]

\* What a notifier whose callback has been called, or is to be skipped, has done.
Marked(n, i) ==
    LET c == callbacks[n][i] IN
    /\ told[c] > 0 \/ skipNext[c] => hasRun[n]
    /\ c \in suppressing => skipNext[c]

\* Whoever writes has been told everything.
Written(n, i) ==
    writing => hasRun[n] /\ sg[n] = latest /\ accumulated[callbacks[n][i]] = {}

FitsAt(n, i) == DueFits(n, i) /\ RestFits(n, i) /\ Spared(n, i) /\ Marked(n, i) /\ Written(n, i)
Carries ==
    /\ writing /\ Delivering => thread.op = "begin"
    /\ Delivering => \A n \in thread.package : current <= sg[n]
Fits ==
    incidents = {} => Carries /\ \A n \in Notifiers : \A i \in DOMAIN callbacks[n] : FitsAt(n, i)

\* Versions between: what is hushed up to b leaves what comes after b.
LEMMA AllHushed ==
    ASSUME NEW a \in Nat, NEW b \in Nat, NEW d \in Nat, a <= b, b <= d, NEW H \in SUBSET (1 .. b),
           (a + 1 .. b) \ H = {}
    PROVE  b + 1 .. d = (a + 1 .. d) \ H
OBVIOUS

\* What is hushed up to b takes nothing from what comes after b.
LEMMA Joined ==
    ASSUME NEW a \in Nat, NEW b \in Nat, NEW d \in Nat, a <= b, b <= d, NEW H \in SUBSET Nat,
           \A v \in H : v <= b
    PROVE  ((a + 1 .. b) \ H) \cup (b + 1 .. d) = (a + 1 .. d) \ H
OBVIOUS

\* A version to be skipped right after b leaves nothing to be told.
LEMMA OneHushed ==
    ASSUME NEW a \in Nat, NEW b \in Nat, a <= b, NEW H \in SUBSET Nat, (a + 1 .. b) \ H = {}, b + 1 \in H
    PROVE  (a + 1 .. b + 1) \ H = {}
OBVIOUS

\* What is known of a callback whatever has happened.
LEMMA Standing ==
    ASSUME Core, NEW n \in Notifiers, NEW i \in DOMAIN callbacks[n]
    PROVE  LET c == callbacks[n][i] IN
           /\ c \in Callbacks /\ c \in Token /\ NotifierOf(c) = n
           /\ told[c] \in 0 .. current /\ hushed[c] \in SUBSET (1 .. current)
           /\ sg[n] \in 1 .. latest /\ current \in 1 .. latest /\ latest \in Nat
           /\ alive[n] /\ haveCallbacks[n] /\ callbacks[n] # <<>>
           /\ n \in newNotifiers \cup notifiers /\ n \in NotifiersForRealm
           /\ i \in 1 .. Len(callbacks[n]) /\ Len(callbacks[n]) \in Nat
<1>1. /\ callbacks[n][i] \in Callbacks /\ i \in 1 .. Len(callbacks[n]) /\ Len(callbacks[n]) \in Nat
      /\ callbacks[n] # <<>> /\ haveCallbacks[n]
  BY Members DEF Core, TypeOK, CallbacksOK
<1>2. callbacks[n][i] \in Token /\ NotifierOf(callbacks[n][i]) = n
  BY Found DEF Core, TypeOK, Token, Registered, ToSet
<1>3. /\ sg[n] \in 1 .. latest /\ alive[n] /\ n \in newNotifiers \cup notifiers
      /\ n \in NotifiersForRealm
  <2>1. sg[n] # 0 /\ alive[n] /\ n \in newNotifiers \cup notifiers
    BY <1>1 DEF Core, Lists, ListOf
  <2>2. sg[n] \in 0 .. latest /\ latest \in Nat
    BY NotificationsAssumption DEF Core, TypeOK, NotifiersOK, FileOK, Version
  <2> QED
    BY <2>1, <2>2 DEF NotifiersForRealm, Alive
<1>4. current \in 1 .. latest /\ latest \in Nat
  BY NotificationsAssumption DEF Core, TypeOK, FileOK, Version
<1>5. told[callbacks[n][i]] >= 0
  BY DEF Core, Tokens
<1>6. told[callbacks[n][i]] \in {Removed, Unused} \cup 0 .. current
  BY <1>1 DEF Core, TypeOK, CallbackOK
<1>7. told[callbacks[n][i]] \in 0 .. current
  BY <1>4, <1>5, <1>6 DEF Removed, Unused
<1>8. hushed[callbacks[n][i]] \in SUBSET (1 .. current)
  BY <1>1 DEF Core, TypeOK, CallbackOK
<1> QED
  BY <1>1, <1>2, <1>3, <1>4, <1>7, <1>8

\* A callback that is due belongs to a notifier that has run.
LEMMA DueHasRun ==
    ASSUME Core, NEW n \in Notifiers, NEW i, Due(n, i)
    PROVE  hasRun[n]
BY DEF Due, Core, Calling

\* A callback is passed over when all that it could be told is hushed.
LEMMA PassedOver ==
    ASSUME Core, NEW n \in Notifiers, NEW i \in DOMAIN callbacks[n], Due(n, i), DueFits(n, i),
           ~HasNews(callbacks[n][i]), told[callbacks[n][i]] > 0
    PROVE  LET c == callbacks[n][i] IN
           /\ toDeliver[c] = {} /\ told[c] <= sg[n] /\ current - 1 <= sg[n] /\ ~(sg[n] < current)
           /\ accumulated[c] = (told[c] + 1 .. sg[n]) \ hushed[c]
<1> DEFINE c == callbacks[n][i]
<1>1. /\ current <= sg[n] /\ accumulated[c] = current + 1 .. sg[n]
      /\ toDeliver[c] = (told[c] + 1 .. current) \ hushed[c]
  BY DEF DueFits
<1>2. toDeliver[c] = {}
  BY DEF HasNews
<1>3. /\ told[c] \in 0 .. current /\ hushed[c] \in SUBSET (1 .. current)
      /\ sg[n] \in 1 .. latest /\ current \in 1 .. latest /\ latest \in Nat
  BY Standing
<1> HIDE DEF c
<1>4. /\ told[c] \in Nat /\ current \in Nat /\ sg[n] \in Nat /\ told[c] <= current
  BY <1>3
<1>5. current + 1 .. sg[n] = (told[c] + 1 .. sg[n]) \ hushed[c]
  BY <1>1, <1>2, <1>3, <1>4, AllHushed
<1>6. told[c] <= sg[n] /\ current - 1 <= sg[n] /\ ~(sg[n] < current)
  BY <1>1, <1>4
<1> QED
  BY <1>1, <1>2, <1>5, <1>6 DEF c

\* A callback that is to be skipped cannot be, once its Realm reads what its
\* notifier has: unless it is passed to a commit being made.
LEMMA NotSkipped ==
    ASSUME Core, NEW n \in Notifiers, NEW i \in DOMAIN callbacks[n], Spared(n, i),
           callbacks[n][i] \notin suppressing, current <= sg[n]
    PROVE  ~skipNext[callbacks[n][i]]
<1> DEFINE c == callbacks[n][i]
<1>1. hushed[c] \in SUBSET (1 .. current) /\ sg[n] \in 1 .. latest /\ current \in 1 .. latest /\ latest \in Nat
  BY Standing
<1>2. skipNext[c] => sg[n] + 1 \in hushed[c]
  BY DEF Spared
<1>3. sg[n] + 1 \notin 1 .. current
  BY <1>1
<1> QED
  BY <1>1, <1>2, <1>3

\* What a delivery starts with.  It brings the Realm to the version of the
\* notifiers packaged; the Realm is moved past no others with something to tell.
LEMMA DeliveryFits ==
    ASSUME Core, Fits, incidents = {}, ~Delivering, ~writing,
           NEW op, NEW s \in SUBSET Notifiers, Package(s), Deliver(op, s),
           UNCHANGED <<callbacks, index, sg, hasRun, told, skipNext, hushed, suppressing,
           skipVersion,
                       worker, latest>>,
           current' \in Nat, current <= current', writing' => op = "begin" /\ current' = latest,
           \A n \in s : sg[n] = current',
           \A n \in Notifiers \ s : callbacks[n] # <<>> /\ hasRun[n] => current' = current,
           writing' => \A n \in Notifiers : callbacks[n] # <<>> => n \in s /\ hasRun[n]
    PROVE  Carries' /\ \A n \in Notifiers : \A i \in DOMAIN callbacks[n] : FitsAt(n, i)'
<1>1. thread'.step = "delivering" /\ thread'.op = op /\ thread'.package = s
  BY DEF Deliver
<1>2. Carries'
  <2>1. \A n \in s : current' <= sg'[n]
    <3>1. \A n \in s : sg'[n] = current'
      OBVIOUS
    <3> QED
      BY <3>1
  <2> QED
    BY <1>1, <2>1 DEF Carries
<1>3. suppressing = {}
  BY DEF Core, Writing
<1>4. ASSUME NEW n \in Notifiers, NEW i \in DOMAIN callbacks[n]
      PROVE  FitsAt(n, i)'
  <2> DEFINE c == callbacks[n][i]
  <2>1. FitsAt(n, i) /\ ~Due(n, i)
    BY DEF Fits, Due
  <2>2. /\ c \in Callbacks /\ told[c] \in 0 .. current /\ hushed[c] \in SUBSET (1 .. current)
        /\ sg[n] \in 1 .. latest /\ current \in 1 .. latest /\ latest \in Nat /\ callbacks[n] # <<>>
        /\ i \in 1 .. Len(callbacks[n]) /\ Len(callbacks[n]) \in Nat
    BY <1>4, Standing
  <2>3. Marked(n, i)'
    BY <2>1 DEF FitsAt, Marked
  <2>4. CASE n \in s
    <3>1. accumulated'[c] = {} /\ toDeliver'[c] = accumulated[c]
      <4>1. \A j \in DOMAIN callbacks[n] : /\ toDeliver'[callbacks[n][j]] = accumulated[callbacks[n][j]]
                                           /\ accumulated'[callbacks[n][j]] = {}
        BY <2>4, Packaged
      <4> QED
        BY <4>1
    <3>2. Due(n, i)'
      BY <2>4, BecomeDue
    <3>3. sg[n] = current' /\ sg'[n] = current' /\ current <= sg[n]
      BY <2>4
    <3>4. ~skipNext[c]
      BY <1>3, <2>1, <3>3, NotSkipped DEF FitsAt
    <3>5. DueFits(n, i)'
      <4>1. current' + 1 .. sg'[n] = {}
        BY <3>3
      <4>2. told[c] > 0 => accumulated[c] = (told[c] + 1 .. sg[n]) \ hushed[c]
        BY <2>1 DEF FitsAt, RestFits
      <4>3. current' <= sg'[n]
        BY <3>3
      <4>4. told'[c] > 0 => toDeliver'[c] = (told'[c] + 1 .. current') \ hushed'[c]
        BY <3>1, <3>3, <4>2
      <4> HIDE DEF c
      <4>5. /\ ~skipNext'[c] /\ accumulated'[c] = current' + 1 .. sg'[n]
        BY <3>1, <3>4, <4>1
      <4> QED
        BY <4>3, <4>4, <4>5 DEF DueFits, c
    <3>6. RestFits(n, i)'
      BY <3>2 DEF RestFits
    <3>7. Spared(n, i)'
      BY <2>1, <3>4 DEF FitsAt, Spared
    <3>8. Written(n, i)'
      <4>1. writing' => hasRun'[n] /\ sg'[n] = latest'
        BY <2>2, <3>3
      <4> QED
        BY <3>1, <4>1 DEF Written
    <3> QED
      BY <2>3, <3>5, <3>6, <3>7, <3>8 DEF FitsAt
  <2>5. CASE n \notin s
    <3>1. accumulated'[c] = accumulated[c] /\ toDeliver'[c] = toDeliver[c]
      BY <2>5, Packaged
    <3>2. ~Due(n, i)' /\ ~writing'
      BY <1>1, <2>2, <2>5 DEF Due
    <3>3. told[c] > 0 => current' = current
      BY <2>1, <2>2, <2>5 DEF FitsAt, Marked
    <3>4. RestFits(n, i)'
      BY <2>1, <3>1, <3>3 DEF FitsAt, RestFits
    <3>5. Spared(n, i)'
      BY <2>1, <3>1 DEF FitsAt, Spared
    <3> QED
      BY <2>3, <3>2, <3>4, <3>5 DEF FitsAt, DueFits, Written
  <2> QED
    BY <2>4, <2>5
<1> QED
  BY <1>2, <1>4

\* process_available_async delivers what is ready at the Realm's version.
LEMMA ProcessFits ==
    ASSUME Core, Fits, incidents = {}, ProcessAvailable
    PROVE  Carries' /\ \A n \in Notifiers : \A i \in DOMAIN callbacks[n] : FitsAt(n, i)'
<1> DEFINE s == ReadyAt(current)
<1>1. /\ ~Delivering /\ ~writing /\ ~writing' /\ thread.step = "idle"
      /\ UNCHANGED <<callbacks, index, sg, hasRun, told, skipNext, hushed, suppressing, skipVersion,
                     worker, latest, current, writing>>
      /\ IF s = {} THEN NothingPackaged /\ UNCHANGED thread ELSE Package(s) /\ Deliver("process", s)
  BY DEF ProcessAvailable, Delivering, ghosts, file, realm, state
<1>2. s \in SUBSET Notifiers /\ current \in Nat /\ current <= current
  BY NotificationsAssumption
     DEF ReadyAt, Deliverable, NotifiersForRealm, Alive, Core, TypeOK, NotifiersOK, FileOK,
     Version
<1>3. \A n \in s : sg[n] = current
  BY DEF ReadyAt
<1> HIDE DEF s
<1>4. CASE s = {}
  <2>1. UNCHANGED <<thread, toDeliver, accumulated, count>>
    BY <1>1, <1>4 DEF NothingPackaged
  <2> QED
    BY <1>1, <2>1 DEF Fits, Carries, FitsAt, DueFits, RestFits, Spared, Marked, Written, Due,
       Delivering
<1>5. CASE s # {}
  BY <1>1, <1>2, <1>3, <1>5, DeliveryFits
<1> QED
  BY <1>4, <1>5

\* A callback that knows of a version belongs to a notifier that is ready.
LEMMA AllReady ==
    ASSUME Core, NEW n \in Notifiers, callbacks[n] # <<>>, hasRun[n]
    PROVE  n \in Deliverable(NotifiersForRealm)
BY DEF Core, Lists, ListOf, NotifiersForRealm, Alive, Deliverable

\* advance_to_ready, behind the notifiers, takes along what there is: nothing
\* that a callback of an earlier version could miss.
LEMMA AdvanceFits ==
    ASSUME Core, Fits, incidents = {}, AdvanceToReady
    PROVE  Carries' /\ \A n \in Notifiers : \A i \in DOMAIN callbacks[n] : FitsAt(n, i)'
<1> DEFINE s == Deliverable(NotifiersForRealm)
<1>1. /\ ~Delivering /\ ~writing /\ ~writing' /\ thread.step = "idle"
      /\ UNCHANGED <<callbacks, index, sg, hasRun, told, skipNext, hushed, suppressing, skipVersion,
                     worker, latest, writing>>
  BY DEF AdvanceToReady, Delivering, ghosts, file, state
<1>2. /\ IF s = {} THEN NothingPackaged ELSE Package(s)
      /\ IF s # {} /\ VersionOf(s) < current
         THEN current' = current /\ UNCHANGED thread
         ELSE /\ current' = IF s = {} THEN latest ELSE VersionOf(s)
              /\ IF s = {} THEN UNCHANGED thread ELSE Deliver("advance", s)
  BY DEF AdvanceToReady
<1>3. NotifiersForRealm \in SUBSET Notifiers /\ s \in SUBSET Notifiers
  BY DEF Deliverable, NotifiersForRealm, Alive, Core, TypeOK, NotifiersOK
<1>4. \A n \in s : sg[n] = VersionOf(s)
  BY <1>3, SharedVersion DEF Core
<1>5. /\ current \in Nat /\ current' \in Nat /\ current <= current'
      /\ s # {} => VersionOf(s) \in Nat
  <2>1. /\ current' \in current .. latest
    BY Advances
  <2>2. current \in Nat /\ latest \in Nat
    BY NotificationsAssumption DEF Core, TypeOK, FileOK, Version
  <2>3. s # {} => VersionOf(s) \in Version
    BY <1>3, ReadyVersion
  <2> QED
    BY <2>1, <2>2, <2>3, NotificationsAssumption DEF Version
<1>6. \A n \in Notifiers : callbacks[n] # <<>> /\ hasRun[n] => n \in s
  BY AllReady
<1>7. suppressing = {}
  BY <1>1 DEF Core, Writing
<1> HIDE DEF s
<1>8. CASE s # {} /\ ~(VersionOf(s) < current)
  <2>1. Package(s) /\ Deliver("advance", s) /\ current' = VersionOf(s)
    BY <1>2, <1>8
  <2>2. \A n \in s : sg[n] = current'
    BY <1>4, <2>1
  <2> QED
    BY <1>1, <1>3, <1>5, <1>6, <2>1, <2>2, DeliveryFits
<1>9. CASE ~(s # {} /\ ~(VersionOf(s) < current))
  <2>1. ~Delivering' /\ thread' = thread
    BY <1>1, <1>2, <1>9 DEF Delivering
  <2>2. Carries'
    BY <2>1 DEF Carries
  <2>3. ASSUME NEW n \in Notifiers, NEW i \in DOMAIN callbacks[n]
        PROVE  FitsAt(n, i)'
    <3> DEFINE c == callbacks[n][i]
    <3>1. FitsAt(n, i) /\ ~Due(n, i) /\ ~Due(n, i)'
      BY <1>1, <2>1 DEF Fits, Due, Delivering
    <3>2. c \in Callbacks /\ callbacks[n] # <<>>
      BY <2>3, Standing
    <3>3. c \notin suppressing
      BY <1>7
    <3>4. Marked(n, i)' /\ Written(n, i)'
      BY <1>1, <3>1 DEF FitsAt, Marked, Written
    <3>5. CASE ~hasRun[n]
      <4>1. ~(told[c] > 0) /\ ~skipNext[c]
        BY <3>1, <3>5 DEF FitsAt, Marked
      <4> QED
        BY <1>1, <3>1, <3>4, <4>1 DEF FitsAt, DueFits, RestFits, Spared
    <3>6. CASE hasRun[n]
      <4>1. n \in s /\ sg[n] = VersionOf(s)
        BY <1>4, <1>6, <3>2, <3>6
      <4>2. current' = current /\ Package(s) /\ sg[n] < current
        BY <1>2, <1>9, <4>1
      <4>3. accumulated'[c] = {} /\ toDeliver'[c] = accumulated[c]
        BY <1>3, <4>1, <4>2, Packaged
      <4>4. told[c] > 0 => accumulated[c] = {}
        BY <3>1, <4>2 DEF FitsAt, RestFits
      <4>5. RestFits(n, i)'
        BY <1>1, <3>1, <4>2, <4>3, <4>4 DEF FitsAt, RestFits
      <4>6. Spared(n, i)'
        BY <1>1, <3>1, <4>3 DEF FitsAt, Spared
      <4> QED
        BY <3>1, <3>4, <4>5, <4>6 DEF FitsAt, DueFits
    <3> QED
      BY <3>5, <3>6
  <2> QED
    BY <2>2, <2>3
<1> QED
  BY <1>8, <1>9

\* package_and_wait has all notifiers with callbacks at its target, or beyond.
LEMMA WaitFits ==
    ASSUME Core, Fits, incidents = {}, PackageAndWait
    PROVE  Carries' /\ \A n \in Notifiers : \A i \in DOMAIN callbacks[n] : FitsAt(n, i)'
<1> DEFINE s == Deliverable(thread.package)
           late == VersionOf(s) < thread.target
<1>1. /\ ~Delivering /\ ~writing /\ writing' = (thread.op = "begin") /\ thread.step = "waiting"
      /\ UNCHANGED <<callbacks, index, sg, hasRun, told, skipNext, hushed, suppressing, skipVersion,
                     worker, latest>>
      /\ ReadyFor(thread.package, thread.target)
      /\ thread.op = "begin" => thread.target = latest
      /\ IF s = {} THEN NothingPackaged ELSE Package(s)
      /\ current' = IF late \/ thread.op = "begin" THEN latest ELSE VersionOf(s)
      /\ IF late THEN thread' = NoOne ELSE Deliver(thread.op, s)
  BY DEF PackageAndWait, Delivering, ghosts, file, state, Core, Waiting
<1>2. thread.package \in SUBSET Notifiers /\ s \in SUBSET Notifiers
  BY DEF Deliverable, Core, TypeOK, ThreadOK
<1>3. \A n \in s : sg[n] = VersionOf(s)
  BY <1>2, SharedVersion DEF Core
<1>4. /\ current \in Nat /\ current' \in Nat /\ current <= current' /\ latest \in Nat
      /\ thread.target \in Nat /\ current <= thread.target /\ current > 0 /\ thread.target <= latest
      /\ s = {} => VersionOf(s) = 0
      /\ s # {} => VersionOf(s) \in Nat /\ VersionOf(s) <= latest
  <2>1. current' \in current .. latest
    BY Arrives
  <2>2. current \in Nat /\ latest \in Nat /\ current > 0 /\ thread.target \in 0 .. latest
    BY NotificationsAssumption DEF Core, TypeOK, FileOK, Version, ThreadOK
  <2>3. s # {} => VersionOf(s) \in Version /\ VersionOf(s) <= latest
    BY <1>2, ReadyVersion
  <2>4. s = {} => VersionOf(s) = 0
    BY VersionOfMember
  <2>5. current <= thread.target
    BY <1>1 DEF Core, Waiting
  <2> HIDE DEF s
  <2> QED
    BY <2>1, <2>2, <2>3, <2>4, <2>5, NotificationsAssumption DEF Version
<1>5. \A n \in Notifiers : callbacks[n] # <<>> => n \in s /\ hasRun[n] /\ sg[n] >= thread.target
  <2>1. SUFFICES ASSUME NEW n \in Notifiers, callbacks[n] # <<>>
                 PROVE  n \in s /\ hasRun[n] /\ sg[n] >= thread.target
    OBVIOUS
  <2>2. alive[n] /\ sg[n] # 0 /\ haveCallbacks[n]
    BY <2>1 DEF Core, Lists, ListOf, TypeOK, CallbacksOK
  <2>3. n \in thread.package
    BY <1>1, <2>2 DEF Core, Waiting
  <2> QED
    BY <1>1, <2>2, <2>3 DEF ReadyFor, Deliverable
<1> HIDE DEF s
<1>6. CASE late
  <2>1. \A n \in Notifiers : callbacks[n] = <<>>
    <3>1. SUFFICES ASSUME NEW n \in Notifiers, callbacks[n] # <<>> PROVE FALSE
      OBVIOUS
    <3>2. sg[n] = VersionOf(s) /\ sg[n] >= thread.target /\ s # {}
      BY <1>3, <1>5, <3>1
    <3> QED
      BY <1>4, <1>6, <3>2
  <2>2. \A n \in Notifiers : DOMAIN callbacks[n] = {}
    BY <2>1, EmptySeq
  <2>3. Carries'
    BY <1>1, <1>6 DEF Carries, Delivering, NoOne
  <2> QED
    BY <2>2, <2>3
<1>7. CASE ~late
  <2>1. s # {}
    BY <1>4, <1>7
  <2>2. VersionOf(s) \in Nat /\ VersionOf(s) <= latest /\ ~(VersionOf(s) < thread.target)
    BY <1>4, <1>7, <2>1
  <2>3. current' = VersionOf(s)
    <3>1. CASE thread.op = "begin"
      <4>1. current' = latest /\ thread.target = latest
        BY <1>1, <3>1
      <4> QED
        BY <2>2, <4>1, <1>4
    <3>2. CASE thread.op # "begin"
      BY <1>1, <1>7, <3>2
    <3> QED
      BY <3>1, <3>2
  <2>4. writing' => thread.op = "begin" /\ current' = latest
    BY <1>1
  <2>5. Package(s) /\ Deliver(thread.op, s)
    BY <1>1, <1>7, <2>1
  <2> HIDE DEF late
  <2>6. /\ \A n \in s : sg[n] = current'
        /\ \A n \in Notifiers \ s : callbacks[n] # <<>> /\ hasRun[n] => current' = current
        /\ writing' => \A n \in Notifiers : callbacks[n] # <<>> => n \in s /\ hasRun[n]
    BY <1>3, <1>5, <2>3
  <2> QED
    BY <1>1, <1>2, <1>4, <2>4, <2>5, <2>6, DeliveryFits
<1> QED
  BY <1>6, <1>7

\* The callback called knows what its Realm reads; those passed over had nothing
\* that is not hushed.
LEMMA CallFits ==
    ASSUME Core, Fits, incidents = {}, CallNext
    PROVE  Carries' /\ \A n \in Notifiers : \A i \in DOMAIN callbacks[n] : FitsAt(n, i)'
<1> DEFINE t == thread.turn
           k == NextIndex(t)
           c0 == callbacks[t][k]
<1>1. /\ Delivering /\ t \in Notifiers /\ t \in thread.package /\ k # npos
      /\ index' = [index EXCEPT ![t] = k]
      /\ toDeliver' = [toDeliver EXCEPT ![c0] = {}]
      /\ told' = [told EXCEPT ![c0] = current]
      /\ hushed' = [hushed EXCEPT ![c0] = IF skipNext[c0] THEN @ ELSE {}]
      /\ thread' = [thread EXCEPT !.step = "calling"]
      /\ UNCHANGED <<callbacks, count, accumulated, skipNext, current, latest, writing, sg, hasRun,
                     suppressing, skipVersion, worker>>
  BY Turn DEF CallNext, CallbackReturned, Delivering, file, realm, state
<1>2. /\ thread'.step = "calling" /\ thread'.package = thread.package /\ thread'.op = thread.op
  BY <1>1 DEF Core, TypeOK, ThreadOK
<1>3. /\ CallbacksOK /\ index[t] \in Nat /\ count[t] \in Int /\ Len(callbacks[t]) \in Nat
      /\ DOMAIN callbacks[t] = 1 .. Len(callbacks[t])
      /\ index[t] <= count[t] /\ count[t] <= Len(callbacks[t])
      /\ told \in [Callbacks -> {Removed, Unused} \cup 0 .. current]
      /\ toDeliver \in [Callbacks -> SUBSET Version]
      /\ hushed \in [Callbacks -> SUBSET (1 .. current)]
  BY <1>1, Members DEF Core, TypeOK, CallbacksOK, CallbackOK, Counted
<1>b. ~Beyond(t)
  BY <1>3 DEF Beyond
<1>4. Limit(t) = count[t]
  BY <1>1, <1>3, <1>b, NextDue
<1>5. /\ k \in index[t] + 1 .. Limit(t)
      /\ \A j \in index[t] + 1 .. k - 1 : ~HasNews(callbacks[t][j])
  BY <1>1, <1>3, NextDue
<1> HIDE DEF t, k
<1>6. k \in DOMAIN callbacks[t] /\ index[t] < k /\ k <= count[t] /\ k \in Int /\ index'[t] = k
  <2>1. k \in index[t] + 1 .. count[t]
    BY <1>4, <1>5
  <2>2. index'[t] = k
    BY <1>1 DEF Core, TypeOK, CallbacksOK
  <2>3. k \in 1 .. Len(callbacks[t]) /\ index[t] < k /\ k <= count[t] /\ k \in Int
    BY <1>3, <2>1
  <2> QED
    BY <1>3, <2>2, <2>3
<1>7. Due(t, k)
  BY <1>1, <1>6 DEF Due
<1>8. c0 \in Callbacks
  BY <1>1, <1>6, Standing
<1>9. Carries'
  BY <1>1, <1>2 DEF Fits, Carries, Delivering
<1>10. ASSUME NEW n \in Notifiers, NEW i \in DOMAIN callbacks[n]
       PROVE  FitsAt(n, i)'
  <2> DEFINE c == callbacks[n][i]
  <2>1. FitsAt(n, i)
    BY DEF Fits
  <2>2. /\ c \in Callbacks /\ told[c] \in 0 .. current /\ hushed[c] \in SUBSET (1 .. current)
        /\ sg[n] \in 1 .. latest /\ current \in 1 .. latest /\ latest \in Nat
        /\ i \in 1 .. Len(callbacks[n]) /\ Len(callbacks[n]) \in Nat
    BY <1>10, Standing
  <2>3. Written(n, i)'
    BY <1>1, <2>1 DEF FitsAt, Written
  <2>4. CASE n = t /\ i = k
    <3>1. hasRun[n] /\ ~Due(n, i)'
      BY <1>6, <1>7, <2>4, DueHasRun DEF Due
    <3>2. /\ current <= sg[n] /\ ~skipNext[c] /\ accumulated[c] = current + 1 .. sg[n]
      BY <1>7, <2>1, <2>4 DEF FitsAt, DueFits
    <3>3. told'[c] = current /\ toDeliver'[c] = {} /\ hushed'[c] = {}
      BY <1>1, <1>3, <1>8, <2>4, <3>2
    <3>4. Marked(n, i)'
      BY <1>1, <2>1, <3>1 DEF FitsAt, Marked
    <3> HIDE DEF c
    <3>5. /\ told'[c] <= sg[n] /\ current - 1 <= sg[n] /\ ~(sg[n] < current)
          /\ accumulated[c] = (told'[c] + 1 .. sg[n]) \ hushed'[c]
      BY <2>2, <3>2, <3>3
    <3>6. RestFits(n, i)'
      BY <1>1, <3>3, <3>5 DEF RestFits, c
    <3>7. Spared(n, i)'
      BY <1>1, <3>2, <3>3 DEF Spared, c
    <3> QED
      BY <2>3, <3>1, <3>4, <3>6, <3>7 DEF FitsAt, DueFits
  <2>5. CASE ~(n = t /\ i = k)
    <3>1. c # c0
      BY <1>1, <1>6, <2>5 DEF Core, Tokens
    <3>2. told'[c] = told[c] /\ toDeliver'[c] = toDeliver[c] /\ hushed'[c] = hushed[c]
      BY <1>1, <1>3, <2>2, <3>1
    <3>3. Marked(n, i)' /\ Spared(n, i)'
      BY <1>1, <2>1, <3>2 DEF FitsAt, Marked, Spared
    <3>4. Due(n, i)' => Due(n, i)
      <4>1. CASE n = t
        <5>1. index[n] < k /\ k \in Int /\ index[n] \in Int /\ i \in Int
          BY <1>3, <1>6, <2>2, <4>1
        <5>2. k < i => index[n] < i
          BY <5>1
        <5> QED
          BY <1>1, <1>2, <1>6, <4>1, <5>2 DEF Due, Delivering
      <4>2. CASE n # t
        <5>1. index'[n] = index[n]
          BY <1>1, <4>2 DEF Core, TypeOK, CallbacksOK
        <5> QED
          BY <1>1, <1>2, <5>1 DEF Due, Delivering
      <4> QED
        BY <4>1, <4>2
    <3>5. DueFits(n, i)'
      BY <1>1, <2>1, <3>2, <3>4 DEF FitsAt, DueFits
    <3>6. CASE ~Due(n, i)
      <4>1. RestFits(n, i)'
        BY <1>1, <2>1, <3>2, <3>4, <3>6 DEF FitsAt, RestFits
      <4> QED
        BY <2>3, <3>3, <3>5, <4>1 DEF FitsAt
    <3>7. CASE Due(n, i) /\ Due(n, i)'
      <4>1. RestFits(n, i)'
        BY <3>7 DEF RestFits
      <4> QED
        BY <2>3, <3>3, <3>5, <4>1 DEF FitsAt
    <3>8. CASE Due(n, i) /\ ~Due(n, i)'
      <4>1. n = t
        <5>1. SUFFICES ASSUME n # t PROVE FALSE
          OBVIOUS
        <5>2. index'[n] = index[n]
          BY <1>1, <5>1 DEF Core, TypeOK, CallbacksOK
        <5> QED
          BY <1>1, <1>2, <3>8, <5>2 DEF Due, Delivering
      <4>2. ~(k < i) /\ i # k
        BY <1>1, <1>2, <1>6, <2>5, <3>8, <4>1 DEF Due, Delivering
      <4>3. i \in index[t] + 1 .. k - 1
        <5>1. index[t] < i
          BY <3>8, <4>1 DEF Due
        <5> QED
          BY <1>3, <1>6, <2>2, <4>2, <5>1
      <4>4. ~HasNews(c)
        BY <1>5, <4>1, <4>3
      <4>5. told[c] > 0 =>
              /\ toDeliver[c] = {} /\ told[c] <= sg[n] /\ current - 1 <= sg[n] /\ ~(sg[n] < current)
              /\ accumulated[c] = (told[c] + 1 .. sg[n]) \ hushed[c]
        BY <2>1, <3>8, <4>4, PassedOver DEF FitsAt
      <4>6. RestFits(n, i)'
        BY <1>1, <3>2, <4>5 DEF RestFits
      <4> QED
        BY <2>3, <3>3, <3>5, <4>6 DEF FitsAt
    <3> QED
      BY <3>6, <3>7, <3>8
  <2> QED
    BY <2>4, <2>5
<1> QED
  BY <1>9, <1>10

\* The notifier left has told its callbacks everything.
LEMMA FinishFits ==
    ASSUME Core, Fits, incidents = {}, FinishNotifier
    PROVE  Carries' /\ \A n \in Notifiers : \A i \in DOMAIN callbacks[n] : FitsAt(n, i)'
<1> DEFINE t == thread.turn
           rest == thread.package \ {t}
<1>1. /\ Delivering /\ t \in Notifiers /\ t \in thread.package /\ NextIndex(t) = npos
      /\ index' = [index EXCEPT ![t] = npos]
      /\ UNCHANGED <<callbacks, count, told, toDeliver, hushed, accumulated, skipNext, current, latest,
                     writing, sg, hasRun, suppressing, skipVersion, worker>>
      /\ IF Beyond(t) THEN thread' = [thread EXCEPT !.step = "undefined"]
         ELSE IF rest = {} THEN thread' = NoOne
         ELSE Deliver(thread.op, rest)
  BY Turn DEF FinishNotifier, CallbackReturned, Delivering, file, state, cbData, ghosts
<1>2. /\ CallbacksOK /\ index[t] \in Nat /\ count[t] \in Int /\ Len(callbacks[t]) \in Nat
      /\ index[t] <= count[t] /\ count[t] <= Len(callbacks[t])
  BY <1>1, Members DEF Core, TypeOK, CallbacksOK, Counted
<1>b. ~Beyond(t)
  BY <1>2 DEF Beyond
<1>3. ~Beyond(t) /\ Limit(t) = count[t]
  BY <1>1, <1>2, <1>b, NextDue
<1>4. \A j \in index[t] + 1 .. count[t] : ~HasNews(callbacks[t][j])
  BY <1>1, <1>2, <1>3, NextDue
<1> HIDE DEF t
<1>5. \/ rest = {} /\ ~Delivering'
      \/ Delivering' /\ thread'.package = rest /\ thread'.op = thread.op
  BY <1>1, <1>3 DEF Deliver, Delivering, NoOne
<1>6. Carries'
  BY <1>1, <1>5 DEF Fits, Carries
<1>7. ASSUME NEW n \in Notifiers, NEW i \in DOMAIN callbacks[n]
      PROVE  FitsAt(n, i)'
  <2>1. FitsAt(n, i) /\ i \in 1 .. Len(callbacks[n]) /\ Len(callbacks[n]) \in Nat
    BY Standing DEF Fits
  <2>2. Written(n, i)' /\ Marked(n, i)' /\ Spared(n, i)'
    BY <1>1, <2>1 DEF FitsAt, Written, Marked, Spared
  <2>3. CASE n # t
    <3>1. index'[n] = index[n]
      BY <1>1, <2>3 DEF Core, TypeOK, CallbacksOK
    <3>2. Due(n, i)' <=> Due(n, i)
      BY <1>1, <1>5, <2>3, <3>1 DEF Due
    <3> QED
      BY <1>1, <2>1, <2>2, <3>2 DEF FitsAt, DueFits, RestFits
  <2>4. CASE n = t
    <3>1. ~Due(n, i)'
      BY <1>5, <2>4 DEF Due
    <3>2. CASE ~Due(n, i)
      BY <1>1, <2>1, <2>2, <3>1, <3>2 DEF FitsAt, DueFits, RestFits
    <3>3. CASE Due(n, i)
      <4>1. i \in index[t] + 1 .. count[t]
        BY <1>2, <2>1, <2>4, <3>3 DEF Due
      <4>2. ~HasNews(callbacks[n][i])
        BY <1>4, <2>4, <4>1
      <4>3. told[callbacks[n][i]] > 0 =>
              LET c == callbacks[n][i] IN
              /\ toDeliver[c] = {} /\ told[c] <= sg[n] /\ current - 1 <= sg[n] /\ ~(sg[n] < current)
              /\ accumulated[c] = (told[c] + 1 .. sg[n]) \ hushed[c]
        BY <2>1, <3>3, <4>2, PassedOver DEF FitsAt
      <4>4. RestFits(n, i)'
        BY <1>1, <4>3 DEF RestFits
      <4> QED
        BY <2>2, <3>1, <4>4 DEF FitsAt, DueFits
    <3> QED
      BY <3>2, <3>3
  <2> QED
    BY <2>3, <2>4
<1> QED
  BY <1>6, <1>7

\* A write tells the notifiers' callbacks nothing, and skips those passed to it.
LEMMA SuppressFits ==
    ASSUME Core, Fits, incidents = {}, NEW c0 \in Callbacks, Suppress(c0)
    PROVE  Carries' /\ \A n \in Notifiers : \A i \in DOMAIN callbacks[n] : FitsAt(n, i)'
<1>1. /\ writing /\ suppressing' = suppressing \cup {c0} /\ skipNext' = [skipNext EXCEPT ![c0] = TRUE]
      /\ UNCHANGED <<thread, index, callbacks, count, told, toDeliver, hushed, accumulated, current,
                     latest, writing, sg, hasRun, skipVersion, worker>>
  BY DEF Suppress, MayEndWrite, file, realm, state, cbs, ghosts
<1>2. ~Delivering
  BY DEF Suppress, MayEndWrite, Fits, Carries, Delivering
<1>3. Carries'
  BY <1>1, <1>2 DEF Carries, Delivering
<1>4. ASSUME NEW n \in Notifiers, NEW i \in DOMAIN callbacks[n]
      PROVE  FitsAt(n, i)'
  <2> DEFINE c == callbacks[n][i]
  <2>1. FitsAt(n, i) /\ ~Due(n, i) /\ ~Due(n, i)'
    BY <1>1, <1>2 DEF Fits, Due, Delivering
  <2>2. /\ c \in Callbacks /\ hushed[c] \in SUBSET (1 .. current)
        /\ current \in 1 .. latest /\ latest \in Nat
    BY <1>4, Standing
  <2>3. hasRun[n] /\ sg[n] = latest /\ accumulated[c] = {}
    BY <1>1, <2>1 DEF FitsAt, Written
  <2>4. Written(n, i)' /\ RestFits(n, i)' /\ DueFits(n, i)'
    BY <1>1, <2>1 DEF FitsAt, Written, RestFits, DueFits
  <2>5. skipNext'[c] = (skipNext[c] \/ c = c0)
    BY <1>1, <2>2 DEF Core, TypeOK, CallbackOK
  <2>6. Marked(n, i)'
    BY <1>1, <2>1, <2>3, <2>5 DEF FitsAt, Marked
  <2>7. Spared(n, i)'
    <3>1. CASE c = c0
      <4>1. \A v \in hushed[c] : v <= sg[n] + 1
        <5> HIDE DEF c
        <5> QED
          BY <2>2, <2>3
      <4> QED
        BY <1>1, <2>3, <2>5, <3>1, <4>1 DEF Spared
    <3>2. CASE c # c0
      BY <1>1, <2>1, <2>5, <3>2 DEF FitsAt, Spared
    <3> QED
      BY <3>1, <3>2
  <2> QED
    BY <2>4, <2>6, <2>7 DEF FitsAt
<1> QED
  BY <1>3, <1>4

\* A commit is one version ahead of the notifiers, and of the callbacks.
LEMMA CommitFits ==
    ASSUME Core, Fits, incidents = {}, CommitWrite
    PROVE  Carries' /\ \A n \in Notifiers : \A i \in DOMAIN callbacks[n] : FitsAt(n, i)'
<1>1. /\ writing /\ ~writing' /\ suppressing' = {} /\ latest' = latest + 1 /\ current' = latest + 1
      /\ skipVersion' = SkipVersionAfter(latest + 1)
      /\ hushed' = [c \in Callbacks |-> IF c \in suppressing THEN hushed[c] \cup {latest + 1} ELSE hushed[c]]
      /\ UNCHANGED <<thread, index, callbacks, count, told, toDeliver, skipNext, accumulated,
                     sg, hasRun, worker>>
  BY DEF CommitWrite, MayEndWrite, state, cbs, cbData
<1>2. ~Delivering /\ ~Delivering'
  BY <1>1 DEF CommitWrite, MayEndWrite, Fits, Carries, Delivering
<1>3. Carries'
  BY <1>2 DEF Carries
<1>4. current = latest
  BY <1>1 DEF Core, Writing
<1>5. ASSUME NEW n \in Notifiers, NEW i \in DOMAIN callbacks[n]
      PROVE  FitsAt(n, i)'
  <2> DEFINE c == callbacks[n][i]
  <2>1. FitsAt(n, i) /\ ~Due(n, i) /\ ~Due(n, i)'
    BY <1>1, <1>2 DEF Fits, Due
  <2>2. /\ c \in Callbacks /\ hushed[c] \in SUBSET (1 .. current) /\ told[c] \in 0 .. current
        /\ current \in 1 .. latest /\ latest \in Nat
    BY <1>5, Standing
  <2>3. hasRun[n] /\ sg[n] = latest /\ accumulated[c] = {}
    BY <1>1, <2>1 DEF FitsAt, Written
  <2>4. hushed'[c] = IF c \in suppressing THEN hushed[c] \cup {latest + 1} ELSE hushed[c]
    BY <1>1, <2>2
  <2>5. Written(n, i)' /\ Marked(n, i)' /\ DueFits(n, i)'
    BY <1>1, <2>1, <2>3 DEF FitsAt, Written, Marked, DueFits
  <2>6. RestFits(n, i)'
    <3>1. told[c] > 0 => /\ toDeliver[c] = {}
                         /\ accumulated[c] = (told[c] + 1 .. sg[n]) \ hushed[c]
      BY <2>1 DEF FitsAt, RestFits
    <3> HIDE DEF c
    <3>2. (told[c] + 1 .. sg[n]) \ hushed[c] = (told[c] + 1 .. sg[n]) \ hushed'[c]
      BY <2>2, <2>3, <2>4
    <3>3. told[c] <= sg[n] /\ current' - 1 <= sg[n]
      BY <1>1, <1>4, <2>2, <2>3
    <3> QED
      BY <1>1, <2>3, <3>1, <3>2, <3>3 DEF RestFits, c
  <2>7. ASSUME skipNext[c]
        PROVE  c \in suppressing
    BY <1>4, <2>1, <2>3, <2>7, NotSkipped, <2>2 DEF FitsAt
  <2>8. c \in suppressing => skipNext[c]
    BY <2>1 DEF FitsAt, Marked
  <2>9. skipVersion' = latest + 1
    <3>1. n \in notifiers /\ alive[n]
      BY <2>3, <1>5, Standing DEF Core, Lists, ListOf
    <3>2. HaveNotifiers
      BY <3>1 DEF HaveNotifiers, Alive
    <3> QED
      BY <1>1, <3>2 DEF SkipVersionAfter
  <2>10. Spared(n, i)'
    <3>1. /\ sg'[n] = latest /\ skipNext'[c] = skipNext[c] /\ accumulated'[c] = {}
          /\ c \notin suppressing' /\ told'[c] = told[c]
      BY <1>1, <2>3
    <3>2. \A v \in hushed[c] : v <= latest
      <4> HIDE DEF c
      <4> QED
        BY <2>2, <1>4
    <3>3. skipNext[c] => latest + 1 \in hushed'[c] /\ \A v \in hushed'[c] : v <= latest + 1
      <4>1. skipNext[c] => hushed'[c] = hushed[c] \cup {latest + 1}
        BY <2>4, <2>7
      <4>2. \A v \in hushed[c] : v <= latest + 1
        <5> HIDE DEF c
        <5> QED
          BY <2>2, <1>4
      <4> HIDE DEF c
      <4>3. latest + 1 <= latest + 1
        BY <2>2
      <4> QED
        BY <4>1, <4>2, <4>3
    <3>4. ~skipNext[c] => hushed'[c] = hushed[c]
      BY <2>4, <2>8
    <3>5. /\ skipNext'[c] => sg'[n] + 1 \in hushed'[c] /\ \A v \in hushed'[c] : v <= sg'[n] + 1
          /\ ~skipNext'[c] => \A v \in hushed'[c] : v <= sg'[n]
          /\ skipVersion' = sg'[n] + 1
      BY <2>9, <3>1, <3>2, <3>3, <3>4
    <3> HIDE DEF c
    <3>6. c = callbacks'[n][i]
      BY <1>1 DEF c
    <3> QED
      BY <3>1, <3>5, <3>6 DEF Spared
  <2> QED
    BY <2>5, <2>6, <2>10 DEF FitsAt
<1> QED
  BY <1>3, <1>5

\* A commit of another Realm leaves the skip that is on its way alone.
LEMMA ElsewhereFits ==
    ASSUME Core, Fits, incidents = {}, incidents' = {}, CommitElsewhere
    PROVE  Carries' /\ \A n \in Notifiers : \A i \in DOMAIN callbacks[n] : FitsAt(n, i)'
<1>1. /\ ~writing /\ latest' = latest + 1
      /\ UNCHANGED <<thread, index, callbacks, count, told, toDeliver, skipNext, accumulated, hushed,
                     sg, hasRun, worker, writing, suppressing, current>>
      /\ skipVersion' = skipVersion \/ skipVersion = NoSkip
  BY DEF CommitElsewhere, realm, state, cbs, cbData, Happened
<1>2. suppressing = {}
  BY <1>1 DEF Core, Writing
<1>3. Carries'
  BY <1>1 DEF Fits, Carries, Delivering
<1>4. ASSUME NEW n \in Notifiers, NEW i \in DOMAIN callbacks[n]
      PROVE  FitsAt(n, i)'
  <2>1. FitsAt(n, i)
    BY DEF Fits
  <2>2. sg[n] \in 1 .. latest /\ latest \in Nat
    BY <1>4, Standing
  <2>3. sg[n] + 1 # NoSkip
    BY <2>2 DEF NoSkip
  <2>4. Due(n, i)' <=> Due(n, i)
    BY <1>1 DEF Due, Delivering
  <2>5. DueFits(n, i)' /\ RestFits(n, i)' /\ Marked(n, i)' /\ Written(n, i)'
    BY <1>1, <2>1, <2>4 DEF FitsAt, DueFits, RestFits, Marked, Written
  <2>6. Spared(n, i)'
    BY <1>1, <1>2, <2>1, <2>3 DEF FitsAt, Spared
  <2> QED
    BY <2>5, <2>6 DEF FitsAt
<1> QED
  BY <1>3, <1>4

\* The worker takes the version to be skipped over from the coordinator.
LEMMA StartFits ==
    ASSUME Core, Fits, incidents = {}, StartRun
    PROVE  Carries' /\ \A n \in Notifiers : \A i \in DOMAIN callbacks[n] : FitsAt(n, i)'
<1>1. UNCHANGED <<thread, index, callbacks, count, told, toDeliver, skipNext, accumulated, hushed,
                  sg, hasRun, writing, suppressing, current, latest>>
  BY DEF StartRun, realm, state, cbs, cbData
<1>2. Carries'
  BY <1>1 DEF Fits, Carries, Delivering
<1>3. ASSUME NEW n \in Notifiers, NEW i \in DOMAIN callbacks[n]
      PROVE  FitsAt(n, i)'
  <2> DEFINE c == callbacks[n][i]
  <2>1. FitsAt(n, i)
    BY DEF Fits
  <2>2. sg[n] \in 1 .. latest /\ latest \in Nat /\ alive[n] /\ n \in newNotifiers \cup notifiers
    BY <1>3, Standing
  <2>3. sg[n] + 1 # NoSkip
    BY <2>2 DEF NoSkip
  <2>4. Due(n, i)' <=> Due(n, i)
    BY <1>1 DEF Due, Delivering
  <2>5. DueFits(n, i)' /\ RestFits(n, i)' /\ Marked(n, i)' /\ Written(n, i)'
    BY <1>1, <2>1, <2>4 DEF FitsAt, DueFits, RestFits, Marked, Written
  <2>6. ASSUME skipNext[c], c \notin suppressing
        PROVE  worker'.pc = "skip" /\ worker'.skip = sg[n] + 1
    <3>1. n \in notifiers
      BY <2>1, <2>2, <2>6 DEF FitsAt, Marked, Core, Lists, ListOf
    <3>2. n \in Alive(notifiers) /\ n \in Alive(notifiers \cup newNotifiers)
      BY <2>2, <3>1 DEF Alive
    <3>3. skipVersion = sg[n] + 1
      <4>1. worker.pc = "idle"
        BY DEF StartRun
      <4> QED
        BY <2>1, <2>6, <4>1 DEF FitsAt, Spared
    <3>4. SkipAfterCleanUp = skipVersion
      BY <3>2 DEF SkipAfterCleanUp, NoNotifiersLeft
    <3> QED
      BY <2>3, <3>2, <3>3, <3>4, Starts
  <2>7. Spared(n, i)'
    BY <1>1, <2>1, <2>6 DEF FitsAt, Spared
  <2> QED
    BY <2>5, <2>7 DEF FitsAt
<1> QED
  BY <1>2, <1>3

\* A handover gives each notifier with something to tell the version of the
\* pass, and each of its callbacks the changes up to it, or uses up its skip.
LEMMA HandoverFits ==
    ASSUME Core, Fits, Compared, incidents = {}, incidents' = {}, PrepareHandover
    PROVE  Carries' /\ \A n \in Notifiers : \A i \in DOMAIN callbacks[n] : FitsAt(n, i)'
<1> DEFINE informed == {c \in Token : NotifierOf(c) \in InPass}
<1>1. /\ UNCHANGED <<thread, index, callbacks, count, told, toDeliver, hushed, writing, suppressing,
                     current, latest>>
      /\ skipNext' = [c \in Callbacks |-> skipNext[c] /\ c \notin informed]
      /\ accumulated' = [c \in Callbacks |->
              IF c \in informed /\ ~skipNext[c]
              THEN accumulated[c] \cup change[NotifierOf(c)] ELSE accumulated[c]]
      /\ \A c \in informed : ~Hasty(c)
  BY DEF PrepareHandover, realm, cbs, Happened
<1>2. /\ Busy /\ Ran
      /\ \A n \in InPass : sg'[n] = PassVersion /\ hasRun'[n]
      /\ \A n \in Notifiers \ InPass : sg'[n] = sg[n] /\ hasRun'[n] = hasRun[n]
  BY HandsOver DEF Ran
<1>3. /\ PassVersion \in 1 .. latest /\ PassVersion <= worker.version
      /\ \A n \in InPass : sg[n] <= PassVersion
      /\ latest \in Nat /\ worker.version \in 0 .. latest
  BY <1>2, PassFacts, NotificationsAssumption DEF Core, TypeOK, FileOK, Version, WorkerOK
<1>4. ASSUME NEW n \in Notifiers
      PROVE  sg[n] \in 0 .. latest /\ sg'[n] \in 0 .. latest /\ sg[n] <= sg'[n]
  <2>1. sg[n] \in 0 .. latest
    BY DEF Core, TypeOK, NotifiersOK
  <2> QED
    BY <1>2, <1>3, <2>1
<1>5. Carries'
  <2>1. Delivering => \A n \in thread.package : n \in Notifiers /\ current <= sg[n]
    BY DEF Fits, Carries, Core, TypeOK, ThreadOK
  <2>2. current \in Nat
    BY NotificationsAssumption DEF Core, TypeOK, FileOK, Version
  <2>3. Delivering => \A n \in thread.package : current <= sg'[n]
    BY <1>3, <1>4, <2>1, <2>2
  <2> QED
    BY <1>1, <2>3 DEF Fits, Carries, Delivering
<1>6. ASSUME NEW n \in Notifiers, NEW i \in DOMAIN callbacks[n]
      PROVE  FitsAt(n, i)'
  <2> DEFINE c == callbacks[n][i]
  <2>1. FitsAt(n, i)
    BY DEF Fits
  <2>2. /\ c \in Callbacks /\ c \in Token /\ NotifierOf(c) = n
        /\ told[c] \in 0 .. current /\ hushed[c] \in SUBSET (1 .. current)
        /\ sg[n] \in 1 .. latest /\ current \in 1 .. latest /\ latest \in Nat
        /\ alive[n] /\ callbacks[n] # <<>> /\ n \in newNotifiers \cup notifiers
    BY <1>6, Standing
  <2>3. Due(n, i)' <=> Due(n, i)
    BY <1>1 DEF Due, Delivering
  <2>4. hasRun[n] => n \in InPass
    <3>1. hasRun[n] => n \in notifiers
      BY <2>2 DEF Core, Lists, ListOf
    <3>2. n \in notifiers => n \in worker.running \cup worker.fresh
      BY <1>2, <2>2 DEF Core, Lists, ListOf
    <3>3. hasRun[n] => n \notin worker.fresh
      BY <1>2 DEF Core, Passes, PassOf
    <3> QED
      BY <3>1, <3>2, <3>3 DEF InPass
  <2>5. c \in informed <=> n \in InPass
    BY <2>2
  <2>6. /\ skipNext'[c] = (skipNext[c] /\ n \notin InPass)
        /\ accumulated'[c] = IF n \in InPass /\ ~skipNext[c]
                             THEN accumulated[c] \cup change[n] ELSE accumulated[c]
        /\ n \in InPass => ~Hasty(c)
    BY <1>1, <2>2, <2>5
  <2> HIDE DEF informed
  <2>7. Due(n, i) => hasRun[n]
    BY DueHasRun
  <2>8. CASE ~hasRun[n]
    <3>1. ~(told[c] > 0) /\ ~skipNext[c] /\ ~Due(n, i) /\ c \notin suppressing /\ ~writing
      BY <2>1, <2>7, <2>8 DEF FitsAt, Marked, Written
    <3>2. ~(told'[c] > 0) /\ ~skipNext'[c] /\ ~Due(n, i)' /\ c \notin suppressing' /\ ~writing'
      BY <1>1, <2>3, <2>6, <3>1
    <3> HIDE DEF c
    <3>3. c = callbacks'[n][i]
      BY <1>1 DEF c
    <3> QED
      BY <3>2, <3>3 DEF FitsAt, DueFits, RestFits, Spared, Marked, Written
  <2>9. CASE hasRun[n] /\ skipNext[c]
    <3>1. n \in InPass /\ sg'[n] = PassVersion /\ hasRun'[n] /\ ~skipNext'[c] /\ accumulated'[c] = accumulated[c]
      BY <1>2, <2>4, <2>6, <2>9
    <3>2. c \notin suppressing /\ \A v \in hushed[c] : ~(v > PassVersion)
      BY <2>6, <2>9, <3>1 DEF Hasty
    <3>3. /\ accumulated[c] = {} /\ sg[n] + 1 \in hushed[c] /\ \A v \in hushed[c] : v <= sg[n] + 1
          /\ \/ skipVersion = sg[n] + 1
             \/ worker.pc \in {"skip", "skipped"} /\ worker.skip = sg[n] + 1
      BY <2>1, <2>9, <3>2 DEF FitsAt, Spared
    <3>4. ~Due(n, i)
      BY <2>1, <2>9 DEF FitsAt, DueFits
    <3>5. PassVersion = sg[n] + 1
      <4>1. sg[n] + 1 <= PassVersion
        BY <1>3, <2>2, <3>2, <3>3
      <4>2. CASE skipVersion = sg[n] + 1
        <5>1. worker.version < skipVersion
          BY <1>2, <2>2, <4>2 DEF Core, Skips, NoSkip
        <5> QED
          BY <1>3, <2>2, <4>1, <4>2, <5>1
      <4>3. CASE worker.pc \in {"skip", "skipped"} /\ worker.skip = sg[n] + 1
        BY <4>3, PassFacts
      <4> QED
        BY <3>3, <4>2, <4>3
    <3>6. ~writing
      <4>1. writing => sg[n] = latest
        BY <2>1 DEF FitsAt, Written
      <4> QED
        BY <1>3, <2>2, <3>5, <4>1
    <3>7. told[c] > 0 =>
            /\ toDeliver[c] = {} /\ told[c] <= sg[n] /\ current - 1 <= sg[n]
            /\ accumulated[c] = (told[c] + 1 .. sg[n]) \ hushed[c]
      BY <2>1, <3>4 DEF FitsAt, RestFits
    <3> HIDE DEF c
    <3>8. c = callbacks'[n][i] /\ told'[c] = told[c] /\ toDeliver'[c] = toDeliver[c]
          /\ hushed'[c] = hushed[c] /\ ~Due(n, i)' /\ c \notin suppressing' /\ ~writing'
          /\ current' = current
      BY <1>1, <2>3, <3>2, <3>4, <3>6 DEF c
    <3>9. ASSUME told[c] > 0
          PROVE  /\ told[c] <= sg'[n] /\ current - 1 <= sg'[n]
                 /\ (told[c] + 1 .. sg'[n]) \ hushed[c] = {}
      <4>1. told[c] \in Nat /\ sg[n] \in Nat /\ told[c] <= sg[n] /\ hushed[c] \in SUBSET Nat
        BY <2>2, <3>7, <3>9
      <4>2. (told[c] + 1 .. sg[n]) \ hushed[c] = {} /\ sg[n] + 1 \in hushed[c]
        BY <3>3, <3>7, <3>9
      <4>3. (told[c] + 1 .. sg[n] + 1) \ hushed[c] = {}
        BY <4>1, <4>2, OneHushed
      <4>4. told[c] <= sg'[n] /\ current - 1 <= sg'[n]
        BY <2>2, <3>1, <3>5, <3>7, <3>9
      <4> QED
        BY <3>1, <3>5, <4>3, <4>4
    <3>10. \A v \in hushed[c] : v <= sg'[n]
      BY <3>1, <3>3, <3>5
    <3>11. RestFits(n, i)'
      BY <3>1, <3>3, <3>7, <3>8, <3>9 DEF RestFits
    <3>12. Spared(n, i)'
      BY <3>1, <3>8, <3>10 DEF Spared
    <3> QED
      BY <3>1, <3>8, <3>11, <3>12 DEF FitsAt, DueFits, Marked, Written
  <2>10. CASE hasRun[n] /\ ~skipNext[c]
    <3>1. n \in InPass /\ sg'[n] = PassVersion /\ hasRun'[n] /\ ~skipNext'[c]
          /\ accumulated'[c] = accumulated[c] \cup change[n]
      BY <1>2, <2>4, <2>6, <2>10
    <3>2. change[n] = sg[n] + 1 .. PassVersion
      BY <1>2, <2>2, <2>10, <3>1 DEF Compared, ChangeOf
    <3>3. c \notin suppressing
      BY <2>1, <2>10 DEF FitsAt, Marked
    <3>4. sg[n] <= PassVersion /\ PassVersion \in Nat /\ sg[n] \in Nat /\ current \in Nat
          /\ told[c] \in Nat /\ hushed[c] \in SUBSET Nat
      BY <1>3, <2>2, <3>1
    <3>5. Due(n, i) => /\ current <= sg[n] /\ accumulated[c] = current + 1 .. sg[n]
                       /\ told[c] > 0 => toDeliver[c] = (told[c] + 1 .. current) \ hushed[c]
      BY <2>1 DEF FitsAt, DueFits
    <3>6. ~Due(n, i) /\ told[c] > 0 =>
            /\ toDeliver[c] = {} /\ told[c] <= sg[n] /\ current - 1 <= sg[n]
            /\ accumulated[c] = (told[c] + 1 .. sg[n]) \ hushed[c]
            /\ sg[n] < current => accumulated[c] = {}
      BY <2>1 DEF FitsAt, RestFits
    <3>7. told[c] > 0 => \A v \in hushed[c] : v <= sg[n]
      BY <2>1, <2>10 DEF FitsAt, Spared
    <3>8. writing => sg[n] = latest /\ accumulated[c] = {}
      BY <2>1 DEF FitsAt, Written
    <3> HIDE DEF c
    <3>9. c = callbacks'[n][i] /\ told'[c] = told[c] /\ toDeliver'[c] = toDeliver[c]
          /\ hushed'[c] = hushed[c] /\ (Due(n, i)' <=> Due(n, i)) /\ c \notin suppressing'
          /\ writing' = writing /\ current' = current /\ latest' = latest
      BY <1>1, <2>3, <3>3 DEF c
    <3>10. ASSUME Due(n, i)
           PROVE  current <= sg'[n] /\ accumulated'[c] = current + 1 .. sg'[n]
      <4>1. current <= sg[n]
        BY <3>5, <3>10
      <4>2. (current + 1 .. sg[n]) \cup (sg[n] + 1 .. PassVersion) = current + 1 .. PassVersion
        BY <3>4, <4>1
      <4>3. current <= PassVersion
        BY <3>4, <4>1
      <4> QED
        BY <3>1, <3>2, <3>5, <3>10, <4>2, <4>3
    <3>11. ASSUME ~Due(n, i), told[c] > 0
           PROVE  /\ told[c] <= sg'[n] /\ current - 1 <= sg'[n]
                  /\ accumulated'[c] = (told[c] + 1 .. sg'[n]) \ hushed[c]
                  /\ sg'[n] < current => accumulated'[c] = {}
      <4>1. told[c] <= sg[n] /\ current - 1 <= sg[n]
        BY <3>6, <3>11
      <4>2. ((told[c] + 1 .. sg[n]) \ hushed[c]) \cup (sg[n] + 1 .. PassVersion)
               = (told[c] + 1 .. PassVersion) \ hushed[c]
        BY <3>4, <3>7, <3>11, <4>1, Joined
      <4>3. told[c] <= PassVersion /\ current - 1 <= PassVersion
        BY <3>4, <4>1
      <4>4. ASSUME PassVersion < current
            PROVE  accumulated'[c] = {}
        <5>1. sg[n] < current /\ sg[n] = PassVersion
          BY <3>4, <4>1, <4>4
        <5>2. sg[n] + 1 .. PassVersion = {}
          BY <3>4, <5>1
        <5>3. accumulated[c] = {}
          BY <3>6, <3>11, <5>1
        <5> QED
          BY <3>1, <3>2, <5>2, <5>3
      <4>5. accumulated'[c] = (told[c] + 1 .. PassVersion) \ hushed[c]
        BY <3>1, <3>2, <3>6, <3>11, <4>2
      <4> QED
        BY <3>1, <4>3, <4>4, <4>5
    <3>12. told[c] > 0 => \A v \in hushed[c] : v <= sg'[n]
      BY <3>1, <3>4, <3>7
    <3>13. writing => sg'[n] = latest /\ accumulated'[c] = {}
      <4>1. SUFFICES ASSUME writing PROVE sg'[n] = latest /\ accumulated'[c] = {}
        OBVIOUS
      <4>2. sg[n] = latest /\ PassVersion = latest
        BY <1>3, <3>1, <3>8, <4>1
      <4>3. sg[n] + 1 .. PassVersion = {}
        BY <1>3, <4>2
      <4> QED
        BY <3>1, <3>2, <3>8, <4>1, <4>2, <4>3
    <3>14. DueFits(n, i)'
      BY <3>1, <3>5, <3>9, <3>10 DEF DueFits
    <3>15. RestFits(n, i)'
      BY <3>6, <3>9, <3>11 DEF RestFits
    <3>16. Spared(n, i)' /\ Marked(n, i)' /\ Written(n, i)'
      BY <3>1, <3>9, <3>12, <3>13 DEF Spared, Marked, Written
    <3> QED
      BY <3>14, <3>15, <3>16 DEF FitsAt
  <2> QED
    BY <2>8, <2>9, <2>10
<1> QED
  BY <1>5, <1>6

\* A callback that is added knows of nothing, and is not among those counted.
LEMMA AddFits ==
    ASSUME Core, Fits, incidents = {}, NEW m \in Notifiers, NEW c0 \in Callbacks, AddCallback(m, c0)
    PROVE  Carries' /\ \A n \in Notifiers : \A i \in DOMAIN callbacks'[n] : FitsAt(n, i)'
<1>1. /\ UNCHANGED <<thread, index, count, toDeliver, accumulated, skipNext, hushed, writing,
                     suppressing, current, latest, sg, hasRun, skipVersion, worker>>
      /\ told' = [told EXCEPT ![c0] = 0] /\ told[c0] = Unused /\ suppressing = {} /\ ~writing
  BY DEF AddCallback, UserCode, file, realm, state, cbData
<1>2. Carries'
  BY <1>1 DEF Fits, Carries, Delivering
<1>3. ASSUME NEW n \in Notifiers, NEW i \in DOMAIN callbacks'[n]
      PROVE  FitsAt(n, i)'
  <2>1. DOMAIN callbacks[n] = 1 .. Len(callbacks[n]) /\ Len(callbacks[n]) \in Nat
    BY Members DEF Core, TypeOK
  <2>2. Due(n, i)' <=> Due(n, i)
    BY <1>1 DEF Due, Delivering
  <2>3. CASE i \in DOMAIN callbacks[n]
    <3> DEFINE c == callbacks[n][i]
    <3>1. callbacks'[n][i] = c /\ c # c0
      BY <2>3, Added
    <3>2. FitsAt(n, i) /\ c \in Callbacks
      BY <2>3, Standing DEF Fits
    <3>3. told'[c] = told[c]
      BY <1>1, <3>1, <3>2 DEF Core, TypeOK, CallbackOK
    <3> QED
      BY <1>1, <2>2, <3>1, <3>2, <3>3 DEF FitsAt, DueFits, RestFits, Spared, Marked, Written
  <2>4. CASE i \notin DOMAIN callbacks[n]
    <3>1. n = m /\ i = Len(callbacks[n]) + 1
      BY <1>3, <2>1, <2>4, Added
    <3>2. callbacks'[n][i] = c0
      BY <3>1, Added
    <3>3. ~Due(n, i)
      <4>1. Due(n, i) => count[n] <= Len(callbacks[n]) /\ i <= count[n]
        BY DEF Due, Core, Counted
      <4>2. count[n] \in Int
        BY DEF Core, TypeOK, CallbacksOK
      <4> QED
        BY <2>1, <3>1, <4>1, <4>2
    <3>4. told'[c0] = 0 /\ ~skipNext[c0]
      BY <1>1 DEF Core, TypeOK, CallbackOK, Tokens, Unused
    <3> QED
      BY <1>1, <2>2, <3>2, <3>3, <3>4 DEF FitsAt, DueFits, RestFits, Spared, Marked, Written
  <2> QED
    BY <2>3, <2>4
<1> QED
  BY <1>2, <1>3

\* Those that stay when a token is dropped keep what they have.
LEMMA RemoveFits ==
    ASSUME Core, Fits, incidents = {}, incidents' = {}, NEW c0 \in Callbacks, RemoveCallback(c0)
    PROVE  Carries' /\ \A n \in Notifiers : \A i \in DOMAIN callbacks'[n] : FitsAt(n, i)'
<1>1. /\ UNCHANGED <<thread, writing, suppressing, current, latest, sg, hasRun, skipVersion, worker>>
      /\ told' = [told EXCEPT ![c0] = Removed] /\ toDeliver' = [toDeliver EXCEPT ![c0] = {}]
      /\ accumulated' = [accumulated EXCEPT ![c0] = {}] /\ skipNext' = [skipNext EXCEPT ![c0] = FALSE]
      /\ hushed' = [hushed EXCEPT ![c0] = {}]
  BY DEF RemoveCallback, file, realm, state
<1>2. Carries'
  BY <1>1 DEF Fits, Carries, Delivering
<1>3. ASSUME NEW n \in Notifiers, NEW i \in DOMAIN callbacks'[n]
      PROVE  FitsAt(n, i)'
  <2>1. PICK j \in DOMAIN callbacks[n] :
          /\ callbacks'[n][i] = callbacks[n][j] /\ callbacks[n][j] # c0
          /\ "miscounted" \notin incidents' => (Due(n, i)' <=> Due(n, j))
    BY <1>3, Survives
  <2> DEFINE c == callbacks[n][j]
  <2>2. FitsAt(n, j) /\ c \in Callbacks
    BY Standing DEF Fits
  <2>3. /\ told'[c] = told[c] /\ toDeliver'[c] = toDeliver[c] /\ accumulated'[c] = accumulated[c]
        /\ skipNext'[c] = skipNext[c] /\ hushed'[c] = hushed[c]
    BY <1>1, <2>1, <2>2 DEF Core, TypeOK, CallbackOK
  <2>4. Due(n, i)' <=> Due(n, j)
    BY <2>1
  <2> QED
    BY <1>1, <2>1, <2>2, <2>3, <2>4 DEF FitsAt, DueFits, RestFits, Spared, Marked, Written
<1> QED
  BY <1>2, <1>3

\* A notifier that is registered has no callbacks yet.
LEMMA RegisterFits ==
    ASSUME Core, Fits, incidents = {}, NEW m \in Notifiers, RegisterNotifier(m)
    PROVE  Carries' /\ \A n \in Notifiers : \A i \in DOMAIN callbacks[n] : FitsAt(n, i)'
<1>1. /\ UNCHANGED <<thread, index, count, callbacks, told, toDeliver, accumulated, skipNext, hushed,
                     writing, suppressing, current, latest, hasRun, skipVersion, worker>>
      /\ sg' = [sg EXCEPT ![m] = current] /\ sg[m] = 0
  BY DEF RegisterNotifier, file, realm, cbs, cbData, ghosts
<1>2. \A n \in Notifiers : n # m => sg'[n] = sg[n]
  BY <1>1 DEF Core, TypeOK, NotifiersOK
<1>3. Carries'
  <2>1. Delivering => \A n \in thread.package : n \in Notifiers /\ n # m
    BY <1>1 DEF Core, TypeOK, ThreadOK, Calling, Lists, ListOf
  <2> QED
    BY <1>1, <1>2, <2>1 DEF Fits, Carries, Delivering
<1>4. ASSUME NEW n \in Notifiers, NEW i \in DOMAIN callbacks[n]
      PROVE  FitsAt(n, i)'
  <2>1. callbacks[n] # <<>>
    BY <1>4, Standing
  <2>2. n # m
    BY <1>1, <2>1 DEF Core, Lists, ListOf
  <2>3. FitsAt(n, i) /\ sg'[n] = sg[n]
    BY <1>2, <2>2 DEF Fits
  <2> QED
    BY <1>1, <2>3 DEF FitsAt, DueFits, RestFits, Spared, Marked, Written, Due, Delivering
<1> QED
  BY <1>3, <1>4

\* A Realm without notifiers has no callbacks.
LEMMA UnobservedFits ==
    ASSUME Core, Fits, incidents = {}, RefreshUnobserved
    PROVE  Carries' /\ \A n \in Notifiers : \A i \in DOMAIN callbacks[n] : FitsAt(n, i)'
<1>1. thread' = thread /\ thread.step = "idle" /\ NotifiersForRealm = {}
  BY DEF RefreshUnobserved
<1>2. Carries'
  BY <1>1 DEF Carries, Delivering
<1>3. \A n \in Notifiers : DOMAIN callbacks[n] = {}
  BY <1>1, Standing
<1> QED
  BY <1>2, <1>3

\* Steps that only wait, or end without a commit.
LEMMA QuietFits ==
    ASSUME Core, Fits, incidents = {}, Next,
           \/ \E n \in Notifiers : Unregister(n)
           \/ NotifyWhileWriting \/ Refresh \/ BeginWrite \/ CancelWrite \/ RunNotifiers
    PROVE  Carries' /\ \A n \in Notifiers : \A i \in DOMAIN callbacks[n] : FitsAt(n, i)'
<1>1. /\ UNCHANGED <<index, count, callbacks, told, toDeliver, accumulated, skipNext, hushed,
                     suppressing, current, latest, sg, hasRun, skipVersion>>
      /\ writing' => writing
  BY DEF Unregister, NotifyWhileWriting, Refresh, BeginWrite, StartWait, CancelWrite,
     RunNotifiers,
         file, realm, state, cbs, cbData, ghosts
<1>2. thread' = thread \/ (~Delivering /\ ~Delivering')
  BY DEF Unregister, NotifyWhileWriting, Refresh, BeginWrite, StartWait, CancelWrite,
     RunNotifiers,
         Delivering, NoOne
<1>3. worker.pc \in {"skip", "skipped"} => worker'.pc \in {"skip", "skipped"} /\ worker'.skip = worker.skip
  <2>1. CASE RunNotifiers
    BY <2>1 DEF RunNotifiers, Core, TypeOK, WorkerOK
  <2>2. CASE worker' = worker
    BY <2>2
  <2> QED
    BY <2>1, <2>2 DEF Unregister, NotifyWhileWriting, Refresh, BeginWrite, StartWait, CancelWrite
<1>4. Carries'
  BY <1>1, <1>2 DEF Fits, Carries, Delivering
<1>5. ASSUME NEW n \in Notifiers, NEW i \in DOMAIN callbacks[n]
      PROVE  FitsAt(n, i)'
  <2>1. FitsAt(n, i)
    BY DEF Fits
  <2>2. Due(n, i)' <=> Due(n, i)
    BY <1>1, <1>2 DEF Due, Delivering
  <2>3. DueFits(n, i)' /\ RestFits(n, i)' /\ Marked(n, i)' /\ Written(n, i)'
    BY <1>1, <2>1, <2>2 DEF FitsAt, DueFits, RestFits, Marked, Written
  <2>4. Spared(n, i)'
    BY <1>1, <1>3, <2>1 DEF FitsAt, Spared
  <2> QED
    BY <2>3, <2>4 DEF FitsAt
<1> QED
  BY <1>4, <1>5

\* The callbacks are the same but for those that come and go.
LEMMA FitsStep ==
    ASSUME Core, Compared, Fits, Next
    PROVE  Fits'
<1>1. SUFFICES ASSUME incidents' = {}
               PROVE  Carries' /\ \A n \in Notifiers : \A i \in DOMAIN callbacks'[n] : FitsAt(n, i)'
  BY DEF Fits
<1>2. incidents = {}
  BY <1>1, IncidentsGrow
<1>3. ASSUME NEW n \in Notifiers, NEW c \in Callbacks, AddCallback(n, c)
      PROVE  Carries' /\ \A m \in Notifiers : \A i \in DOMAIN callbacks'[m] : FitsAt(m, i)'
  BY <1>2, <1>3, AddFits
<1>4. ASSUME NEW c \in Callbacks, RemoveCallback(c)
      PROVE  Carries' /\ \A m \in Notifiers : \A i \in DOMAIN callbacks'[m] : FitsAt(m, i)'
  BY <1>1, <1>2, <1>4, RemoveFits
<1>5. CASE callbacks' = callbacks
  <2>1. SUFFICES Carries' /\ \A n \in Notifiers : \A i \in DOMAIN callbacks[n] : FitsAt(n, i)'
    BY <1>5
  <2>2. ASSUME NEW n \in Notifiers, RegisterNotifier(n)
        PROVE  Carries' /\ \A m \in Notifiers : \A i \in DOMAIN callbacks[m] : FitsAt(m, i)'
    BY <1>2, <2>2, RegisterFits
  <2>3. ASSUME NEW c \in Callbacks, Suppress(c)
        PROVE  Carries' /\ \A m \in Notifiers : \A i \in DOMAIN callbacks[m] : FitsAt(m, i)'
    BY <1>2, <2>3, SuppressFits
  <2>4. ~BeginInCallback
    BY <1>1 DEF BeginInCallback, Happened
  <2>5. ASSUME \/ \E n \in Notifiers : Unregister(n)
               \/ NotifyWhileWriting \/ Refresh \/ BeginWrite \/ CancelWrite \/ RunNotifiers
        PROVE  Carries' /\ \A m \in Notifiers : \A i \in DOMAIN callbacks[m] : FitsAt(m, i)'
    BY <1>2, <2>5, QuietFits
  <2>6. CASE ProcessAvailable
    BY <1>2, <2>6, ProcessFits
  <2>7. CASE AdvanceToReady
    BY <1>2, <2>7, AdvanceFits
  <2>8. CASE RefreshUnobserved
    BY <1>2, <2>8, UnobservedFits
  <2>9. CASE PackageAndWait
    BY <1>2, <2>9, WaitFits
  <2>10. CASE CallNext
    BY <1>2, <2>10, CallFits
  <2>11. CASE FinishNotifier
    BY <1>2, <2>11, FinishFits
  <2>12. CASE CommitWrite
    BY <1>2, <2>12, CommitFits
  <2>13. CASE CommitElsewhere
    BY <1>1, <1>2, <2>13, ElsewhereFits
  <2>14. CASE StartRun
    BY <1>2, <2>14, StartFits
  <2>15. CASE PrepareHandover
    BY <1>1, <1>2, <2>15, HandoverFits
  <2>16. ASSUME NEW n \in Notifiers, NEW c \in Callbacks, AddCallback(n, c)
         PROVE  Carries' /\ \A m \in Notifiers : \A i \in DOMAIN callbacks[m] : FitsAt(m, i)'
    BY <1>3, <1>5, <2>16
  <2>17. ASSUME NEW c \in Callbacks, RemoveCallback(c)
         PROVE  Carries' /\ \A m \in Notifiers : \A i \in DOMAIN callbacks[m] : FitsAt(m, i)'
    BY <1>4, <1>5, <2>17
  <2> QED
    BY <2>2, <2>3, <2>4, <2>5, <2>6, <2>7, <2>8, <2>9, <2>10, <2>11, <2>12, <2>13, <2>14, <2>15,
       <2>16, <2>17 DEF Next
<1> QED
  BY <1>3, <1>4, <1>5, ListFrame

-----------------------------------------------------------------------------
(* The theorems.                                                           *)

Safe == Core /\ News /\ Compared /\ Fits

\* The invariant holds before anything is observed.
LEMMA SafeInit ==
    ASSUME Init
    PROVE  Safe
<1>1. \A n \in Notifiers : DOMAIN callbacks[n] = {}
  BY EmptySeq DEF Init
<1>2. Core
  BY CoreInit
<1>3. News
  BY <1>1 DEF News
<1>4. Compared
  BY DEF Init, Compared, RowsOf, ChangeOf, Ran, Asleep
<1>5. Fits
  BY <1>1 DEF Init, Fits, Carries, Delivering, NoOne
<1> QED
  BY <1>2, <1>3, <1>4, <1>5 DEF Safe

\* Nothing that the invariant reads is left out of vars.
LEMMA SafeStutters ==
    ASSUME Safe, UNCHANGED vars
    PROVE  Safe'
<1>1. /\ UNCHANGED <<latest, skipVersion, current, seen, writing, newNotifiers, notifiers, rows, change>>
      /\ UNCHANGED <<sg, hasRun, alive, callbacks, index, count, haveCallbacks>>
      /\ UNCHANGED <<accumulated, toDeliver, initial, skipNext, woken, posted, worker, thread, suppressing>>
      /\ UNCHANGED <<told, hushed, stranded, incidents>>
  BY DEF vars, file, realm, lists, results, state, cbs, cbData, signals, ghosts
<1>2. Core'
  BY CoreStutters DEF Safe
<1>3. News'
  BY <1>1 DEF Safe, News, Hears, Due, Delivering, Busy
<1>4. Compared'
  BY <1>1 DEF Safe, Compared, RowsOf, ChangeOf, Ran, InPass, PassVersion
<1>5. Fits'
  <2>1. SUFFICES ASSUME incidents = {}
                 PROVE  Carries' /\ \A n \in Notifiers : \A i \in DOMAIN callbacks[n] : FitsAt(n, i)'
    BY <1>1 DEF Fits
  <2>2. Carries'
    BY <1>1, <2>1 DEF Safe, Fits, Carries, Delivering
  <2>3. ASSUME NEW n \in Notifiers, NEW i \in DOMAIN callbacks[n]
        PROVE  FitsAt(n, i)'
    <3>1. FitsAt(n, i)
      BY <2>1 DEF Safe, Fits
    <3>2. Due(n, i)' <=> Due(n, i)
      BY <1>1 DEF Due, Delivering
    <3> QED
      BY <1>1, <3>1, <3>2 DEF FitsAt, DueFits, RestFits, Spared, Marked, Written
  <2> QED
    BY <2>2, <2>3
<1> QED
  BY <1>2, <1>3, <1>4, <1>5 DEF Safe

\* The invariant holds in every state the notifiers, the worker and the target
\* thread can reach: the lists agree with the passes, the notifiers that have
\* run agree on a version, someone is on the way to whoever waits, and what a
\* callback has been told fits what is ahead of it.
THEOREM Invariant == Spec => []Safe
<1>1. Init => Safe
  BY SafeInit
<1>2. Safe /\ [Next]_vars => Safe'
  <2>1. ASSUME Safe, Next
        PROVE  Safe'
    <3>1. Core /\ News /\ Compared /\ Fits
      BY <2>1 DEF Safe
    <3>2. Core' /\ News' /\ Compared' /\ Fits'
      BY <2>1, <3>1, CoreStep, NewsStep, ComparedStep, FitsStep
    <3> QED
      BY <3>2 DEF Safe
  <2>2. ASSUME Safe, UNCHANGED vars
        PROVE  Safe'
    BY <2>2, SafeStutters
  <2> QED
    BY <2>1, <2>2
<1> QED
  BY <1>1, <1>2, PTL DEF Spec

\* The variables have their types for any number of collections, callbacks and
\* commits: the Realm, its notifiers and the last transaction it has seen never
\* go past the file, and an index points at a callback or nowhere.
THEOREM TypeCorrect == Spec => []TypeOK
<1>1. Safe => TypeOK
  BY DEF Safe, Core
<1> QED
  BY <1>1, Invariant, PTL

\* Notifiers that have run have one version: deliver may take m_version from
\* any notifier of a package (collection_notifier.cpp, NotifierPackage).
THEOREM PackagesHaveOneVersion == Spec => []OneVersion
<1>1. Safe => OneVersion
  BY DEF Safe, Core
<1> QED
  BY <1>1, Invariant, PTL

\* A thread that waits in package_and_wait waits for a worker that is going to run.
THEOREM WaitersWoken == Spec => []WaitersAreWoken
<1>1. ASSUME Safe, thread.step = "waiting", ~ReadyFor(thread.package, thread.target)
      PROVE  woken \/ worker.pc # "idle"
  <2>1. PICK n \in thread.package : haveCallbacks[n] /\ ~(hasRun[n] /\ sg[n] >= thread.target)
    BY <1>1 DEF ReadyFor
  <2>2. n \in Notifiers /\ thread.target \in 0 .. latest
    BY <1>1 DEF Safe, Core, TypeOK, ThreadOK
  <2>3. alive[n]
    BY <1>1, <2>1, <2>2 DEF Safe, Core, Lists, ListOf, TypeOK, CallbacksOK
  <2>4. latest >= thread.target
    BY <1>1, <2>2, NotificationsAssumption DEF Safe, Core, TypeOK, FileOK, Version
  <2>5. ~(hasRun[n] /\ sg[n] = latest)
    BY <2>1, <2>4
  <2>6. Behind(n)
    BY <2>1, <2>3, <2>5 DEF Behind
  <2> QED
    BY <1>1, <2>2, <2>6 DEF Safe, Core, Runs, Busy
<1>2. Safe => WaitersAreWoken
  BY <1>1 DEF WaitersAreWoken
<1> QED
  BY <1>2, Invariant, PTL

\* No callback is forgotten: while one has not had its first call, or changes
\* have been handed over for it, the worker, the run loop or the target thread
\* is on the way; but for tokens whose wake-up was not sent or was swallowed.
THEOREM NewsComes == Spec => []NewsWillCome
<1>1. ASSUME Safe, "miscounted" \notin incidents, NEW c \in Token \ stranded,
             told[c] = 0 \/ accumulated[c] # {}
      PROVE  woken \/ worker.pc # "idle" \/ posted \/ thread.step # "idle"
  <2>n. PICK n \in Notifiers : c \in Registered(n)
    BY DEF Token
  <2>1. PICK i \in DOMAIN callbacks[n] : callbacks[n][i] = c
    BY <2>n DEF Registered, ToSet
  <2>2. Hears(n, i)
    BY <1>1 DEF Safe, News
  <2> QED
    BY <1>1, <2>1, <2>2 DEF Hears, Busy, Due, Delivering
<1>2. Safe => NewsWillCome
  BY <1>1 DEF NewsWillCome
<1> QED
  BY <1>2, Invariant, PTL

\* The assertions of run_async_notifiers, add_changes and for_each_callback hold.
THEOREM Asserted == Spec => []AssertionsHold
<1>1. ASSUME Safe
      PROVE  AssertionsHold
  <2>1. worker.pc = "skip" =>
          (worker.running # {} \/ other # "nothing") /\ worker.skip <= worker.version
    BY <1>1 DEF Safe, Core, Passes, Busy
  <2>2. ASSUME NEW c \in Token, skipNext[c], incidents = {}
        PROVE  accumulated[c] = {}
    <3>n. PICK n \in Notifiers : c \in Registered(n)
      BY DEF Token
    <3>1. PICK i \in DOMAIN callbacks[n] : callbacks[n][i] = c
      BY <3>n DEF Registered, ToSet
    <3> QED
      BY <1>1, <2>2, <3>1 DEF Safe, Fits, FitsAt, Spared
  <2>3. ASSUME thread.step \in {"delivering", "calling"}, "miscounted" \notin incidents
        PROVE  LET n == thread.turn IN index[n] <= count[n] /\ count[n] <= Len(callbacks[n])
    BY <1>1, <2>3 DEF Safe, Core, Counted, Calling, Delivering
  <2> QED
    BY <2>1, <2>2, <2>3 DEF AssertionsHold
<1>2. Safe => AssertionsHold
  BY <1>1
<1> QED
  BY <1>2, Invariant, PTL

\* A step gives up a callback's changes by telling it, when it is due.
LEMMA ToldOnce ==
    ASSUME Safe, Next, incidents = {}, NEW c \in Token, GivesUp(c), told[c] > 0, told'[c] > 0
    PROVE  told'[c] = current /\ toDeliver[c] = (told[c] + 1 .. current) \ hushed[c]
<1>n. PICK n \in Notifiers : c \in Registered(n)
  BY DEF Token
<1>1. PICK i \in DOMAIN callbacks[n] : callbacks[n][i] = c
  BY <1>n DEF Registered, ToSet
<1>2. FitsAt(n, i) /\ c \in Callbacks
  BY <1>1, Standing DEF Safe, Fits
<1>3. /\ told \in [Callbacks -> {Removed, Unused} \cup 0 .. current]
      /\ toDeliver \in [Callbacks -> SUBSET Version]
  BY DEF Safe, Core, TypeOK, CallbackOK
<1>4. ASSUME NEW c0 \in Callbacks, RemoveCallback(c0)
      PROVE  FALSE
  <2>1. told' = [told EXCEPT ![c0] = Removed] /\ toDeliver' = [toDeliver EXCEPT ![c0] = {}]
    BY <1>4 DEF RemoveCallback
  <2>2. c = c0
    BY <1>2, <1>3, <2>1 DEF GivesUp
  <2>3. told'[c] = Removed
    BY <1>2, <1>3, <2>1, <2>2
  <2> QED
    BY <2>3 DEF Removed
<1>5. ASSUME ProcessAvailable \/ AdvanceToReady \/ PackageAndWait
      PROVE  FALSE
  <2>1. ~Due(n, i)
    BY <1>5 DEF ProcessAvailable, AdvanceToReady, PackageAndWait, Due, Delivering
  <2>2. toDeliver[c] = {}
    BY <1>1, <1>2, <2>1 DEF FitsAt, RestFits
  <2> QED
    BY <2>2 DEF GivesUp
<1>6. CASE CallNext
  <2> DEFINE t == thread.turn
             k == NextIndex(t)
  <2>1. /\ Delivering /\ t \in Notifiers /\ t \in thread.package /\ k # npos
        /\ toDeliver' = [toDeliver EXCEPT ![callbacks[t][k]] = {}]
        /\ told' = [told EXCEPT ![callbacks[t][k]] = current]
    BY <1>6, Turn DEF CallNext, CallbackReturned, Delivering, Safe
  <2>2. c = callbacks[t][k]
    BY <1>2, <1>3, <2>1 DEF GivesUp
  <2>3. told'[c] = current
    BY <1>2, <1>3, <2>1, <2>2
  <2>4. /\ CallbacksOK /\ index[t] \in Nat /\ count[t] \in Int /\ Len(callbacks[t]) \in Nat
        /\ DOMAIN callbacks[t] = 1 .. Len(callbacks[t])
        /\ index[t] <= count[t] /\ count[t] <= Len(callbacks[t])
    BY <2>1, Members DEF Safe, Core, TypeOK, CallbacksOK, Counted
  <2>b. ~Beyond(t)
    BY <2>4 DEF Beyond
  <2>5. Limit(t) = count[t]
    BY <2>1, <2>4, <2>b, NextDue
  <2>6. k \in index[t] + 1 .. Limit(t)
    BY <2>1, <2>4, NextDue
  <2> HIDE DEF t, k
  <2>7. k \in DOMAIN callbacks[t] /\ index[t] < k /\ k <= count[t]
    BY <2>4, <2>5, <2>6
  <2>8. n = t /\ i = k
    BY <1>1, <2>1, <2>2, <2>7 DEF Safe, Core, Tokens
  <2>9. Due(n, i)
    BY <2>1, <2>7, <2>8 DEF Due
  <2> QED
    BY <1>1, <1>2, <2>3, <2>9 DEF FitsAt, DueFits
<1>7. toDeliver' # toDeliver
  BY DEF GivesUp
<1> QED
  BY <1>4, <1>5, <1>6, <1>7, ToDeliverFrame

\* After its first call a callback is told exactly the changes from what it was
\* told before to what its Realm shows, without those it was not to be told of:
\* none is lost, told twice or told of a version the Realm does not read.
THEOREM ChangesAlwaysFit == Spec => ChangesFit
<1>1. Safe /\ [Next]_vars =>
        [\A c \in Token :
           (GivesUp(c) /\ told[c] > 0 /\ told'[c] > 0 /\ incidents = {})
           => /\ told'[c] = current
              /\ toDeliver[c] = (told[c] + 1 .. current) \ hushed[c]]_vars
  BY ToldOnce
<1> QED
  BY <1>1, Invariant, PTL DEF Spec, ChangesFit

=============================================================================
