------------------------- MODULE SyncRegistryProofs -------------------------
(***************************************************************************)
(* The invariants of SyncRegistry, for every set of threads and sessions,  *)
(* every set of stop policies and every number of calls.                   *)
(***************************************************************************)
EXTENDS SyncRegistry, TLAPS

Ending == {"dropped", "unregister", "peek"}
Opening == {"register", "revive", "bind", "refer"}

\* What a call is doing, and which lock it holds meanwhile.
CallHoldsLocks(t) ==
    /\ thread[t].at = "idle" => thread[t].call = "none" /\ thread[t].session = None
    /\ thread[t].call = "none" => thread[t].at = "idle"
    /\ thread[t].call = "get_session" => thread[t].at \in Opening /\ managerLock = t
    /\ thread[t].call = "log_in" => thread[t].at \in {"revive", "bind"}
    /\ thread[t].call = "drop" => thread[t].at \in Ending
    /\ thread[t].call = "end" => thread[t].at \in {"unregister", "peek"}
    /\ thread[t].call = "log_out" =>
           /\ thread[t].at \in {"unregister", "peek", "logged out"}
           /\ userLock = t /\ user = "LoggedOut"
    /\ thread[t].at = "peek" => managerLock = t
    /\ thread[t].at \in Opening \cup Ending => thread[t].session \in Sessions

\* A lock is held by a call that is to release it.
LockIsHeld(t) ==
    /\ managerLock = t =>
           thread[t].call = "get_session" \/ thread[t].at \in {"unregister", "peek"}
    /\ userLock = t => thread[t].call = "log_out"

Locking == \A t \in Threads : CallHoldsLocks(t) /\ LockIsHeld(t)

RegisteredIsUsed == registry # None => state[registry] # "unused"

\* What a thread opens or ends is the registered session.
ThreadsWorkOnRegistered ==
    \A t \in Threads :
        thread[t].at \in Opening \cup Ending => registry = thread[t].session

ReferencedIsRegistered == \A s \in Sessions : referenced[s] => registry = s
OneEnds ==
    \A t, u \in Threads : thread[t].at \in Ending /\ thread[u].at \in Ending => t = u
UnregisteredIsInactive ==
    \A t \in Threads : thread[t].at = "unregister" => state[thread[t].session] = "inactive"
RunningIsOwned == \A s \in Sessions : Running(s) => registry = s

\* Why a running session is the registered one, as long as nobody interferes.
Ownership ==
    ~overlapped /\ ~overtaken =>
        /\ ~asserted
        /\ ThreadsWorkOnRegistered /\ ReferencedIsRegistered /\ OneEnds
        /\ UnregisteredIsInactive /\ RunningIsOwned

UserKnown == user \in {"Active", "LoggedOut"}

\* The session is about to come online.
Reviving(s) == \E t \in Threads : thread[t].at = "revive" /\ thread[t].session = s

\* The application has a reference to the session or is about to get one.
Wanted(s) ==
    \/ referenced[s]
    \/ \E t \in Threads : thread[t].at \in {"bind", "refer"} /\ thread[t].session = s

\* Sessions that run or are about to are those the user has in its map.
OnlineIsUsers ==
    \A s \in Sessions : Running(s) \/ Reviving(s) => user = "Active" /\ userSession = s

\* A session that is wanted runs and is not to be closed, or is about to.
WantedComesOnline ==
    \A s \in Sessions : user = "Active" /\ Wanted(s) =>
        (state[s] \in {"waiting", "active"} /\ ~deferredClose[s]) \/ Reviving(s)

\* A session that is wanted while the user is logged out waits for the user.
WantedWaits ==
    \A s \in Sessions : user = "LoggedOut" /\ Wanted(s) =>
        IF userLock = None THEN waitingSession = s ELSE userSession = s

Following ==
    ~overlapped /\ ~overtaken /\ ~failed =>
        UserKnown /\ OnlineIsUsers /\ WantedComesOnline /\ WantedWaits

IInv == TypeOK /\ Locking /\ RegisteredIsUsed /\ Ownership /\ Following

-----------------------------------------------------------------------------
LEMMA Distinct ==
    /\ None \notin Threads /\ None \notin Sessions
    /\ AppThreads \subseteq Threads /\ Loop \in Threads
  BY SyncRegistryAssumption DEF Threads

\* The types of what a step may change, apart from the locks.
ThreadOK == thread \in [Threads -> [at : Place, call : Call, session : Sessions \cup {None},
                                    fresh : BOOLEAN]]
SessionsOK ==
    /\ state \in [Sessions -> {"unused", "inactive", "waiting", "active", "dying"}]
    /\ deferredClose \in [Sessions -> BOOLEAN] /\ referenced \in [Sessions -> BOOLEAN]
UserOK ==
    /\ user \in {"Active", "LoggedOut", "Error"}
    /\ userSession \in Sessions \cup {None} /\ waitingSession \in Sessions \cup {None}
ManagerOK ==
    /\ registry \in Sessions \cup {None}
    /\ managerLock \in Threads \cup {None} /\ userLock \in Threads \cup {None}
    /\ policy \in Policies /\ calls \in 0..MaxCalls
GhostsOK ==
    /\ overlapped \in BOOLEAN /\ overtaken \in BOOLEAN /\ failed \in BOOLEAN
    /\ asserted \in BOOLEAN
IdleHoldsNone == \A t \in Threads : thread[t].at = "idle" => managerLock # t /\ userLock # t

LEMMA TypeParts ==
    TypeOK <=> /\ ThreadOK /\ SessionsOK /\ UserOK /\ ManagerOK /\ GhostsOK
               /\ IdleHoldsNone
  BY DEF TypeOK, ThreadOK, SessionsOK, UserOK, ManagerOK, GhostsOK, IdleHoldsNone

LEMMA NextTypeParts ==
    ASSUME ThreadOK', SessionsOK', UserOK', ManagerOK', GhostsOK', Locking'
    PROVE  TypeOK'
  <1>1. IdleHoldsNone'
    BY DEF IdleHoldsNone, Locking, CallHoldsLocks, LockIsHeld
  <1> QED BY <1>1, TypeParts, PTL

\* A thread goes from one place to the next.
LEMMA GoingStep ==
    ASSUME ThreadOK, NEW t \in Threads, NEW place \in Place,
           thread' = [thread EXCEPT ![t].at = place]
    PROVE  /\ ThreadOK'
           /\ thread'[t].at = place /\ thread'[t].call = thread[t].call
           /\ thread'[t].session = thread[t].session
           /\ \A u \in Threads \ {t} : thread'[u] = thread[u]
  BY DEF ThreadOK

\* A thread begins or ends a call.
Enters(t, place, call, s, fresh) ==
    thread' = [thread EXCEPT ![t] =
        [at |-> place, call |-> call, session |-> s, fresh |-> fresh]]

LEMMA CallingStep ==
    ASSUME ThreadOK, NEW t \in Threads, NEW place \in Place, NEW call \in Call,
           NEW s \in Sessions \cup {None}, NEW fresh \in BOOLEAN,
           Enters(t, place, call, s, fresh)
    PROVE  /\ ThreadOK'
           /\ thread'[t].at = place /\ thread'[t].call = call /\ thread'[t].session = s
           /\ \A u \in Threads \ {t} : thread'[u] = thread[u]
  BY DEF ThreadOK, Enters

LEMMA Names ==
    /\ {"idle", "register", "revive", "dropped", "unregister", "logged out"} \subseteq Place
    /\ {"none", "get_session", "drop", "log_out", "log_in", "end"} \subseteq Call
  BY DEF Place, Call

LEMMA ReturningStep ==
    ASSUME ThreadOK, NEW t \in Threads, Returns(t)
    PROVE  /\ ThreadOK'
           /\ thread'[t].at = "idle" /\ thread'[t].call = "none"
           /\ thread'[t].session = None
           /\ \A u \in Threads \ {t} : thread'[u] = thread[u]
  <1>1. Enters(t, "idle", "none", None, FALSE)
    BY DEF Returns, Idle, Enters
  <1>2. "idle" \in Place /\ "none" \in Call /\ None \in Sessions \cup {None}
    BY Names
  <1> QED BY <1>1, <1>2, CallingStep

\* A thread goes on with another session.
LEMMA TurningStep ==
    ASSUME ThreadOK, NEW t \in Threads, NEW place \in Place, NEW s \in Sessions,
           thread' = [thread EXCEPT ![t].at = place, ![t].session = s]
    PROVE  /\ ThreadOK'
           /\ thread'[t].at = place /\ thread'[t].call = thread[t].call
           /\ thread'[t].session = s
           /\ \A u \in Threads \ {t} : thread'[u] = thread[u]
  BY DEF ThreadOK

LEMMA UnregisteredStep ==
    ASSUME ThreadOK, NEW t \in Threads, Unregistered(t)
    PROVE  /\ ThreadOK'
           /\ \/ /\ thread'[t].at = "idle" /\ thread'[t].call = "none"
                 /\ thread'[t].session = None /\ thread[t].call # "log_out"
              \/ /\ thread'[t].at = "logged out" /\ thread'[t].call = "log_out"
                 /\ thread[t].call = "log_out"
           /\ \A u \in Threads \ {t} : thread'[u] = thread[u]
  <1>1. CASE Returns(t) /\ thread[t].call # "log_out"
    BY <1>1, ReturningStep
  <1>2. CASE thread' = [thread EXCEPT ![t].at = "logged out"] /\ thread[t].call = "log_out"
    <2>1. /\ ThreadOK' /\ thread'[t].at = "logged out" /\ thread'[t].call = thread[t].call
          /\ \A u \in Threads \ {t} : thread'[u] = thread[u]
      BY <1>2, GoingStep DEF Place
    <2> QED BY <1>2, <2>1
  <1> QED BY <1>1, <1>2 DEF Unregistered, Goes

\* A step of one thread leaves the locks of the others alone.
LEMMA OthersKeepLocks ==
    ASSUME Locking, NEW t \in Threads,
           \A u \in Threads \ {t} : thread'[u] = thread[u],
           managerLock' = managerLock \/ (managerLock \in {None, t} /\ managerLock' \in {None, t}),
           userLock' = userLock \/ (userLock \in {None, t} /\ userLock' \in {None, t}),
           user' = user \/ userLock \in {None, t},
           CallHoldsLocks(t)', LockIsHeld(t)'
    PROVE  Locking'
  <1> SUFFICES ASSUME NEW u \in Threads \ {t} PROVE CallHoldsLocks(u)' /\ LockIsHeld(u)'
    BY DEF Locking
  <1>1. CallHoldsLocks(u) /\ LockIsHeld(u) /\ u # None
    BY Distinct DEF Locking
  <1>2. thread'[u] = thread[u]
    OBVIOUS
  <1>3. CallHoldsLocks(u)'
    BY <1>1, <1>2 DEF CallHoldsLocks
  <1>4. LockIsHeld(u)'
    BY <1>1, <1>2 DEF LockIsHeld
  <1> QED BY <1>3, <1>4

\* What the conjuncts of Ownership and Following are under their conditions.
Owned ==
    /\ ~asserted
    /\ ThreadsWorkOnRegistered /\ ReferencedIsRegistered /\ OneEnds
    /\ UnregisteredIsInactive /\ RunningIsOwned
Followed == UserKnown /\ OnlineIsUsers /\ WantedComesOnline /\ WantedWaits

LEMMA Conditions ==
    /\ Ownership <=> (~overlapped /\ ~overtaken => Owned)
    /\ Following <=> (~overlapped /\ ~overtaken /\ ~failed => Followed)
  BY DEF Ownership, Owned, Following, Followed

\* A step that brings no session online, takes none offline and makes none wanted
\* cannot disturb Following.
LEMMA QuietStep ==
    ASSUME IInv, NEW t \in Threads,
           \A u \in Threads \ {t} : thread'[u] = thread[u],
           thread'[t].at # "revive", thread[t].at # "revive",
           thread'[t].at \in {"bind", "refer"} =>
               thread[t].at \in {"bind", "refer"} /\ thread'[t].session = thread[t].session,
           UNCHANGED <<state, deferredClose, userLock, maps, failed>>,
           \A s \in Sessions : referenced'[s] => referenced[s],
           overlapped => overlapped', overtaken => overtaken'
    PROVE  Following'
  <1> SUFFICES ASSUME Followed PROVE Followed'
    BY DEF IInv, Following, Followed
  <1>1. \A s \in Sessions : (Reviving(s)' <=> Reviving(s)) /\ (Wanted(s)' => Wanted(s))
    BY DEF Reviving, Wanted
  <1> QED
    BY <1>1 DEF Followed, UserKnown, OnlineIsUsers, WantedComesOnline, WantedWaits, Running,
       maps

LEMMA GetSessionStep ==
    ASSUME IInv, NEW t \in AppThreads, GetSession(t) PROVE IInv'
  <1> USE Distinct DEF IInv
  <1>0. ThreadOK /\ SessionsOK /\ UserOK /\ ManagerOK /\ GhostsOK
    BY TypeParts
  <1>1. PICK fresh \in BOOLEAN :
           /\ thread[t].at = "idle" /\ managerLock = None /\ managerLock' = t
           /\ registry' \in Sessions /\ calls < MaxCalls /\ calls' = calls + 1
           /\ thread' = [thread EXCEPT ![t] =
                  [at |-> "register", call |-> "get_session", session |-> registry',
                   fresh |-> fresh]]
    BY <1>0 DEF GetSession, IsIdle, At, Begin, ManagerOK
  <1>2. /\ ThreadOK'
        /\ thread'[t].at = "register" /\ thread'[t].call = "get_session"
        /\ thread'[t].session = registry'
        /\ \A u \in Threads \ {t} : thread'[u] = thread[u]
    <2>1. PICK n \in Sessions : n = registry'
      BY <1>1
    <2>2. Enters(t, "register", "get_session", n, fresh)
      BY <1>1, <2>1 DEF Enters
    <2>3. /\ ThreadOK' /\ thread'[t].at = "register" /\ thread'[t].call = "get_session"
          /\ thread'[t].session = n
          /\ \A u \in Threads \ {t} : thread'[u] = thread[u]
      <3>1. CASE Enters(t, "register", "get_session", n, TRUE)
        BY <1>0, <3>1, Names, CallingStep
      <3>2. CASE Enters(t, "register", "get_session", n, FALSE)
        BY <1>0, <3>2, Names, CallingStep
      <3> QED BY <2>2, <3>1, <3>2
    <2> QED BY <2>1, <2>3
  <1>3. \/ registry # None /\ registry' = registry /\ state' = state
        \/ /\ registry = None /\ state[registry'] = "unused"
           /\ state' = [state EXCEPT ![registry'] = "inactive"]
    BY <1>1 DEF GetSession
  <1>4. UNCHANGED <<userLock, maps, policy, deferredClose, referenced, ghosts, asserted>>
    BY DEF GetSession
  <1>5. ThreadOK' /\ SessionsOK' /\ UserOK' /\ ManagerOK' /\ GhostsOK'
    <2>1. ThreadOK'
      BY <1>2
    <2>2. SessionsOK' /\ UserOK' /\ GhostsOK'
      BY <1>0, <1>3, <1>4 DEF SessionsOK, UserOK, GhostsOK, maps, ghosts
    <2>3. ManagerOK'
      BY <1>0, <1>1, <1>4, SyncRegistryAssumption DEF ManagerOK
    <2> QED BY <2>1, <2>2, <2>3
  <1>6. Locking'
    <2>1. CallHoldsLocks(t)' /\ LockIsHeld(t)'
      BY <1>0, <1>1, <1>2, <1>4 DEF Locking, CallHoldsLocks, LockIsHeld, Opening, Ending
    <2> QED BY <1>1, <1>2, <1>4, <2>1, OthersKeepLocks DEF maps
  <1>7. RegisteredIsUsed'
    BY <1>0, <1>1, <1>3 DEF RegisteredIsUsed, SessionsOK
  <1>8. Ownership'
    <2> SUFFICES ASSUME ~overlapped, ~overtaken
        PROVE  /\ ~asserted'
               /\ ThreadsWorkOnRegistered' /\ ReferencedIsRegistered' /\ OneEnds'
               /\ UnregisteredIsInactive' /\ RunningIsOwned'
      BY <1>4 DEF Ownership, ghosts
    <2>1. /\ ~asserted /\ ThreadsWorkOnRegistered /\ ReferencedIsRegistered /\ OneEnds
          /\ UnregisteredIsInactive /\ RunningIsOwned
      BY DEF Ownership
    <2>2. ~asserted' /\ OneEnds'
      BY <1>2, <1>4, <2>1 DEF OneEnds, Ending
    <2>3. \A u \in Threads \ {t} :
             thread[u].at \in Opening \cup Ending => thread[u].session \in Sessions
      BY DEF Locking, CallHoldsLocks
    <2>4. ThreadsWorkOnRegistered' /\ ReferencedIsRegistered'
      BY <1>2, <1>3, <1>4, <2>1, <2>3 DEF ThreadsWorkOnRegistered, ReferencedIsRegistered
    <2>5. RunningIsOwned'
      BY <1>0, <1>1, <1>3, <2>1 DEF RunningIsOwned, Running, SessionsOK
    <2>6. UnregisteredIsInactive'
      BY <1>0, <1>1, <1>2, <1>3, <2>1, <2>3
         DEF UnregisteredIsInactive, ThreadsWorkOnRegistered, SessionsOK, Ending
    <2> QED BY <2>2, <2>4, <2>5, <2>6
  <1>9. Following'
    BY <1>1, <1>2, <1>3, <1>4, <1>0 DEF Following, Ownership, ghosts, maps, ThreadsWorkOnRegistered,
       ReferencedIsRegistered, RunningIsOwned, Running, UserKnown, OnlineIsUsers, Reviving, Wanted,
       WantedComesOnline, WantedWaits, SessionsOK, Opening, Ending
  <1> QED BY <1>5, <1>6, <1>7, <1>8, <1>9, NextTypeParts

LEMMA RegisterStep ==
    ASSUME IInv, NEW t \in AppThreads, Register(t) PROVE IInv'
  <1> USE Distinct DEF IInv
  <1> DEFINE s == thread[t].session
  <1>0. ThreadOK /\ SessionsOK /\ UserOK /\ ManagerOK /\ GhostsOK
    BY TypeParts
  <1>1. /\ t \in Threads /\ thread[t].at = "register" /\ s \in Sessions /\ userLock = None
    BY DEF Register, At, Locking, CallHoldsLocks, Opening
  <1>2. \/ /\ user = "Active" /\ userSession' = s /\ waitingSession' = waitingSession
           /\ thread' = [thread EXCEPT ![t].at = "revive"]
        \/ /\ user # "Active" /\ userSession' = userSession
           /\ waitingSession' = IF user = "LoggedOut" THEN s ELSE waitingSession
           /\ thread' = [thread EXCEPT ![t].at = "refer"]
    BY DEF Register, ComesOnline, Goes
  <1>3. /\ ThreadOK' /\ thread'[t].call = thread[t].call /\ thread'[t].session = s
        /\ thread'[t].at = IF user = "Active" THEN "revive" ELSE "refer"
        /\ \A u \in Threads \ {t} : thread'[u] = thread[u]
    BY <1>0, <1>1, <1>2, GoingStep DEF Place
  <1>4. UNCHANGED <<registry, locks, user, policy, state, deferredClose, referenced, calls,
                   ghosts, asserted>>
    BY DEF Register
  <1>5. ThreadOK' /\ SessionsOK' /\ UserOK' /\ ManagerOK' /\ GhostsOK'
    <2>1. ThreadOK'
      BY <1>3
    <2>2. SessionsOK' /\ ManagerOK' /\ GhostsOK'
      BY <1>0, <1>4 DEF SessionsOK, ManagerOK, GhostsOK, locks, ghosts
    <2>3. UserOK'
      BY <1>0, <1>1, <1>2, <1>4 DEF UserOK
    <2> QED BY <2>1, <2>2, <2>3
  <1>6. Locking'
    <2>1. CallHoldsLocks(t)' /\ LockIsHeld(t)'
      <3>1. CallHoldsLocks(t) /\ LockIsHeld(t)
        BY <1>1 DEF Locking
      <3>2. thread'[t].at \in {"revive", "refer"} /\ thread[t].call \in {"get_session"}
        BY <1>0, <1>1, <1>3, <3>1 DEF CallHoldsLocks, Ending, ThreadOK, Call
      <3> QED
        BY <1>1, <1>3, <1>4, <3>1, <3>2 DEF CallHoldsLocks, LockIsHeld, Opening, Ending, locks
    <2> QED BY <1>1, <1>3, <1>4, <2>1, OthersKeepLocks DEF locks
  <1>7. RegisteredIsUsed'
    BY <1>4 DEF RegisteredIsUsed
  <1>8. Ownership'
    BY <1>1, <1>3, <1>4 DEF Ownership, ghosts, ThreadsWorkOnRegistered,
       ReferencedIsRegistered, OneEnds, UnregisteredIsInactive, RunningIsOwned, Running,
       Opening, Ending
  <1>9. Following'
    BY <1>1, <1>2, <1>3, <1>4 DEF Following, Ownership, ghosts, locks, ThreadsWorkOnRegistered,
       ReferencedIsRegistered, RunningIsOwned, Running, UserKnown, OnlineIsUsers, Reviving, Wanted,
       WantedComesOnline, WantedWaits, Opening, Ending
  <1> QED BY <1>5, <1>6, <1>7, <1>8, <1>9, NextTypeParts

LEMMA ReviveStep ==
    ASSUME IInv, NEW t \in AppThreads, Revive(t) PROVE IInv'
  <1> USE Distinct DEF IInv
  <1> DEFINE s == thread[t].session
  <1>0. ThreadOK /\ SessionsOK /\ UserOK /\ ManagerOK /\ GhostsOK
    BY TypeParts
  <1>1. /\ t \in Threads /\ thread[t].at = "revive" /\ s \in Sessions
        /\ thread[t].call \in {"get_session", "log_in"}
        /\ thread[t].call = "get_session" => managerLock = t
    BY <1>0 DEF Revive, At, Locking, CallHoldsLocks, Opening, ThreadOK, Call, Ending
  <1>2. /\ state' = [state EXCEPT ![s] = CASE @ = "inactive" -> "waiting"
                                           [] @ = "dying" -> "active"
                                           [] OTHER -> @]
        /\ deferredClose' = [deferredClose EXCEPT ![s] = FALSE]
        /\ overlapped' = (overlapped \/ (state' # state /\ Unregistering))
        /\ UNCHANGED <<registry, locks, maps, policy, referenced, calls, overtaken, failed,
                       asserted>>
    BY DEF Revive
  <1>3. /\ ThreadOK'
        /\ \/ /\ thread'[t].call = thread[t].call /\ thread'[t].session = s
              /\ \/ thread'[t].at = "bind"
                 \/ thread'[t].at = "refer" /\ thread[t].call = "get_session"
           \/ /\ thread'[t].at = "idle" /\ thread'[t].call = "none"
              /\ thread'[t].session = None /\ thread[t].call = "log_in"
        /\ \A u \in Threads \ {t} : thread'[u] = thread[u]
    <2>1. CASE state[s] = "inactive"
      <3>1. thread' = [thread EXCEPT ![t].at = "bind"]
        BY <2>1 DEF Revive, Goes
      <3> QED BY <1>0, <1>1, <3>1, GoingStep DEF Place
    <2>2. CASE state[s] # "inactive" /\ thread[t].call = "get_session"
      <3>1. thread' = [thread EXCEPT ![t].at = "refer"]
        BY <2>2 DEF Revive, Goes, Revived
      <3> QED BY <1>0, <1>1, <2>2, <3>1, GoingStep DEF Place
    <2>3. CASE state[s] # "inactive" /\ thread[t].call = "log_in"
      <3>1. Returns(t)
        BY <2>3 DEF Revive, Revived
      <3> QED BY <1>0, <1>1, <2>3, <3>1, ReturningStep
    <2> QED BY <1>1, <2>1, <2>2, <2>3
  <1>4. /\ state'[s] \in {"unused", "waiting", "active"}
        /\ state[s] # "unused" => state'[s] # "unused"
        /\ state'[s] # state[s] => state[s] \in {"inactive", "dying"}
        /\ state[s] = "inactive" => state' # state
        /\ \A x \in Sessions \ {s} : state'[x] = state[x] /\ deferredClose'[x] = deferredClose[x]
        /\ ~deferredClose'[s]
    BY <1>0, <1>1, <1>2 DEF SessionsOK
  <1>5. SessionsOK'
    BY <1>0, <1>1, <1>2 DEF SessionsOK
  <1>6. UserOK' /\ ManagerOK' /\ GhostsOK'
    BY <1>0, <1>2 DEF UserOK, ManagerOK, GhostsOK, locks, maps
  <1>7. Locking'
    <2>1. CallHoldsLocks(t)' /\ LockIsHeld(t)'
      BY <1>1, <1>2, <1>3 DEF Locking, CallHoldsLocks, LockIsHeld, Opening, Ending, locks
    <2> QED BY <1>1, <1>2, <1>3, <2>1, OthersKeepLocks DEF locks, maps
  <1>8. RegisteredIsUsed'
    BY <1>0, <1>2, <1>4 DEF RegisteredIsUsed, ManagerOK
  <1>9. Ownership'
    <2> SUFFICES ASSUME Owned, ~Unregistering \/ state' = state PROVE Owned'
      BY <1>2, Conditions DEF Ownership, Owned
    <2>1. registry = s
      BY <1>1 DEF Owned, ThreadsWorkOnRegistered, Opening
    <2>2. ThreadsWorkOnRegistered' /\ ReferencedIsRegistered' /\ OneEnds'
      BY <1>1, <1>2, <1>3 DEF Owned, ThreadsWorkOnRegistered, ReferencedIsRegistered, OneEnds,
         Opening, Ending
    <2>3. UnregisteredIsInactive'
      BY <1>1, <1>3 DEF Owned, UnregisteredIsInactive, Unregistering
    <2>4. RunningIsOwned'
      BY <1>2, <1>4, <2>1 DEF Owned, RunningIsOwned, Running
    <2> QED BY <1>2, <2>2, <2>3, <2>4 DEF Owned
  <1>10. Following'
    <2> SUFFICES ASSUME Followed, Owned PROVE Followed'
      BY <1>2, Conditions DEF Following, Followed
    <2>1. registry = s /\ state[s] # "unused" /\ user = "Active" /\ userSession = s
      BY <1>1 DEF Owned, ThreadsWorkOnRegistered, Opening, RegisteredIsUsed, Followed,
         OnlineIsUsers, Reviving
    <2>2. \A x \in Sessions \ {s} :
             (Reviving(x)' <=> Reviving(x)) /\ (Wanted(x)' => Wanted(x))
      BY <1>1, <1>2, <1>3 DEF Reviving, Wanted
    <2>3. OnlineIsUsers'
      <3> SUFFICES ASSUME NEW x \in Sessions, Running(x)' \/ Reviving(x)'
          PROVE  user' = "Active" /\ userSession' = x
        BY DEF OnlineIsUsers
      <3>1. CASE x = s
        BY <1>2, <2>1, <3>1 DEF maps
      <3>2. CASE x # s
        <4>1. Running(x) \/ Reviving(x)
          BY <1>4, <2>2, <3>2 DEF Running
        <4> QED BY <1>2, <4>1 DEF Followed, OnlineIsUsers, maps
      <3> QED BY <3>1, <3>2
    <2>4. WantedComesOnline'
      <3> SUFFICES ASSUME NEW x \in Sessions, Wanted(x)'
          PROVE  (state'[x] \in {"waiting", "active"} /\ ~deferredClose'[x]) \/ Reviving(x)'
        BY DEF WantedComesOnline
      <3>1. CASE x = s
        <4>1. state'[s] \in {"waiting", "active"}
          BY <1>4, <2>1
        <4> QED BY <1>4, <3>1, <4>1
      <3>2. CASE x # s
        <4>1. state'[x] = state[x] /\ (deferredClose'[x] <=> deferredClose[x])
          BY <1>4, <3>2
        <4>2. (state[x] \in {"waiting", "active"} /\ ~deferredClose[x]) \/ Reviving(x)
          BY <2>1, <2>2, <3>2 DEF Followed, WantedComesOnline
        <4> QED BY <2>2, <3>2, <4>1, <4>2
      <3> QED BY <3>1, <3>2
    <2>5. UserKnown' /\ WantedWaits'
      BY <1>2, <2>1 DEF Followed, UserKnown, WantedWaits, maps
    <2> QED BY <2>3, <2>4, <2>5 DEF Followed
  <1> QED BY <1>3, <1>5, <1>6, <1>7, <1>8, <1>9, <1>10, NextTypeParts

LEMMA BindStep ==
    ASSUME IInv, NEW t \in AppThreads, Bind(t) PROVE IInv'
  <1> USE Distinct DEF IInv
  <1> DEFINE s == thread[t].session
  <1>0. ThreadOK /\ SessionsOK /\ UserOK /\ ManagerOK /\ GhostsOK
    BY TypeParts
  <1>1. /\ t \in Threads /\ thread[t].at = "bind" /\ s \in Sessions
        /\ thread[t].call \in {"get_session", "log_in"}
        /\ thread[t].call = "get_session" => managerLock = t
    BY <1>0 DEF Bind, At, Locking, CallHoldsLocks, Opening, ThreadOK, Call, Ending
  <1>2. UNCHANGED <<registry, locks, maps, policy, state, deferredClose, referenced, calls,
                   ghosts, asserted>>
    BY DEF Bind
  <1>3. /\ ThreadOK'
        /\ \/ /\ thread'[t].call = "get_session" /\ thread'[t].session = s
              /\ thread'[t].at = "refer" /\ thread[t].call = "get_session"
           \/ /\ thread'[t].at = "idle" /\ thread'[t].call = "none"
              /\ thread'[t].session = None /\ thread[t].call = "log_in"
        /\ \A u \in Threads \ {t} : thread'[u] = thread[u]
    <2>1. CASE thread[t].call = "get_session"
      <3>1. thread' = [thread EXCEPT ![t].at = "refer"]
        BY <2>1 DEF Bind, Goes, Revived
      <3> QED BY <1>0, <1>1, <2>1, <3>1, GoingStep DEF Place
    <2>2. CASE thread[t].call = "log_in"
      <3>1. Returns(t)
        BY <2>2 DEF Bind, Revived
      <3> QED BY <1>0, <1>1, <2>2, <3>1, ReturningStep
    <2> QED BY <1>1, <2>1, <2>2
  <1>4. SessionsOK' /\ UserOK' /\ ManagerOK' /\ GhostsOK'
    BY <1>0, <1>2 DEF SessionsOK, UserOK, ManagerOK, GhostsOK, locks, maps, ghosts
  <1>5. Locking'
    <2>1. CallHoldsLocks(t)' /\ LockIsHeld(t)'
      BY <1>1, <1>2, <1>3 DEF Locking, CallHoldsLocks, LockIsHeld, Opening, Ending, locks
    <2> QED BY <1>1, <1>2, <1>3, <2>1, OthersKeepLocks DEF locks, maps
  <1>6. RegisteredIsUsed'
    BY <1>2 DEF RegisteredIsUsed
  <1>7. Ownership'
    <2> SUFFICES ASSUME Owned PROVE Owned'
      BY <1>2, Conditions DEF ghosts, Ownership, Owned
    <2> QED
      BY <1>1, <1>2, <1>3 DEF Owned, ThreadsWorkOnRegistered, ReferencedIsRegistered, OneEnds,
         UnregisteredIsInactive, RunningIsOwned, Running, Opening, Ending
  <1>8. Following'
    BY <1>1, <1>2, <1>3, QuietStep DEF ghosts, locks
  <1> QED BY <1>3, <1>4, <1>5, <1>6, <1>7, <1>8, NextTypeParts

LEMMA ReferStep ==
    ASSUME IInv, NEW t \in AppThreads, Refer(t) PROVE IInv'
  <1> USE Distinct DEF IInv
  <1> DEFINE s == thread[t].session
  <1>0. ThreadOK /\ SessionsOK /\ UserOK /\ ManagerOK /\ GhostsOK
    BY TypeParts
  <1>1. /\ t \in Threads /\ thread[t].at = "refer" /\ s \in Sessions
        /\ thread[t].call = "get_session" /\ managerLock = t
    BY <1>0 DEF Refer, At, Locking, CallHoldsLocks, Opening, ThreadOK, Call, Ending
  <1>2. /\ referenced' = [referenced EXCEPT ![s] = TRUE] /\ managerLock' = None
        /\ UNCHANGED <<registry, userLock, maps, policy, state, deferredClose, calls, ghosts,
                       asserted>>
    BY DEF Refer
  <1>3. /\ ThreadOK' /\ thread'[t].at = "idle" /\ thread'[t].call = "none"
        /\ thread'[t].session = None
        /\ \A u \in Threads \ {t} : thread'[u] = thread[u]
    BY <1>0, <1>1, ReturningStep DEF Refer
  <1>4. \A x \in Sessions : referenced'[x] => referenced[x] \/ x = s
    BY <1>0, <1>2 DEF SessionsOK
  <1>5. SessionsOK' /\ UserOK' /\ ManagerOK' /\ GhostsOK'
    <2>1. SessionsOK'
      BY <1>0, <1>1, <1>2 DEF SessionsOK
    <2>2. UserOK' /\ GhostsOK'
      BY <1>0, <1>2 DEF UserOK, GhostsOK, maps, ghosts
    <2>3. ManagerOK'
      BY <1>0, <1>2 DEF ManagerOK
    <2> QED BY <2>1, <2>2, <2>3
  <1>6. Locking'
    <2>1. CallHoldsLocks(t)' /\ LockIsHeld(t)'
      BY <1>1, <1>2, <1>3 DEF Locking, CallHoldsLocks, LockIsHeld, Opening, Ending
    <2> QED BY <1>1, <1>2, <1>3, <2>1, OthersKeepLocks DEF maps
  <1>7. RegisteredIsUsed'
    BY <1>2 DEF RegisteredIsUsed
  <1>8. Ownership'
    <2> SUFFICES ASSUME Owned PROVE Owned'
      BY <1>2, Conditions DEF ghosts, Ownership, Owned
    <2>1. ReferencedIsRegistered'
      BY <1>1, <1>2, <1>4 DEF Owned, ReferencedIsRegistered, ThreadsWorkOnRegistered, Opening
    <2> QED
      BY <1>1, <1>2, <1>3, <2>1 DEF Owned, ThreadsWorkOnRegistered, OneEnds,
         UnregisteredIsInactive, RunningIsOwned, Running, Opening, Ending
  <1>9. Following'
    <2> SUFFICES ASSUME Followed PROVE Followed'
      BY <1>2, Conditions DEF ghosts, Following, Followed
    <2>1. \A x \in Sessions : (Reviving(x)' <=> Reviving(x)) /\ (Wanted(x)' => Wanted(x))
      BY <1>1, <1>3, <1>4 DEF Reviving, Wanted
    <2> QED
      BY <1>2, <2>1 DEF Followed, UserKnown, OnlineIsUsers, WantedComesOnline, WantedWaits,
         Running, maps
  <1> QED BY <1>3, <1>5, <1>6, <1>7, <1>8, <1>9, NextTypeParts

LEMMA DropReferenceStep ==
    ASSUME IInv, NEW t \in AppThreads, NEW s \in Sessions, DropReference(t, s) PROVE IInv'
  <1> USE Distinct DEF IInv
  <1>0. ThreadOK /\ SessionsOK /\ UserOK /\ ManagerOK /\ GhostsOK
    BY TypeParts
  <1>1. /\ t \in Threads /\ thread[t].at = "idle" /\ thread[t].call = "none"
        /\ thread[t].session = None /\ referenced[s]
    BY DEF DropReference, IsIdle, At, Locking, CallHoldsLocks
  <1>2. /\ referenced' = [referenced EXCEPT ![s] = FALSE]
        /\ calls < MaxCalls /\ calls' = calls + 1
        /\ UNCHANGED <<registry, locks, maps, policy, state, deferredClose, overtaken, failed,
                       asserted>>
    BY DEF DropReference
  <1>3. /\ ThreadOK'
        /\ \/ thread'[t].at = "idle" /\ thread'[t].call = "none" /\ thread'[t].session = None
           \/ thread'[t].at = "dropped" /\ thread'[t].call = "drop" /\ thread'[t].session = s
        /\ \A u \in Threads \ {t} : thread'[u] = thread[u]
        /\ overlapped' \in BOOLEAN /\ (overlapped => overlapped')
        /\ thread'[t].at = "dropped" /\ ~overlapped' => ~OtherEnding(t)
    <2>1. CASE UNCHANGED <<thread, overlapped>>
      BY <1>0, <1>1, <2>1 DEF ThreadOK, GhostsOK
    <2>2. CASE /\ thread' = [thread EXCEPT ![t] =
                      [at |-> "dropped", call |-> "drop", session |-> s, fresh |-> FALSE]]
               /\ overlapped' = (overlapped \/ OtherEnding(t))
      <3>1. t \in Threads
        OBVIOUS
      <3>2. /\ ThreadOK' /\ thread'[t].at = "dropped" /\ thread'[t].call = "drop"
            /\ thread'[t].session = s
            /\ \A u \in Threads \ {t} : thread'[u] = thread[u]
        <4>1. Enters(t, "dropped", "drop", s, FALSE)
          BY <2>2 DEF Enters
        <4> QED BY <1>0, <3>1, <4>1, Names, CallingStep
      <3>3. (overlapped => overlapped') /\ (~overlapped' => ~OtherEnding(t))
        BY <2>2
      <3>4. overlapped' \in BOOLEAN
        BY <1>0, <2>2 DEF GhostsOK
      <3> QED BY <3>2, <3>3, <3>4
    <2> QED BY <2>1, <2>2 DEF DropReference
  <1>4. \A x \in Sessions : referenced'[x] => referenced[x]
    BY <1>0, <1>2 DEF SessionsOK
  <1>5. SessionsOK' /\ UserOK' /\ ManagerOK' /\ GhostsOK'
    <2>1. SessionsOK'
      BY <1>0, <1>2 DEF SessionsOK
    <2>2. UserOK'
      BY <1>0, <1>2 DEF UserOK, maps
    <2>3. ManagerOK'
      BY <1>0, <1>2, SyncRegistryAssumption DEF ManagerOK, locks
    <2>4. GhostsOK'
      BY <1>0, <1>2, <1>3 DEF GhostsOK
    <2> QED BY <2>1, <2>2, <2>3, <2>4
  <1>6. Locking'
    <2>1. CallHoldsLocks(t)' /\ LockIsHeld(t)'
      BY <1>1, <1>2, <1>3 DEF Locking, CallHoldsLocks, LockIsHeld, Opening, Ending, locks
    <2> QED BY <1>1, <1>2, <1>3, <2>1, OthersKeepLocks DEF maps, locks
  <1>7. RegisteredIsUsed'
    BY <1>2 DEF RegisteredIsUsed
  <1>8. Ownership'
    <2> SUFFICES ASSUME Owned, thread'[t].at = "dropped" => ~OtherEnding(t) PROVE Owned'
      BY <1>2, <1>3, Conditions DEF Ownership, Owned
    <2>1. registry = s
      BY <1>1 DEF Owned, ReferencedIsRegistered
    <2>2. OneEnds'
      BY <1>1, <1>3 DEF Owned, OneEnds, OtherEnding, Ending
    <2>3. ThreadsWorkOnRegistered'
      BY <1>1, <1>2, <1>3, <2>1 DEF Owned, ThreadsWorkOnRegistered, Opening, Ending
    <2>4. ReferencedIsRegistered' /\ RunningIsOwned'
      BY <1>2, <1>4 DEF Owned, ReferencedIsRegistered, RunningIsOwned, Running
    <2>5. UnregisteredIsInactive'
      BY <1>2, <1>3 DEF Owned, UnregisteredIsInactive
    <2> QED BY <1>2, <2>2, <2>3, <2>4, <2>5 DEF Owned
  <1>9. Following'
    <2>1. (overlapped => overlapped') /\ (overtaken => overtaken')
      BY <1>2, <1>3
    <2>2. /\ thread'[t].at # "revive" /\ thread'[t].at \notin {"bind", "refer"}
          /\ thread[t].at # "revive"
      BY <1>1, <1>3
    <2>3. UNCHANGED <<state, deferredClose, userLock, maps, failed>>
      BY <1>2 DEF locks
    <2> QED BY <1>1, <1>3, <1>4, <2>1, <2>2, <2>3, QuietStep
  <1> QED BY <1>3, <1>5, <1>6, <1>7, <1>8, <1>9, NextTypeParts

\* A session that the user logs out is inactive or about to be unregistered; no
\* other session runs or is about to.
LEMMA LogOutStep ==
    ASSUME IInv, NEW t \in AppThreads, LogOut(t) PROVE IInv'
  <1> USE Distinct DEF IInv
  <1> DEFINE s == userSession
  <1>0. ThreadOK /\ SessionsOK /\ UserOK /\ ManagerOK /\ GhostsOK
    BY TypeParts
  <1>1. /\ t \in Threads /\ thread[t].at = "idle" /\ thread[t].call = "none"
        /\ userLock = None /\ user # "LoggedOut"
    BY DEF LogOut, IsIdle, At, Locking, CallHoldsLocks
  <1>2. /\ calls < MaxCalls /\ calls' = calls + 1 /\ userLock' = t /\ user' = "LoggedOut"
        /\ UNCHANGED <<registry, managerLock, waitingSession, policy,
                       deferredClose, referenced, failed, asserted>>
        /\ userSession' \in {userSession, None} /\ (Alive(s) => userSession' = s)
    BY DEF LogOut
  <1>3. \/ /\ Alive(s) /\ Running(s)
           /\ state' = [state EXCEPT ![s] = "inactive"]
           /\ overlapped' = (overlapped \/ OtherEnding(t))
           /\ overtaken' = (overtaken \/ BeingRevived(s))
           /\ thread' = [thread EXCEPT ![t] =
                 [at |-> "unregister", call |-> "log_out", session |-> s, fresh |-> FALSE]]
        \/ /\ ~(Alive(s) /\ Running(s))
           /\ overtaken' = (overtaken \/ (s # None /\ BeingRevived(s)))
           /\ thread' = [thread EXCEPT ![t] =
                 [at |-> "logged out", call |-> "log_out", session |-> None, fresh |-> FALSE]]
           /\ UNCHANGED <<state, overlapped>>
    BY DEF LogOut
  <1>4. Alive(s) => s \in Sessions
    BY DEF Alive
  <1>5. /\ ThreadOK' /\ thread'[t].call = "log_out"
        /\ \/ thread'[t].at = "unregister" /\ thread'[t].session = s /\ Alive(s) /\ Running(s)
           \/ thread'[t].at = "logged out" /\ ~(Alive(s) /\ Running(s))
        /\ \A u \in Threads \ {t} : thread'[u] = thread[u]
    <2>1. CASE /\ Alive(s) /\ Running(s)
               /\ thread' = [thread EXCEPT ![t] =
                     [at |-> "unregister", call |-> "log_out", session |-> s, fresh |-> FALSE]]
      <3>1. /\ ThreadOK' /\ thread'[t].at = "unregister" /\ thread'[t].call = "log_out"
            /\ thread'[t].session = s
            /\ \A u \in Threads \ {t} : thread'[u] = thread[u]
        <4>1. Enters(t, "unregister", "log_out", s, FALSE) /\ s \in Sessions
          BY <1>4, <2>1 DEF Enters
        <4> QED BY <1>0, <1>1, <4>1, Names, CallingStep
      <3> QED BY <2>1, <3>1
    <2>2. CASE /\ ~(Alive(s) /\ Running(s))
               /\ thread' = [thread EXCEPT ![t] =
                     [at |-> "logged out", call |-> "log_out", session |-> None,
                      fresh |-> FALSE]]
      <3>1. /\ ThreadOK' /\ thread'[t].at = "logged out" /\ thread'[t].call = "log_out"
            /\ \A u \in Threads \ {t} : thread'[u] = thread[u]
        <4>1. Enters(t, "logged out", "log_out", None, FALSE)
          BY <2>2 DEF Enters
        <4> QED BY <1>0, <1>1, <4>1, Names, CallingStep
      <3> QED BY <2>2, <3>1
    <2> QED BY <1>3, <2>1, <2>2
  <1>6. SessionsOK' /\ UserOK' /\ ManagerOK' /\ GhostsOK'
    <2>1. SessionsOK'
      BY <1>0, <1>2, <1>3, <1>4 DEF SessionsOK
    <2>2. UserOK'
      BY <1>0, <1>2 DEF UserOK
    <2>3. ManagerOK'
      BY <1>0, <1>1, <1>2, SyncRegistryAssumption DEF ManagerOK
    <2>4. GhostsOK'
      BY <1>0, <1>2, <1>3 DEF GhostsOK
    <2> QED BY <2>1, <2>2, <2>3, <2>4
  <1>7. Locking'
    <2>1. CallHoldsLocks(t)' /\ LockIsHeld(t)'
      BY <1>1, <1>2, <1>4, <1>5 DEF Locking, CallHoldsLocks, LockIsHeld, Opening, Ending
    <2> QED BY <1>1, <1>2, <1>5, <2>1, OthersKeepLocks
  <1>8. \A x \in Sessions :
           /\ state[x] # "unused" => state'[x] # "unused"
           /\ state'[x] = state[x] \/ (x = s /\ state'[x] = "inactive")
    BY <1>0, <1>3, <1>4 DEF SessionsOK
  <1>9. RegisteredIsUsed'
    BY <1>0, <1>2, <1>8 DEF RegisteredIsUsed, ManagerOK
  <1>10. Ownership'
    <2> SUFFICES ASSUME Owned, thread'[t].at = "unregister" => ~OtherEnding(t) PROVE Owned'
      BY <1>2, <1>3, <1>5, Conditions DEF Ownership, Owned
    <2>1. thread'[t].at = "unregister" => registry = s /\ state'[s] = "inactive"
      BY <1>0, <1>3, <1>4, <1>5 DEF Owned, RunningIsOwned, SessionsOK
    <2>2. OneEnds'
      <3> SUFFICES ASSUME NEW u \in Threads, NEW v \in Threads, thread'[u].at \in Ending,
                          thread'[v].at \in Ending
          PROVE  u = v
        BY DEF OneEnds
      <3>1. CASE u # t /\ v # t
        BY <1>5, <3>1 DEF Owned, OneEnds
      <3>2. thread'[t].at \in Ending => ~OtherEnding(t)
        BY <1>5 DEF Ending
      <3>3. CASE u = t \/ v = t
        BY <1>5, <3>2, <3>3 DEF OtherEnding, Ending
      <3> QED BY <3>1, <3>3
    <2>3. UnregisteredIsInactive'
      <3> SUFFICES ASSUME NEW u \in Threads, thread'[u].at = "unregister"
          PROVE  state'[thread'[u].session] = "inactive"
        BY DEF UnregisteredIsInactive
      <3>1. CASE u = t
        BY <1>5, <2>1, <3>1
      <3>2. CASE u # t
        <4>1. thread'[u] = thread[u] /\ thread[u].session \in Sessions
          BY <1>5, <3>2 DEF Locking, CallHoldsLocks, Ending
        <4> QED BY <1>8, <4>1 DEF Owned, UnregisteredIsInactive
      <3> QED BY <3>1, <3>2
    <2>4. RunningIsOwned'
      BY <1>2, <1>8 DEF Owned, RunningIsOwned, Running
    <2> QED
      BY <1>1, <1>2, <1>5, <2>1, <2>2, <2>3, <2>4 DEF Owned, ThreadsWorkOnRegistered,
         ReferencedIsRegistered, Opening, Ending
  <1>11. Following'
    <2> SUFFICES ASSUME Owned, Followed, s # None => ~BeingRevived(s) PROVE Followed'
      BY <1>2, <1>3, Conditions DEF Following, Followed
    <2>1. user = "Active" /\ user' = "LoggedOut" /\ userLock' # None
      BY <1>0, <1>1, <1>2 DEF Followed, UserKnown
    <2>2. \A x \in Sessions : ~Reviving(x)
      BY DEF Followed, OnlineIsUsers, Reviving, BeingRevived
    <2>3. \A x \in Sessions : (Reviving(x)' <=> Reviving(x)) /\ (Wanted(x)' => Wanted(x))
      BY <1>1, <1>2, <1>5 DEF Reviving, Wanted
    <2>4. OnlineIsUsers'
      <3> SUFFICES ASSUME NEW x \in Sessions, Running(x)' PROVE FALSE
        BY <2>2, <2>3 DEF OnlineIsUsers
      <3>1. Running(x) /\ state'[x] = state[x]
        BY <1>8 DEF Running
      <3>2. x = s /\ registry = x
        BY <3>1 DEF Followed, OnlineIsUsers, Owned, RunningIsOwned
      <3>3. Alive(s)
        BY <3>2 DEF Alive
      <3>4. state'[s] = "inactive"
        BY <1>0, <1>3, <1>4, <3>1, <3>2, <3>3 DEF SessionsOK
      <3> QED BY <3>1, <3>2, <3>4 DEF Running
    <2>5. WantedWaits'
      <3> SUFFICES ASSUME NEW x \in Sessions, Wanted(x) PROVE userSession' = x
        BY <2>1, <2>3 DEF WantedWaits
      <3>1. Running(x)
        BY <2>1, <2>2 DEF Followed, WantedComesOnline, Running
      <3>2. x = s /\ registry = x
        BY <3>1 DEF Followed, OnlineIsUsers, Owned, RunningIsOwned
      <3>3. Alive(s)
        BY <3>2 DEF Alive
      <3> QED BY <1>2, <3>2, <3>3
    <2>6. UserKnown' /\ WantedComesOnline'
      BY <2>1 DEF UserKnown, WantedComesOnline
    <2> QED BY <2>4, <2>5, <2>6 DEF Followed
  <1> QED BY <1>5, <1>6, <1>7, <1>9, <1>10, <1>11, NextTypeParts

LEMMA LoggedOutStep ==
    ASSUME IInv, NEW t \in AppThreads, LoggedOut(t) PROVE IInv'
  <1> USE Distinct DEF IInv
  <1>0. ThreadOK /\ SessionsOK /\ UserOK /\ ManagerOK /\ GhostsOK
    BY TypeParts
  <1>1. /\ t \in Threads /\ thread[t].at = "logged out"
    BY DEF LoggedOut, At
  <1>2. thread[t].call = "log_out" /\ userLock = t /\ user = "LoggedOut"
    <2>1. thread[t].call \in Call
      BY <1>0, <1>1 DEF ThreadOK
    <2>2. CallHoldsLocks(t)
      BY <1>1 DEF Locking
    <2> QED BY <1>1, <2>1, <2>2 DEF CallHoldsLocks, Call, Opening, Ending
  <1>3. /\ waitingSession' = IF userSession # None THEN userSession ELSE waitingSession
        /\ userSession' = None /\ userLock' = None
        /\ UNCHANGED <<registry, managerLock, user, policy, state, deferredClose, referenced,
                       calls, ghosts, asserted>>
    BY DEF LoggedOut
  <1>4. /\ ThreadOK' /\ thread'[t].at = "idle" /\ thread'[t].call = "none"
        /\ thread'[t].session = None
        /\ \A u \in Threads \ {t} : thread'[u] = thread[u]
    BY <1>0, <1>1, ReturningStep DEF LoggedOut
  <1>5. SessionsOK' /\ UserOK' /\ ManagerOK' /\ GhostsOK'
    <2>1. SessionsOK' /\ GhostsOK'
      BY <1>0, <1>3 DEF SessionsOK, GhostsOK, ghosts
    <2>2. UserOK'
      BY <1>0, <1>3 DEF UserOK
    <2>3. ManagerOK'
      BY <1>0, <1>3 DEF ManagerOK
    <2> QED BY <2>1, <2>2, <2>3
  <1>6. managerLock # t
    BY <1>1, <1>2 DEF Locking, LockIsHeld
  <1>7. Locking'
    <2>1. CallHoldsLocks(t)' /\ LockIsHeld(t)'
      BY <1>1, <1>3, <1>4, <1>6 DEF CallHoldsLocks, LockIsHeld, Opening, Ending
    <2> QED BY <1>1, <1>2, <1>3, <1>4, <2>1, OthersKeepLocks
  <1>8. RegisteredIsUsed'
    BY <1>3 DEF RegisteredIsUsed
  <1>9. Ownership'
    <2> SUFFICES ASSUME Owned PROVE Owned'
      BY <1>3, Conditions DEF ghosts, Ownership, Owned
    <2>1. ThreadsWorkOnRegistered' /\ OneEnds' /\ UnregisteredIsInactive'
      BY <1>3, <1>4 DEF Owned, ThreadsWorkOnRegistered, OneEnds, UnregisteredIsInactive,
         Opening, Ending
    <2>2. ReferencedIsRegistered' /\ RunningIsOwned' /\ ~asserted'
      BY <1>3 DEF Owned, ReferencedIsRegistered, RunningIsOwned, Running
    <2> QED BY <2>1, <2>2 DEF Owned
  <1>10. Following'
    <2> SUFFICES ASSUME Followed PROVE Followed'
      BY <1>3, Conditions DEF ghosts, Following, Followed
    <2>1. \A x \in Sessions : (Reviving(x)' <=> Reviving(x)) /\ (Wanted(x)' => Wanted(x))
      BY <1>1, <1>3, <1>4 DEF Reviving, Wanted
    <2>2. OnlineIsUsers'
      BY <1>2, <1>3, <2>1 DEF Followed, OnlineIsUsers, Running
    <2>3. WantedWaits'
      <3> SUFFICES ASSUME NEW x \in Sessions, Wanted(x) PROVE waitingSession' = x
        BY <1>3, <2>1 DEF WantedWaits
      <3>1. userSession = x
        BY <1>1, <1>2 DEF Followed, WantedWaits
      <3> QED BY <1>3, <3>1
    <2>4. UserKnown' /\ WantedComesOnline'
      BY <1>2, <1>3 DEF UserKnown, WantedComesOnline
    <2> QED BY <2>2, <2>3, <2>4 DEF Followed
  <1> QED BY <1>4, <1>5, <1>7, <1>8, <1>9, <1>10, NextTypeParts

\* Nobody but the manager owns a session while the user is not being logged out.
LEMMA AliveIsRegistered ==
    ASSUME IInv, Owned, userLock = None, NEW s, Alive(s) PROVE registry = s /\ s \in Sessions
  <1>1. CASE s \in {registry} \cap Sessions
    BY <1>1
  <1>2. CASE s \in Sessions /\ (referenced[s] \/ state[s] = "waiting")
    BY <1>2 DEF Owned, ReferencedIsRegistered, RunningIsOwned, Running
  <1>3. ASSUME NEW t \in Threads, s \in Sessions,
               thread[t].session = s \/ (thread[t].call = "log_out" /\ userSession = s)
        PROVE  registry = s
    <2>1. ThreadOK
      BY TypeParts DEF IInv
    <2>2. thread[t].call # "log_out"
      BY Distinct DEF IInv, Locking, CallHoldsLocks
    <2>3. /\ thread[t].session = s /\ thread[t].at \in Place /\ thread[t].call \in Call
          /\ CallHoldsLocks(t) /\ s # None
      BY <1>3, <2>1, <2>2, Distinct DEF ThreadOK, IInv, Locking
    <2>4. thread[t].at \in Opening \cup Ending
      BY <2>2, <2>3 DEF CallHoldsLocks, Place, Call, Opening, Ending
    <2> QED BY <2>3, <2>4 DEF Owned, ThreadsWorkOnRegistered
  <1> QED BY <1>1, <1>2, <1>3 DEF Alive

LEMMA LogInStep ==
    ASSUME IInv, NEW t \in AppThreads, LogIn(t) PROVE IInv'
  <1> USE Distinct DEF IInv
  <1> DEFINE s == waitingSession
  <1>0. ThreadOK /\ SessionsOK /\ UserOK /\ ManagerOK /\ GhostsOK
    BY TypeParts
  <1>1. /\ t \in Threads /\ thread[t].at = "idle" /\ thread[t].call = "none"
        /\ thread[t].session = None /\ userLock = None /\ user = "LoggedOut"
    BY DEF LogIn, IsIdle, At, Locking, CallHoldsLocks
  <1>2. /\ calls < MaxCalls /\ calls' = calls + 1
        /\ user' = "Active" /\ waitingSession' = None
        /\ userSession' \in {userSession, s} /\ userLock' = userLock
        /\ UNCHANGED <<registry, managerLock, policy, state, deferredClose, referenced, ghosts,
                       asserted>>
    BY DEF LogIn, Begin, RevivesUnlocked
  <1>3. Alive(s) => s \in Sessions
    BY DEF Alive
  <1>4. /\ ThreadOK'
        /\ \/ /\ Alive(s) /\ userSession' = s
              /\ thread'[t].at = "revive" /\ thread'[t].call = "log_in"
              /\ thread'[t].session = s
           \/ ~Alive(s) /\ thread'[t] = thread[t]
        /\ \A u \in Threads \ {t} : thread'[u] = thread[u]
    <2>1. CASE /\ Alive(s) /\ userSession' = s
               /\ thread' = [thread EXCEPT ![t] =
                     [at |-> "revive", call |-> "log_in", session |-> s, fresh |-> FALSE]]
      <3>1. /\ ThreadOK' /\ thread'[t].at = "revive" /\ thread'[t].call = "log_in"
            /\ thread'[t].session = s
            /\ \A u \in Threads \ {t} : thread'[u] = thread[u]
        <4>1. Enters(t, "revive", "log_in", s, FALSE) /\ s \in Sessions
          BY <1>3, <2>1 DEF Enters
        <4> QED BY <1>0, <1>1, <4>1, Names, CallingStep
      <3> QED BY <2>1, <3>1
    <2>2. CASE ~Alive(s) /\ thread' = thread
      BY <1>0, <2>2 DEF ThreadOK
    <2> QED BY <2>1, <2>2 DEF LogIn, Begin
  <1>5. SessionsOK' /\ UserOK' /\ ManagerOK' /\ GhostsOK'
    <2>1. SessionsOK' /\ GhostsOK'
      BY <1>0, <1>2 DEF SessionsOK, GhostsOK, ghosts
    <2>2. UserOK'
      BY <1>0, <1>2 DEF UserOK
    <2>3. ManagerOK'
      BY <1>0, <1>2, SyncRegistryAssumption DEF ManagerOK
    <2> QED BY <2>1, <2>2, <2>3
  <1>6. Locking'
    <2>1. CallHoldsLocks(t)' /\ LockIsHeld(t)'
      BY <1>1, <1>2, <1>3, <1>4 DEF Locking, CallHoldsLocks, LockIsHeld, Opening, Ending
    <2> QED BY <1>1, <1>2, <1>4, <2>1, OthersKeepLocks
  <1>7. RegisteredIsUsed'
    BY <1>2 DEF RegisteredIsUsed
  <1>8. Ownership'
    <2> SUFFICES ASSUME Owned PROVE Owned'
      BY <1>2, Conditions DEF ghosts, Ownership, Owned
    <2>1. Alive(s) => registry = s
      BY <1>1, AliveIsRegistered
    <2>2. ThreadsWorkOnRegistered'
      BY <1>1, <1>2, <1>4, <2>1 DEF Owned, ThreadsWorkOnRegistered, Opening, Ending
    <2>3. OneEnds' /\ UnregisteredIsInactive'
      BY <1>1, <1>2, <1>4 DEF Owned, OneEnds, UnregisteredIsInactive, Ending
    <2>4. ReferencedIsRegistered' /\ RunningIsOwned'
      BY <1>2 DEF Owned, ReferencedIsRegistered, RunningIsOwned, Running
    <2>5. ~asserted'
      BY <1>2 DEF Owned
    <2> QED BY <2>2, <2>3, <2>4, <2>5 DEF Owned
  <1>9. Following'
    <2> SUFFICES ASSUME Followed PROVE Followed'
      BY <1>2, Conditions DEF ghosts, Following, Followed
    <2>1. \A x \in Sessions : ~Running(x) /\ ~Reviving(x)
      BY <1>1 DEF Followed, OnlineIsUsers
    <2>2. \A x \in Sessions : Wanted(x)' => Wanted(x)
      BY <1>1, <1>2, <1>4 DEF Wanted
    <2>3. OnlineIsUsers'
      <3> SUFFICES ASSUME NEW x \in Sessions, Running(x)' \/ Reviving(x)'
          PROVE  userSession' = x
        BY <1>2 DEF OnlineIsUsers
      <3>1. Reviving(x)'
        BY <1>2, <2>1 DEF Running
      <3> QED BY <1>1, <1>4, <2>1, <3>1 DEF Reviving
    <2>4. WantedComesOnline'
      <3> SUFFICES ASSUME NEW x \in Sessions, Wanted(x) PROVE Reviving(x)'
        BY <2>2 DEF WantedComesOnline
      <3>1. s = x
        BY <1>1 DEF Followed, WantedWaits
      <3>2. Alive(x)
        BY DEF Wanted, Alive
      <3> QED BY <1>1, <1>4, <3>1, <3>2 DEF Reviving
    <2>5. UserKnown' /\ WantedWaits'
      BY <1>2 DEF UserKnown, WantedWaits
    <2> QED BY <2>3, <2>4, <2>5 DEF Followed
  <1> QED BY <1>4, <1>5, <1>6, <1>7, <1>8, <1>9, NextTypeParts

LEMMA TokenArrivesStep ==
    ASSUME IInv, NEW s \in Sessions, TokenArrives(s) PROVE IInv'
  <1> USE Distinct DEF IInv
  <1>0. ThreadOK /\ SessionsOK /\ UserOK /\ ManagerOK /\ GhostsOK
    BY TypeParts
  <1>1. /\ state[s] = "waiting"
        /\ state' = [state EXCEPT ![s] =
              IF deferredClose[s] /\ policy = "AfterChangesUploaded"
              THEN "dying" ELSE "active"]
        /\ deferredClose' = [deferredClose EXCEPT ![s] = FALSE]
        /\ UNCHANGED <<registry, locks, maps, policy, referenced, thread, calls, ghosts,
                       asserted>>
    BY DEF TokenArrives
  <1>2. /\ state'[s] \in {"dying", "active"} /\ ~deferredClose'[s]
        /\ ~deferredClose[s] => state'[s] = "active"
        /\ \A x \in Sessions \ {s} :
              state'[x] = state[x] /\ (deferredClose'[x] <=> deferredClose[x])
    BY <1>0, <1>1 DEF SessionsOK
  <1>3. SessionsOK'
    BY <1>0, <1>1 DEF SessionsOK
  <1>4. ThreadOK' /\ UserOK' /\ ManagerOK' /\ GhostsOK'
    BY <1>0, <1>1 DEF ThreadOK, UserOK, ManagerOK, GhostsOK, locks, maps, ghosts
  <1>5. Locking'
    BY <1>1 DEF Locking, CallHoldsLocks, LockIsHeld, locks, maps
  <1>6. RegisteredIsUsed'
    BY <1>0, <1>1, <1>2 DEF RegisteredIsUsed, ManagerOK
  <1>7. Ownership'
    <2> SUFFICES ASSUME Owned PROVE Owned'
      BY <1>1, Conditions DEF ghosts, Ownership, Owned
    <2>1. ThreadsWorkOnRegistered' /\ ReferencedIsRegistered' /\ OneEnds'
      BY <1>1 DEF Owned, ThreadsWorkOnRegistered, ReferencedIsRegistered, OneEnds
    <2>2. UnregisteredIsInactive'
      <3> SUFFICES ASSUME NEW u \in Threads, thread[u].at = "unregister"
          PROVE  state'[thread[u].session] = "inactive"
        BY <1>1 DEF UnregisteredIsInactive
      <3>1. thread[u].session \in Sessions /\ state[thread[u].session] = "inactive"
        BY DEF Owned, UnregisteredIsInactive, Locking, CallHoldsLocks, Ending
      <3> QED BY <1>1, <1>2, <3>1
    <2>3. RunningIsOwned'
      BY <1>1, <1>2 DEF Owned, RunningIsOwned, Running
    <2>4. ~asserted'
      BY <1>1 DEF Owned
    <2> QED BY <2>1, <2>2, <2>3, <2>4 DEF Owned
  <1>8. Following'
    <2> SUFFICES ASSUME Followed PROVE Followed'
      BY <1>1, Conditions DEF ghosts, Following, Followed
    <2>1. \A x \in Sessions : (Reviving(x)' <=> Reviving(x)) /\ (Wanted(x)' <=> Wanted(x))
      BY <1>1 DEF Reviving, Wanted
    <2>2. \A x \in Sessions : Running(x)' => Running(x)
      BY <1>1, <1>2 DEF Running
    <2>3. OnlineIsUsers'
      BY <1>1, <2>1, <2>2 DEF Followed, OnlineIsUsers, maps
    <2>4. WantedComesOnline'
      <3> SUFFICES ASSUME NEW x \in Sessions, user = "Active", Wanted(x)
          PROVE  (state'[x] \in {"waiting", "active"} /\ ~deferredClose'[x]) \/ Reviving(x)
        BY <1>1, <2>1 DEF WantedComesOnline, maps
      <3>1. (state[x] \in {"waiting", "active"} /\ ~deferredClose[x]) \/ Reviving(x)
        BY DEF Followed, WantedComesOnline
      <3> QED BY <1>2, <3>1
    <2>5. UserKnown' /\ WantedWaits'
      BY <1>1, <2>1 DEF Followed, UserKnown, WantedWaits, maps, locks
    <2> QED BY <2>3, <2>4, <2>5 DEF Followed
  <1> QED BY <1>3, <1>4, <1>5, <1>6, <1>7, <1>8, NextTypeParts

LEMMA InvalidateStep ==
    ASSUME IInv, NEW s \in Sessions, Invalidate(s) PROVE IInv'
  <1> USE Distinct DEF IInv
  <1>0. ThreadOK /\ SessionsOK /\ UserOK /\ ManagerOK /\ GhostsOK
    BY TypeParts
  <1>1. /\ userLock = None /\ calls < MaxCalls /\ calls' = calls + 1
        /\ user' = "Error" /\ failed' = TRUE
        /\ UNCHANGED <<registry, locks, userSession, waitingSession, policy, state,
                       deferredClose, referenced, thread, overlapped, overtaken, asserted>>
    BY DEF Invalidate
  <1>2. ThreadOK' /\ SessionsOK' /\ UserOK' /\ GhostsOK'
    BY <1>0, <1>1 DEF ThreadOK, SessionsOK, UserOK, GhostsOK
  <1>3. ManagerOK'
    BY <1>0, <1>1, SyncRegistryAssumption DEF ManagerOK, locks
  <1>4. Locking'
    <2> SUFFICES ASSUME NEW u \in Threads PROVE CallHoldsLocks(u)' /\ LockIsHeld(u)'
      BY DEF Locking
    <2>1. CallHoldsLocks(u) /\ LockIsHeld(u) /\ thread'[u] = thread[u]
      BY <1>1 DEF Locking
    <2> QED BY <1>1, <2>1 DEF CallHoldsLocks, LockIsHeld, locks
  <1>5. RegisteredIsUsed' /\ Ownership'
    BY <1>1 DEF RegisteredIsUsed, Ownership, ThreadsWorkOnRegistered, ReferencedIsRegistered,
       OneEnds, UnregisteredIsInactive, RunningIsOwned, Running
  <1>6. Following'
    BY <1>1 DEF Following
  <1> QED BY <1>2, <1>3, <1>4, <1>5, <1>6, NextTypeParts

\* A session becomes inactive and is about to be unregistered.
LEMMA InactiveStep ==
    ASSUME IInv, NEW t \in Threads, NEW s \in Sessions,
           state' = [state EXCEPT ![s] = "inactive"],
           thread[t].at \notin Opening,
           thread'[t].at = "unregister", thread'[t].session = s,
           \A u \in Threads \ {t} : thread'[u] = thread[u],
           ~overlapped' => ~overlapped /\ ~OtherEnding(t),
           ~overtaken' => ~overtaken /\ ~BeingRevived(s),
           ~failed' => ~failed,
           UNCHANGED <<registry, userLock, maps, deferredClose, referenced, asserted>>,
           Owned => registry = s,
           Followed /\ ~failed' /\ ~BeingRevived(s) => ~(referenced[s] /\ user = "Active")
    PROVE  RegisteredIsUsed' /\ Ownership' /\ Following'
  <1> USE DEF IInv
  <1>0. SessionsOK /\ ManagerOK
    BY TypeParts
  <1>1. state'[s] = "inactive" /\ \A x \in Sessions \ {s} : state'[x] = state[x]
    BY <1>0 DEF SessionsOK
  <1>2. RegisteredIsUsed'
    BY <1>0, <1>1 DEF RegisteredIsUsed, ManagerOK
  <1>3. Ownership'
    <2> SUFFICES ASSUME Owned, ~OtherEnding(t) PROVE Owned'
      BY Conditions DEF Ownership, Owned
    <2>1. OneEnds'
      BY DEF Owned, OneEnds, OtherEnding, Ending
    <2>2. ThreadsWorkOnRegistered' /\ ReferencedIsRegistered'
      BY DEF Owned, ThreadsWorkOnRegistered, ReferencedIsRegistered, Ending, Opening
    <2>3. UnregisteredIsInactive'
      <3> SUFFICES ASSUME NEW u \in Threads, thread'[u].at = "unregister"
          PROVE  state'[thread'[u].session] = "inactive"
        BY DEF UnregisteredIsInactive
      <3>1. u = t
        BY DEF OtherEnding
      <3> QED BY <1>1, <3>1
    <2>4. RunningIsOwned'
      BY <1>1 DEF Owned, RunningIsOwned, Running
    <2>5. ~asserted'
      BY DEF Owned
    <2> QED BY <2>1, <2>2, <2>3, <2>4, <2>5 DEF Owned
  <1>4. Following'
    <2> SUFFICES ASSUME Followed, ~failed', ~BeingRevived(s) PROVE Followed'
      BY Conditions DEF Following, Followed
    <2>1. \A x \in Sessions : (Reviving(x)' <=> Reviving(x)) /\ (Wanted(x)' <=> Wanted(x))
      BY DEF Reviving, Wanted, Opening
    <2>2. \A x \in Sessions : Running(x)' => Running(x)
      BY <1>1 DEF Running
    <2>3. OnlineIsUsers'
      BY <2>1, <2>2 DEF Followed, OnlineIsUsers, maps
    <2>4. WantedComesOnline'
      <3> SUFFICES ASSUME NEW x \in Sessions, user = "Active", Wanted(x)
          PROVE  (state'[x] \in {"waiting", "active"} /\ ~deferredClose[x]) \/ Reviving(x)
        BY <2>1 DEF WantedComesOnline, maps
      <3>1. x # s
        BY DEF Wanted, BeingRevived
      <3>2. (state[x] \in {"waiting", "active"} /\ ~deferredClose[x]) \/ Reviving(x)
        BY DEF Followed, WantedComesOnline
      <3> QED BY <1>1, <3>1, <3>2
    <2>5. UserKnown' /\ WantedWaits'
      BY <2>1 DEF Followed, UserKnown, WantedWaits, maps
    <2> QED BY <2>3, <2>4, <2>5 DEF Followed
  <1> QED BY <1>2, <1>3, <1>4

LEMMA FinishDyingStep ==
    ASSUME IInv, NEW s \in Sessions, FinishDying(s) PROVE IInv'
  <1> USE Distinct DEF IInv
  <1>0. ThreadOK /\ SessionsOK /\ UserOK /\ ManagerOK /\ GhostsOK
    BY TypeParts
  <1>1. /\ thread[Loop].at = "idle" /\ thread[Loop].call = "none" /\ state[s] = "dying"
    BY DEF FinishDying, IsIdle, At, Locking, CallHoldsLocks
  <1>2. /\ state' = [state EXCEPT ![s] = "inactive"]
        /\ overlapped' = (overlapped \/ OtherEnding(Loop))
        /\ overtaken' = (overtaken \/ BeingRevived(s))
        /\ UNCHANGED <<registry, locks, maps, policy, deferredClose, referenced, calls, failed,
                       asserted>>
    BY DEF FinishDying
  <1>3. /\ ThreadOK' /\ thread'[Loop].at = "unregister" /\ thread'[Loop].call = "end"
        /\ thread'[Loop].session = s
        /\ \A u \in Threads \ {Loop} : thread'[u] = thread[u]
    <2>1. Enters(Loop, "unregister", "end", s, FALSE)
      BY DEF FinishDying, Enters
    <2> QED BY <1>0, <2>1, Names, CallingStep
  <1>4. SessionsOK' /\ UserOK' /\ ManagerOK' /\ GhostsOK'
    <2>1. SessionsOK' /\ UserOK'
      BY <1>0, <1>2 DEF SessionsOK, UserOK, maps
    <2>2. ManagerOK'
      BY <1>0, <1>2, SyncRegistryAssumption DEF ManagerOK, locks
    <2>3. GhostsOK'
      BY <1>0, <1>2 DEF GhostsOK
    <2> QED BY <2>1, <2>2, <2>3
  <1>5. Locking'
    <2>1. CallHoldsLocks(Loop)' /\ LockIsHeld(Loop)'
      BY <1>1, <1>2, <1>3 DEF Locking, CallHoldsLocks, LockIsHeld, Opening, Ending, locks
    <2> QED BY <1>2, <1>3, <2>1, OthersKeepLocks DEF locks, maps
  <1>6. Owned => registry = s
    BY <1>1 DEF Owned, RunningIsOwned, Running
  <1>7. Followed /\ ~failed' /\ ~BeingRevived(s) => ~(referenced[s] /\ user = "Active")
    <2> SUFFICES ASSUME Followed, ~BeingRevived(s), referenced[s], user = "Active"
        PROVE  FALSE
      OBVIOUS
    <2>1. Reviving(s)
      BY <1>1 DEF Followed, WantedComesOnline, Wanted
    <2> QED BY <2>1 DEF Reviving, BeingRevived
  <1>8. /\ ~overlapped' => ~overlapped /\ ~OtherEnding(Loop)
        /\ ~overtaken' => ~overtaken /\ ~BeingRevived(s)
        /\ ~failed' => ~failed
    BY <1>2
  <1>9. RegisteredIsUsed' /\ Ownership' /\ Following'
    <2>1. thread[Loop].at \notin Opening
      BY <1>1 DEF Opening
    <2>2. UNCHANGED <<registry, userLock, maps, deferredClose, referenced, asserted>>
      BY <1>2 DEF locks
    <2> QED BY <1>2, <1>3, <1>6, <1>7, <1>8, <2>1, <2>2, InactiveStep
  <1> QED BY <1>3, <1>4, <1>5, <1>9, NextTypeParts

LEMMA FailStep ==
    ASSUME IInv, NEW s \in Sessions, Fail(s) PROVE IInv'
  <1> USE Distinct DEF IInv
  <1>0. ThreadOK /\ SessionsOK /\ UserOK /\ ManagerOK /\ GhostsOK
    BY TypeParts
  <1>1. /\ thread[Loop].at = "idle" /\ thread[Loop].call = "none" /\ state[s] = "active"
    BY DEF Fail, IsIdle, At, Locking, CallHoldsLocks
  <1>2. /\ state' = [state EXCEPT ![s] = "inactive"]
        /\ overlapped' = (overlapped \/ OtherEnding(Loop))
        /\ overtaken' = (overtaken \/ BeingRevived(s))
        /\ calls < MaxCalls /\ calls' = calls + 1 /\ failed' = TRUE
        /\ UNCHANGED <<registry, locks, maps, policy, deferredClose, referenced, asserted>>
    BY DEF Fail
  <1>3. /\ ThreadOK' /\ thread'[Loop].at = "unregister" /\ thread'[Loop].call = "end"
        /\ thread'[Loop].session = s
        /\ \A u \in Threads \ {Loop} : thread'[u] = thread[u]
    <2>1. Enters(Loop, "unregister", "end", s, FALSE)
      BY DEF Fail, Enters
    <2> QED BY <1>0, <2>1, Names, CallingStep
  <1>4. SessionsOK' /\ UserOK' /\ ManagerOK' /\ GhostsOK'
    <2>1. SessionsOK' /\ UserOK'
      BY <1>0, <1>2 DEF SessionsOK, UserOK, maps
    <2>2. ManagerOK'
      BY <1>0, <1>2, SyncRegistryAssumption DEF ManagerOK, locks
    <2>3. GhostsOK'
      BY <1>0, <1>2 DEF GhostsOK
    <2> QED BY <2>1, <2>2, <2>3
  <1>5. Locking'
    <2>1. CallHoldsLocks(Loop)' /\ LockIsHeld(Loop)'
      BY <1>1, <1>2, <1>3 DEF Locking, CallHoldsLocks, LockIsHeld, Opening, Ending, locks
    <2> QED BY <1>2, <1>3, <2>1, OthersKeepLocks DEF locks, maps
  <1>6. Owned => registry = s
    BY <1>1 DEF Owned, RunningIsOwned, Running
  <1>7. Followed /\ ~failed' /\ ~BeingRevived(s) => ~(referenced[s] /\ user = "Active")
    BY <1>2
  <1>8. /\ ~overlapped' => ~overlapped /\ ~OtherEnding(Loop)
        /\ ~overtaken' => ~overtaken /\ ~BeingRevived(s)
        /\ ~failed' => ~failed
    BY <1>2
  <1>9. RegisteredIsUsed' /\ Ownership' /\ Following'
    <2>1. thread[Loop].at \notin Opening
      BY <1>1 DEF Opening
    <2>2. UNCHANGED <<registry, userLock, maps, deferredClose, referenced, asserted>>
      BY <1>2 DEF locks
    <2> QED BY <1>2, <1>3, <1>6, <1>7, <1>8, <2>1, <2>2, InactiveStep
  <1> QED BY <1>3, <1>4, <1>5, <1>9, NextTypeParts

LEMMA UnregisterSessionStep ==
    ASSUME IInv, NEW t \in Threads, UnregisterSession(t) PROVE IInv'
  <1> USE Distinct DEF IInv
  <1>0. ThreadOK /\ SessionsOK /\ UserOK /\ ManagerOK /\ GhostsOK
    BY TypeParts
  <1>1. /\ thread[t].at = "unregister" /\ thread[t].session \in Sessions
        /\ thread[t].call \in {"drop", "log_out", "end"}
        /\ managerLock = None
    BY <1>0 DEF UnregisterSession, At, Locking, CallHoldsLocks, Opening, Ending, ThreadOK, Call
  <1>2. UNCHANGED <<userLock, maps, policy, state, deferredClose, referenced, calls,
                   overlapped, failed>>
    BY DEF UnregisterSession
  <1>3. \/ /\ registry = None /\ asserted' = TRUE
           /\ UNCHANGED <<registry, managerLock, thread, overtaken>>
        \/ /\ registry # None /\ Expired(registry) /\ registry' = None
           /\ Unregistered(t)
           /\ overtaken' = (overtaken \/ BeingRevived(registry))
           /\ UNCHANGED <<managerLock, asserted>>
        \/ /\ registry # None /\ managerLock' = t
           /\ thread' = [thread EXCEPT ![t].at = "peek", ![t].session = registry]
           /\ UNCHANGED <<registry, overtaken, asserted>>
    BY DEF UnregisterSession, LeaveRegistered
  <1>4. /\ ThreadOK'
        /\ \/ thread'[t] = thread[t] /\ registry = None /\ managerLock' = managerLock
           \/ /\ thread'[t].at = "idle" /\ thread'[t].call = "none"
              /\ thread'[t].session = None /\ managerLock' = managerLock
              /\ thread[t].call # "log_out"
           \/ /\ thread'[t].at = "logged out" /\ thread'[t].call = "log_out"
              /\ thread[t].call = "log_out" /\ managerLock' = managerLock
           \/ /\ thread'[t].at = "peek" /\ thread'[t].call = thread[t].call
              /\ thread'[t].session = registry /\ registry # None /\ managerLock' = t
              /\ registry' = registry
        /\ \A u \in Threads \ {t} : thread'[u] = thread[u]
    <2>1. CASE UNCHANGED <<thread, managerLock>> /\ registry = None
      BY <1>0, <2>1 DEF ThreadOK
    <2>2. CASE Unregistered(t) /\ UNCHANGED managerLock
      BY <1>0, <2>2, UnregisteredStep
    <2>3. CASE /\ registry # None /\ managerLock' = t /\ registry' = registry
               /\ thread' = [thread EXCEPT ![t].at = "peek", ![t].session = registry]
      <3>1. registry \in Sessions
        BY <1>0, <2>3 DEF ManagerOK
      <3>2. /\ ThreadOK' /\ thread'[t].at = "peek" /\ thread'[t].call = thread[t].call
            /\ thread'[t].session = registry
            /\ \A u \in Threads \ {t} : thread'[u] = thread[u]
        BY <1>0, <2>3, <3>1, TurningStep DEF Place
      <3> QED BY <2>3, <3>2
    <2> QED BY <1>3, <2>1, <2>2, <2>3
  <1>5. SessionsOK' /\ UserOK' /\ ManagerOK' /\ GhostsOK'
    <2>1. SessionsOK' /\ UserOK'
      BY <1>0, <1>2 DEF SessionsOK, UserOK, maps
    <2>2. ManagerOK'
      BY <1>0, <1>2, <1>3 DEF ManagerOK
    <2>3. GhostsOK'
      BY <1>0, <1>2, <1>3 DEF GhostsOK
    <2> QED BY <2>1, <2>2, <2>3
  <1>6. managerLock' = managerLock \/ (managerLock' = t /\ thread'[t].at = "peek")
    BY <1>4
  <1>7. Locking'
    <2>1. CallHoldsLocks(t)
      BY DEF Locking
    <2>2. registry # None => registry \in Sessions
      BY <1>0 DEF ManagerOK
    <2>3. CallHoldsLocks(t)'
      BY <1>1, <1>2, <1>4, <2>1, <2>2 DEF CallHoldsLocks, Opening, Ending, maps
    <2>4. LockIsHeld(t)'
      BY <1>1, <1>2, <1>4, <1>6 DEF Locking, LockIsHeld
    <2> QED BY <1>1, <1>2, <1>4, <1>6, <2>3, <2>4, OthersKeepLocks DEF maps
  <1>8. RegisteredIsUsed'
    BY <1>2, <1>3 DEF RegisteredIsUsed
  <1>9. Ownership'
    <2> SUFFICES ASSUME ~overlapped', ~overtaken' PROVE Owned'
      BY Conditions DEF Ownership, Owned
    <2>1. overtaken => overtaken'
      BY <1>3
    <2>2. Owned
      BY <1>2, <2>1, Conditions
    <2>3. registry = thread[t].session /\ registry # None
      BY <1>1, <2>2 DEF Owned, ThreadsWorkOnRegistered, Ending
    <2>4. ~asserted'
      BY <1>3, <2>2, <2>3 DEF Owned
    <2>5. OneEnds'
      BY <1>1, <1>4, <2>2 DEF Owned, OneEnds, Ending
    <2>6. UnregisteredIsInactive'
      BY <1>2, <1>4, <2>2, <2>3 DEF Owned, UnregisteredIsInactive
    <2>7. CASE registry' = registry
      <3>1. ThreadsWorkOnRegistered'
        BY <1>4, <2>2, <2>3, <2>7 DEF Owned, ThreadsWorkOnRegistered, Opening, Ending
      <3>2. ReferencedIsRegistered' /\ RunningIsOwned'
        BY <1>2, <2>2, <2>7 DEF Owned, ReferencedIsRegistered, RunningIsOwned, Running
      <3> QED BY <2>4, <2>5, <2>6, <3>1, <3>2 DEF Owned
    <2>8. CASE registry' # registry
      <3>1. Expired(registry) /\ registry' = None /\ ~BeingRevived(registry)
        BY <1>3, <2>3, <2>8
      <3>2. ThreadsWorkOnRegistered'
        <4> SUFFICES ASSUME NEW u \in Threads, thread'[u].at \in Opening \cup Ending
            PROVE  FALSE
          BY DEF ThreadsWorkOnRegistered
        <4>1. u # t
          BY <1>4, <2>3, <2>8 DEF Opening, Ending
        <4>2. thread'[u] = thread[u] /\ thread[u].session = registry
          BY <1>4, <2>2, <4>1 DEF Owned, ThreadsWorkOnRegistered
        <4>3. thread[u].at \notin Ending
          BY <1>1, <2>2, <4>1 DEF Owned, OneEnds, Ending
        <4>4. thread[u].at = "register"
          BY <3>1, <4>2, <4>3 DEF Opening, BeingRevived
        <4>5. thread[u].call \in Call /\ CallHoldsLocks(u)
          BY <1>0 DEF ThreadOK, Locking
        <4> QED BY <1>1, <4>4, <4>5 DEF CallHoldsLocks, Call, Ending
      <3>3. ReferencedIsRegistered'
        BY <1>2, <2>2, <3>1 DEF Owned, ReferencedIsRegistered, Expired
      <3>4. RunningIsOwned'
        BY <1>1, <1>2, <2>2, <2>3 DEF Owned, RunningIsOwned, Running, UnregisteredIsInactive
      <3> QED BY <2>4, <2>5, <2>6, <3>2, <3>3, <3>4 DEF Owned
    <2> QED BY <2>7, <2>8
  <1>10. Following'
    <2>1. overtaken => overtaken'
      BY <1>3
    <2>2. /\ thread'[t].at # "revive" /\ thread'[t].at \notin {"bind", "refer"}
          /\ thread[t].at # "revive"
      BY <1>1, <1>4
    <2> QED BY <1>2, <1>4, <2>1, <2>2, QuietStep
  <1> QED BY <1>4, <1>5, <1>7, <1>8, <1>9, <1>10, NextTypeParts

\* A session that is not referenced is closed, or left alone, and the thread is done.
LEMMA SettledStep ==
    ASSUME IInv, NEW t \in Threads, NEW s \in Sessions,
           thread[t].at \in {"dropped", "peek"}, thread'[t].at \in {"idle", "logged out"},
           thread[t].session = s,
           \A u \in Threads \ {t} : thread'[u] = thread[u],
           UNCHANGED <<registry, userLock, maps, referenced, overlapped, failed, asserted>>,
           \/ UNCHANGED <<state, deferredClose, overtaken>>
           \/ /\ ~referenced[s] /\ overtaken' = (overtaken \/ BeingRevived(s))
              /\ \/ /\ deferredClose' = [deferredClose EXCEPT ![s] = TRUE]
                    /\ state' = state
                 \/ /\ state[s] = "active" /\ state' = [state EXCEPT ![s] = "dying"]
                    /\ deferredClose' = deferredClose
    PROVE  SessionsOK' /\ overtaken' \in BOOLEAN /\ RegisteredIsUsed' /\ Ownership' /\ Following'
  <1> USE DEF IInv
  <1>0. SessionsOK /\ ManagerOK /\ GhostsOK
    BY TypeParts
  <1>1. SessionsOK' /\ overtaken' \in BOOLEAN
    BY <1>0 DEF SessionsOK, GhostsOK
  <1>2. \A x \in Sessions :
           /\ state'[x] = state[x] \/ (state[x] = "active" /\ state'[x] = "dying")
           /\ x # s => state'[x] = state[x] /\ (deferredClose'[x] <=> deferredClose[x])
    BY <1>0 DEF SessionsOK
  <1>3. RegisteredIsUsed'
    BY <1>0, <1>2 DEF RegisteredIsUsed, ManagerOK
  <1>4. \/ UNCHANGED <<state, deferredClose, overtaken>>
        \/ ~referenced[s] /\ overtaken' = (overtaken \/ BeingRevived(s))
    OBVIOUS
  <1>5. overtaken => overtaken'
    BY <1>4
  <1>6. Ownership'
    <2> SUFFICES ASSUME Owned PROVE Owned'
      BY <1>5, Conditions DEF Ownership, Owned
    <2>1. ThreadsWorkOnRegistered'
      BY DEF Owned, ThreadsWorkOnRegistered, Ending, Opening
    <2>6. OneEnds'
      BY DEF Owned, OneEnds, Ending
    <2>2. ReferencedIsRegistered' /\ ~asserted'
      BY DEF Owned, ReferencedIsRegistered
    <2>3. RunningIsOwned'
      BY <1>2 DEF Owned, RunningIsOwned, Running
    <2>4. UnregisteredIsInactive'
      <3> SUFFICES ASSUME NEW u \in Threads, thread'[u].at = "unregister" PROVE FALSE
        BY DEF UnregisteredIsInactive
      <3>1. u # t /\ thread[u].at = "unregister"
        OBVIOUS
      <3> QED BY <3>1 DEF Owned, OneEnds, Ending
    <2> QED BY <2>1, <2>2, <2>3, <2>4, <2>6 DEF Owned
  <1>7. Following'
    <2> SUFFICES ASSUME Followed, ~overtaken' PROVE Followed'
      BY <1>5, Conditions DEF Following, Followed
    <2>1. \A x \in Sessions : (Reviving(x)' <=> Reviving(x)) /\ (Wanted(x)' <=> Wanted(x))
      BY DEF Reviving, Wanted
    <2>2. \A x \in Sessions : Running(x)' => Running(x)
      BY <1>2 DEF Running
    <2>3. OnlineIsUsers'
      BY <2>1, <2>2 DEF Followed, OnlineIsUsers, maps
    <2>4. WantedComesOnline'
      <3> SUFFICES ASSUME NEW x \in Sessions, user = "Active", Wanted(x)
          PROVE  (state'[x] \in {"waiting", "active"} /\ ~deferredClose'[x]) \/ Reviving(x)
        BY <2>1 DEF WantedComesOnline, maps
      <3>1. (state[x] \in {"waiting", "active"} /\ ~deferredClose[x]) \/ Reviving(x)
        BY DEF Followed, WantedComesOnline
      <3>2. CASE UNCHANGED <<state, deferredClose, overtaken>>
        BY <3>1, <3>2
      <3>3. CASE ~referenced[s] /\ overtaken' = (overtaken \/ BeingRevived(s))
        <4>1. ~BeingRevived(s)
          BY <3>3
        <4>2. x # s
          BY <3>3, <4>1 DEF Wanted, BeingRevived
        <4> QED BY <1>2, <3>1, <4>2
      <3> QED BY <1>4, <3>2, <3>3
    <2>5. UserKnown' /\ WantedWaits'
      BY <2>1 DEF Followed, UserKnown, WantedWaits, maps
    <2> QED BY <2>3, <2>4, <2>5 DEF Followed
  <1> QED BY <1>1, <1>3, <1>6, <1>7

\* A thread that ends a session becomes the one to unregister it.
LEMMA BecomesInactiveStep ==
    ASSUME IInv, NEW t \in Threads, NEW s \in Sessions, BecomesInactive(t, s),
           thread[t].at \in {"dropped", "peek"}, thread[t].session = s, ~referenced[s],
           managerLock' = managerLock,
           UNCHANGED <<registry, userLock, maps, policy, referenced, calls, asserted>>
    PROVE  IInv'
  <1> USE DEF IInv
  <1>0. ThreadOK /\ SessionsOK /\ UserOK /\ ManagerOK /\ GhostsOK
    BY TypeParts
  <1>1. /\ state' = [state EXCEPT ![s] = "inactive"]
        /\ thread' = [thread EXCEPT ![t].at = "unregister", ![t].session = s]
        /\ overlapped' = (overlapped \/ OtherEnding(t))
        /\ overtaken' = (overtaken \/ BeingRevived(s))
        /\ UNCHANGED <<deferredClose, failed>>
    BY DEF BecomesInactive
  <1>2. /\ ThreadOK' /\ thread'[t].at = "unregister" /\ thread'[t].call = thread[t].call
        /\ thread'[t].session = s
        /\ \A u \in Threads \ {t} : thread'[u] = thread[u]
    BY <1>0, <1>1, TurningStep DEF Place
  <1>3. SessionsOK' /\ UserOK' /\ ManagerOK' /\ GhostsOK'
    <2>1. SessionsOK' /\ UserOK' /\ ManagerOK'
      BY <1>0, <1>1 DEF SessionsOK, UserOK, ManagerOK, maps
    <2>2. GhostsOK'
      BY <1>0, <1>1 DEF GhostsOK
    <2> QED BY <2>1, <2>2
  <1>4. Locking'
    <2>1. CallHoldsLocks(t) /\ LockIsHeld(t)
      BY DEF Locking
    <2>2. CallHoldsLocks(t)' /\ LockIsHeld(t)'
      BY <1>2, <2>1 DEF CallHoldsLocks, LockIsHeld, Opening, Ending, maps
    <2> QED BY <1>2, <2>2, OthersKeepLocks DEF maps
  <1>5. Owned => registry = s
    BY DEF Owned, ThreadsWorkOnRegistered, Ending
  <1>6. /\ ~overlapped' => ~overlapped /\ ~OtherEnding(t)
        /\ ~overtaken' => ~overtaken /\ ~BeingRevived(s)
        /\ ~failed' => ~failed
    BY <1>1
  <1>7. RegisteredIsUsed' /\ Ownership' /\ Following'
    <2>1. thread[t].at \notin Opening
      BY DEF Opening
    <2>2. UNCHANGED <<registry, userLock, maps, deferredClose, referenced, asserted>>
      BY <1>1
    <2> QED BY <1>1, <1>2, <1>5, <1>6, <2>1, <2>2, InactiveStep
  <1> QED BY <1>2, <1>3, <1>4, <1>7, NextTypeParts

LEMMA DidDropReferenceStep ==
    ASSUME IInv, NEW t \in AppThreads, DidDropReference(t) PROVE IInv'
  <1> USE Distinct DEF IInv
  <1> DEFINE s == thread[t].session
  <1>0. ThreadOK /\ SessionsOK /\ UserOK /\ ManagerOK /\ GhostsOK
    BY TypeParts
  <1>1. /\ t \in Threads /\ thread[t].at = "dropped" /\ s \in Sessions
        /\ thread[t].call = "drop"
    BY <1>0 DEF DidDropReference, At, Locking, CallHoldsLocks, Opening, Ending, ThreadOK, Call
  <1>2. UNCHANGED <<registry, managerLock, userLock, maps, policy, referenced, calls, asserted>>
    BY DEF DidDropReference, locks
  <1>3. CASE ~referenced[s] /\ BecomesInactive(t, s)
    BY <1>1, <1>2, <1>3, BecomesInactiveStep
  <1>4. CASE /\ Returns(t) /\ UNCHANGED <<overlapped, failed>>
             /\ \/ UNCHANGED <<state, deferredClose, overtaken>>
                \/ /\ ~referenced[s] /\ overtaken' = (overtaken \/ BeingRevived(s))
                   /\ \/ /\ deferredClose' = [deferredClose EXCEPT ![s] = TRUE]
                         /\ state' = state
                      \/ /\ state[s] = "active" /\ state' = [state EXCEPT ![s] = "dying"]
                         /\ deferredClose' = deferredClose
    <2>1. /\ ThreadOK' /\ thread'[t].at = "idle" /\ thread'[t].call = "none"
          /\ thread'[t].session = None
          /\ \A u \in Threads \ {t} : thread'[u] = thread[u]
      BY <1>0, <1>1, <1>4, ReturningStep
    <2>2. SessionsOK' /\ overtaken' \in BOOLEAN /\ RegisteredIsUsed' /\ Ownership' /\ Following'
      BY <1>1, <1>2, <1>4, <2>1, SettledStep
    <2>3. UserOK' /\ ManagerOK' /\ GhostsOK'
      BY <1>0, <1>2, <1>4, <2>2 DEF UserOK, ManagerOK, GhostsOK, maps
    <2>4. Locking'
      <3>1. CallHoldsLocks(t)' /\ LockIsHeld(t)'
        BY <1>1, <1>2, <2>1 DEF Locking, CallHoldsLocks, LockIsHeld, Opening, Ending
      <3> QED BY <1>1, <1>2, <2>1, <3>1, OthersKeepLocks DEF maps
    <2> QED BY <2>1, <2>2, <2>3, <2>4, NextTypeParts
  <1>5. CASE ~Expired(s)
    BY <1>4, <1>5 DEF DidDropReference, ghosts
  <1>6. CASE Expired(s)
    <2>1. ~referenced[s] /\ Close(t, s, Returns(t))
      BY <1>6 DEF DidDropReference, Expired
    <2> QED BY <1>3, <1>4, <2>1 DEF Close, ghosts
  <1> QED BY <1>5, <1>6

LEMMA DropCopyStep ==
    ASSUME IInv, NEW t \in Threads, DropCopy(t) PROVE IInv'
  <1> USE Distinct DEF IInv
  <1> DEFINE s == thread[t].session
  <1>0. ThreadOK /\ SessionsOK /\ UserOK /\ ManagerOK /\ GhostsOK
    BY TypeParts
  <1>1. /\ thread[t].at = "peek" /\ s \in Sessions /\ managerLock = t
        /\ thread[t].call \in {"drop", "log_out", "end"}
    BY <1>0 DEF DropCopy, At, Locking, CallHoldsLocks, Opening, Ending, ThreadOK, Call
  <1>2. UNCHANGED <<registry, userLock, maps, policy, referenced, calls, asserted>>
    BY DEF DropCopy
  <1>3. CASE ~referenced[s] /\ BecomesInactive(t, s)
    <2>1. thread'[t].at = "unregister"
      BY <1>0, <1>1, <1>3, TurningStep DEF BecomesInactive, Place
    <2>2. \/ Unregistered(t) /\ managerLock' = None
          \/ managerLock' = IF thread'[t].at = "unregister" THEN t ELSE None
      BY DEF DropCopy
    <2>3. ~Unregistered(t)
      BY <1>0, <2>1, UnregisteredStep
    <2>4. managerLock' = managerLock
      BY <1>1, <2>1, <2>2, <2>3
    <2> QED BY <1>1, <1>2, <1>3, <2>4, BecomesInactiveStep
  <1>4. CASE /\ Unregistered(t) /\ UNCHANGED <<overlapped, failed>>
             /\ \/ UNCHANGED <<state, deferredClose, overtaken>>
                \/ /\ ~referenced[s] /\ overtaken' = (overtaken \/ BeingRevived(s))
                   /\ \/ /\ deferredClose' = [deferredClose EXCEPT ![s] = TRUE]
                         /\ state' = state
                      \/ /\ state[s] = "active" /\ state' = [state EXCEPT ![s] = "dying"]
                         /\ deferredClose' = deferredClose
    <2>1. /\ ThreadOK'
          /\ \/ /\ thread'[t].at = "idle" /\ thread'[t].call = "none"
                /\ thread'[t].session = None /\ thread[t].call # "log_out"
             \/ /\ thread'[t].at = "logged out" /\ thread'[t].call = "log_out"
                /\ thread[t].call = "log_out"
          /\ \A u \in Threads \ {t} : thread'[u] = thread[u]
      BY <1>0, <1>4, UnregisteredStep
    <2>2. SessionsOK' /\ overtaken' \in BOOLEAN /\ RegisteredIsUsed' /\ Ownership' /\ Following'
      <3>1. thread[t].at \in {"dropped", "peek"} /\ thread'[t].at \in {"idle", "logged out"}
        BY <1>1, <2>1
      <3> QED BY <1>1, <1>2, <1>4, <2>1, <3>1, SettledStep
    <2>3. managerLock' = None
      <3>1. \/ managerLock' = None
            \/ managerLock' = IF thread'[t].at = "unregister" THEN t ELSE None
        BY DEF DropCopy
      <3> QED BY <2>1, <3>1
    <2>4. UserOK' /\ ManagerOK' /\ GhostsOK'
      BY <1>0, <1>2, <1>4, <2>2, <2>3 DEF UserOK, ManagerOK, GhostsOK, maps
    <2>5. Locking'
      <3>1. CallHoldsLocks(t) /\ LockIsHeld(t)
        BY DEF Locking
      <3>2. CallHoldsLocks(t)' /\ LockIsHeld(t)'
        BY <1>1, <1>2, <2>1, <2>3, <3>1
           DEF CallHoldsLocks, LockIsHeld, Opening, Ending, maps
      <3> QED BY <1>1, <1>2, <2>1, <2>3, <3>2, OthersKeepLocks DEF maps
    <2> QED BY <2>1, <2>2, <2>4, <2>5, NextTypeParts
  <1>5. \/ Unregistered(t) /\ UNCHANGED <<state, deferredClose, ghosts>>
        \/ ~referenced[s] /\ Close(t, s, Unregistered(t))
    BY DEF DropCopy
  <1> QED BY <1>3, <1>4, <1>5 DEF Close, ghosts

LEMMA Initially == Init => IInv
  <1> SUFFICES ASSUME Init PROVE IInv
    OBVIOUS
  <1>1. \A t \in Threads : thread[t] = Idle
    BY DEF Init
  <1>2. TypeOK
    <2>1. ThreadOK
      BY DEF Init, ThreadOK, Idle, Place, Call
    <2>2. SessionsOK /\ UserOK
      BY DEF Init, SessionsOK, UserOK
    <2>3. ManagerOK
      BY SyncRegistryAssumption DEF Init, ManagerOK
    <2>4. GhostsOK
      BY DEF Init, GhostsOK
    <2>5. IdleHoldsNone
      BY Distinct DEF Init, IdleHoldsNone
    <2> QED BY <2>1, <2>2, <2>3, <2>4, <2>5, TypeParts
  <1>3. Locking
    BY <1>1, Distinct DEF Init, Locking, CallHoldsLocks, LockIsHeld, Idle, Opening, Ending
  <1>4. RegisteredIsUsed
    BY DEF Init, RegisteredIsUsed
  <1>5. Ownership
    BY <1>1 DEF Init, Ownership, ThreadsWorkOnRegistered, ReferencedIsRegistered, OneEnds,
       UnregisteredIsInactive, RunningIsOwned, Running, Idle, Opening, Ending
  <1>6. Following
    BY <1>1 DEF Init, Following, UserKnown, OnlineIsUsers, WantedComesOnline, WantedWaits,
       Running, Reviving, Wanted, Idle
  <1> QED BY <1>2, <1>3, <1>4, <1>5, <1>6 DEF IInv

LEMMA Stuttering == IInv /\ UNCHANGED vars => IInv'
  <1> SUFFICES ASSUME IInv, UNCHANGED vars PROVE IInv'
    OBVIOUS
  <1> USE DEF vars, locks, maps, ghosts, IInv
  <1>1. TypeOK' /\ RegisteredIsUsed'
    BY DEF TypeOK, RegisteredIsUsed
  <1>2. Locking'
    BY DEF Locking, CallHoldsLocks, LockIsHeld
  <1>3. Ownership'
    BY DEF Ownership, ThreadsWorkOnRegistered, ReferencedIsRegistered, OneEnds,
       UnregisteredIsInactive, RunningIsOwned, Running
  <1>4. Following'
    BY DEF Following, UserKnown, OnlineIsUsers, WantedComesOnline, WantedWaits,
       Running, Reviving, Wanted
  <1> QED BY <1>1, <1>2, <1>3, <1>4

\* IInv is an invariant of the specification.
THEOREM InvariantHolds == Spec => []IInv
  <1>1. IInv /\ [Next]_vars => IInv'
    <2> SUFFICES ASSUME IInv, [Next]_vars PROVE IInv'
      OBVIOUS
    <2>1. ASSUME NEW t \in AppThreads,
                 \/ GetSession(t) \/ Register(t) \/ Revive(t) \/ Bind(t) \/ Refer(t)
                 \/ LogOut(t) \/ LoggedOut(t) \/ LogIn(t) \/ DidDropReference(t)
          PROVE  IInv'
      BY <2>1, GetSessionStep, RegisterStep, ReviveStep, BindStep, ReferStep, LogOutStep,
         LoggedOutStep, LogInStep, DidDropReferenceStep
    <2>2. ASSUME NEW t \in AppThreads, NEW s \in Sessions, DropReference(t, s) PROVE IInv'
      BY <2>2, DropReferenceStep
    <2>3. ASSUME NEW t \in Threads, UnregisterSession(t) \/ DropCopy(t) PROVE IInv'
      BY <2>3, UnregisterSessionStep, DropCopyStep
    <2>4. ASSUME NEW s \in Sessions,
                 TokenArrives(s) \/ FinishDying(s) \/ Fail(s) \/ Invalidate(s)
          PROVE  IInv'
      BY <2>4, TokenArrivesStep, FinishDyingStep, FailStep, InvalidateStep
    <2>5. CASE UNCHANGED vars
      BY <2>5, Stuttering
    <2> QED BY <2>1, <2>2, <2>3, <2>4, <2>5 DEF Next
  <1> QED BY <1>1, Initially, PTL DEF Spec

\* The variables have their types, and a thread that has returned holds no lock.
THEOREM TypeCorrect == Spec => []TypeOK
  <1>1. IInv => TypeOK
    BY DEF IInv
  <1> QED BY <1>1, InvariantHolds, PTL

\* Two threads wait for each other in the two known ways only: get_session and log_out
\* take the two locks in opposite orders, and unregister_session runs again under the
\* lock it needs.
THEOREM DeadlocksAreKnown == Spec => []CyclesAreKnown
  <1>1. IInv => CyclesAreKnown
    <2> SUFFICES ASSUME IInv, NEW t \in Threads, NEW u \in Threads,
                        WaitsFor(t, u), WaitsFor(u, t)
        PROVE  \/ t = u /\ managerLock = t
               \/ {thread[t].call, thread[u].call} = {"get_session", "log_out"}
      BY DEF CyclesAreKnown
    <2> USE DEF IInv
    <2>1. /\ CallHoldsLocks(t) /\ LockIsHeld(t) /\ CallHoldsLocks(u) /\ LockIsHeld(u)
      BY DEF Locking
    <2>2. CASE managerLock = u /\ managerLock = t
      BY <2>2
    <2>3. CASE AwaitsManager(t) /\ managerLock = u /\ AwaitsUser(u) /\ userLock = t
      <3>1. thread[t].call = "log_out" /\ thread[u].call = "get_session"
        BY <2>1, <2>3 DEF AwaitsUser, LockIsHeld
      <3> QED BY <3>1
    <2>4. CASE AwaitsUser(t) /\ userLock = u /\ AwaitsManager(u) /\ managerLock = t
      <3>1. thread[u].call = "log_out" /\ thread[t].call = "get_session"
        BY <2>1, <2>4 DEF AwaitsUser, LockIsHeld
      <3> QED BY <3>1
    <2>5. CASE AwaitsUser(t) /\ userLock = u /\ userLock = t
      BY <2>1, <2>5 DEF AwaitsUser, LockIsHeld, CallHoldsLocks
    <2> QED BY <2>2, <2>3, <2>4, <2>5 DEF WaitsFor
  <1> QED BY <1>1, InvariantHolds, PTL

\* "Sessions are owned by the SyncManager": a session that runs is the registered one,
\* and unregister_session finds what it looks for, as long as no session is revived or
\* ended while another thread is between ending or reviving one and the registry.
THEOREM SessionsAreOwned == Spec => []RunningIsRegistered
  <1>1. IInv => RunningIsRegistered
    BY DEF IInv, Ownership, RunningIsOwned, RunningIsRegistered
  <1> QED BY <1>1, InvariantHolds, PTL

\* Between calls, the sessions of a user who is logged out are closed, and the session
\* that an application holds is online when the user is logged in.
THEOREM SessionsFollow == Spec => []SessionsFollowUser
  <1>1. IInv => SessionsFollowUser
    <2> SUFFICES ASSUME IInv, AllIdle, ~overtaken, ~overlapped, ~failed, NEW s \in Sessions
        PROVE  /\ user = "LoggedOut" => ~(Alive(s) /\ Running(s))
               /\ user = "Active" /\ referenced[s] => Running(s)
      BY DEF SessionsFollowUser
    <2>1. Followed
      BY Conditions DEF IInv
    <2>2. ~Reviving(s)
      BY DEF AllIdle, IsIdle, At, Reviving
    <2>3. user = "LoggedOut" => ~Running(s)
      BY <2>1 DEF Followed, OnlineIsUsers
    <2>4. user = "Active" /\ referenced[s] => Running(s)
      BY <2>1, <2>2 DEF Followed, WantedComesOnline, Wanted, Running
    <2> QED BY <2>3, <2>4
  <1> QED BY <1>1, InvariantHolds, PTL
=============================================================================
