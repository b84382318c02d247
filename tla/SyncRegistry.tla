---------------------------- MODULE SyncRegistry ----------------------------
(***************************************************************************)
(* Who owns the sync sessions of one Realm file: SyncManager::m_sessions   *)
(* with m_session_mutex, the maps of the SyncUser with its m_mutex, the    *)
(* external references that applications hold, and the threads that open   *)
(* and drop Realms, log the user in and out, and run the event loop.       *)
(*                                                                         *)
(* A step is what a thread does between taking or releasing one of the two *)
(* locks, or the lock of the session's state, which is never held while    *)
(* another one is awaited and therefore is no variable here.               *)
(***************************************************************************)
EXTENDS Integers, FiniteSets

CONSTANTS
    AppThreads, Loop,   \* threads of the application, the event loop thread
    Sessions,           \* SyncSession objects that may be created
    None,
    Policies,           \* the stop policies the sessions may have
    MaxCalls            \* bound of the calls made and errors met

Threads == AppThreads \cup {Loop}
StopPolicy == {"Immediately", "LiveIndefinitely", "AfterChangesUploaded"}

ASSUME SyncRegistryAssumption ==
    /\ Loop \notin AppThreads /\ None \notin Sessions \cup Threads
    /\ Policies \subseteq StopPolicy
    /\ MaxCalls \in Nat

VARIABLES
    registry,       \* m_sessions of the manager: the session of the path, or None
    managerLock,    \* who holds m_session_mutex, or None
    userLock,       \* who holds the user's m_mutex, or None
    user,           \* m_state of the user
    userSession,    \* m_sessions of the user, a weak reference
    waitingSession, \* m_waiting_sessions of the user, a weak reference
    policy,
    state, deferredClose, \* of each session
    referenced,     \* the application holds an external reference to the session
    thread,         \* where each thread is
    calls,
    overlapped,     \* a session was revived or ended while another thread was about
                    \* to unregister the path
    overtaken,      \* a session was ended or unregistered while another thread
                    \* was reviving it
    failed,         \* a session or the user met a fatal error
    asserted        \* an assertion has failed: the process has ended

locks == <<managerLock, userLock>>
maps == <<user, userSession, waitingSession>>
ghosts == <<overlapped, overtaken, failed>>
vars == <<registry, locks, maps, policy, state, deferredClose, referenced, thread, calls,
          ghosts, asserted>>

Idle == [at |-> "idle", call |-> "none", session |-> None, fresh |-> FALSE]
Place == {"idle", "register", "revive", "bind", "refer", "dropped", "unregister",
          "peek", "logged out"}
Call == {"none", "get_session", "drop", "log_out", "log_in", "end"}

\* Types, and who may hold which lock where.
TypeOK ==
    /\ \A t \in Threads : thread[t].at = "idle" => managerLock # t /\ userLock # t
    /\ registry \in Sessions \cup {None}
    /\ {managerLock, userLock} \subseteq Threads \cup {None}
    /\ user \in {"Active", "LoggedOut", "Error"}
    /\ {userSession, waitingSession} \subseteq Sessions \cup {None}
    /\ policy \in Policies
    /\ state \in [Sessions -> {"unused", "inactive", "waiting", "active", "dying"}]
    /\ deferredClose \in [Sessions -> BOOLEAN] /\ referenced \in [Sessions -> BOOLEAN]
    /\ thread \in [Threads -> [at : Place, call : Call, session : Sessions \cup {None},
                               fresh : BOOLEAN]]
    /\ calls \in 0..MaxCalls
    /\ {overlapped, overtaken, failed, asserted} \subseteq BOOLEAN

-----------------------------------------------------------------------------
At(t, place) == ~asserted /\ thread[t].at = place
IsIdle(t) == At(t, "idle")

Goes(t, place) == thread' = [thread EXCEPT ![t].at = place]
Returns(t) == thread' = [thread EXCEPT ![t] = Idle]

Begin(t, call, place, s, fresh) ==
    /\ calls < MaxCalls /\ calls' = calls + 1
    /\ thread' = [thread EXCEPT ![t] =
           [at |-> place, call |-> call, session |-> s, fresh |-> fresh]]

\* The external reference that a thread holds: that of a new session until it is
\* returned, and that of a registered session while unregister_session looks at it.
Holds(t, s) == thread[t].session = s /\ (thread[t].fresh \/ thread[t].at = "peek")

\* m_external_reference.expired()
Expired(s) == ~referenced[s] /\ \A t \in Threads : ~Holds(t, s)

\* Weak references can be locked: the manager, a reference, a thread or the
\* handle of the token request still owns the session.
Alive(s) ==
    \/ s \in {registry} \cap Sessions
    \/ s \in Sessions /\ (referenced[s] \/ state[s] = "waiting")
    \/ s \in Sessions /\ \E t \in Threads :
           thread[t].session = s \/ (thread[t].call = "log_out" /\ userSession = s)

Running(s) == state[s] \in {"waiting", "active", "dying"}

Unregistering == \E t \in Threads : thread[t].at \in {"unregister", "peek"}
OtherEnding(t) ==
    \E u \in Threads \ {t} : thread[u].at \in {"dropped", "unregister", "peek"}
BeingRevived(s) ==
    \E t \in Threads : thread[t].session = s /\ thread[t].at \in {"revive", "bind", "refer"}

\* Inactive::enter_state, up to the call of unregister_session: the lock of the
\* session has been released.
BecomesInactive(t, s) ==
    /\ state' = [state EXCEPT ![s] = "inactive"]
    /\ thread' = [thread EXCEPT ![t].at = "unregister", ![t].session = s]
    /\ overlapped' = (overlapped \/ OtherEnding(t))
    /\ overtaken' = (overtaken \/ BeingRevived(s))
    /\ UNCHANGED <<deferredClose, failed>>

\* SyncSession::close for each state; `done` is what the thread does next
\* when the session is not to be unregistered.
Close(t, s, done) ==
    \/ /\ state[s] = "inactive" \/ (policy = "Immediately" /\ state[s] # "dying")
       /\ BecomesInactive(t, s) /\ UNCHANGED locks
    \/ /\ policy # "Immediately" /\ state[s] = "waiting"
       /\ deferredClose' = [deferredClose EXCEPT ![s] = TRUE]
       /\ overtaken' = (overtaken \/ BeingRevived(s))
       /\ done /\ UNCHANGED <<state, overlapped, failed>>
    \/ /\ policy = "AfterChangesUploaded" /\ state[s] = "active"
       /\ state' = [state EXCEPT ![s] = "dying"]
       /\ overtaken' = (overtaken \/ BeingRevived(s))
       /\ done /\ UNCHANGED <<deferredClose, overlapped, failed>>
    \/ /\ state[s] = "dying" \/ (policy = "LiveIndefinitely" /\ state[s] = "active")
       /\ done /\ UNCHANGED <<state, deferredClose, ghosts>>

-----------------------------------------------------------------------------
(***************************************************************************)
(* SyncManager::get_session, which holds m_session_mutex to its end.       *)
(***************************************************************************)

GetSession(t) ==
    /\ IsIdle(t) /\ managerLock = None
    /\ managerLock' = t
    /\ \/ /\ registry # None
          /\ Begin(t, "get_session", "register", registry, FALSE)
          /\ UNCHANGED <<registry, state>>
       \/ /\ registry = None
          /\ \E s \in Sessions :
                /\ state[s] = "unused"
                /\ state' = [state EXCEPT ![s] = "inactive"]
                /\ registry' = s
                /\ Begin(t, "get_session", "register", s, TRUE)
    /\ UNCHANGED <<userLock, maps, policy, deferredClose, referenced, ghosts, asserted>>

\* Mutant: a session is asked to come online whatever the state of its user.
OnlineAlways == TRUE

\* register_session: the user is Active, so the session is to come online at once.
ComesOnline == user = "Active"

\* SyncUser::register_session
Register(t) ==
    LET s == thread[t].session IN
    /\ At(t, "register") /\ userLock = None
    /\ \/ /\ ComesOnline
          /\ userSession' = s /\ Goes(t, "revive")
          /\ UNCHANGED waitingSession
       \/ /\ ~ComesOnline
          /\ waitingSession' = IF user = "LoggedOut" THEN s ELSE waitingSession
          /\ Goes(t, "refer")
          /\ UNCHANGED userSession
    /\ UNCHANGED <<registry, locks, user, policy, state, deferredClose, referenced, calls,
                   ghosts, asserted>>

Revived(t) == IF thread[t].call = "get_session" THEN Goes(t, "refer") ELSE Returns(t)

\* SyncSession::revive_if_needed, up to the call of the bind handler
Revive(t) ==
    LET s == thread[t].session IN
    /\ At(t, "revive")
    /\ state' = [state EXCEPT ![s] = CASE @ = "inactive" -> "waiting"
                                       [] @ = "dying" -> "active"
                                       [] OTHER -> @]
    /\ deferredClose' = [deferredClose EXCEPT ![s] = FALSE]
    /\ overlapped' = (overlapped \/ (state' # state /\ Unregistering))
    /\ IF state[s] = "inactive" THEN Goes(t, "bind") ELSE Revived(t)
    /\ UNCHANGED <<registry, locks, maps, policy, referenced, calls, overtaken, failed,
                   asserted>>

\* The binding's bind handler reads the user's refresh token, under m_mutex.
Bind(t) ==
    /\ At(t, "bind") /\ userLock = None
    /\ Revived(t)
    /\ UNCHANGED <<registry, locks, maps, policy, state, deferredClose, referenced, calls,
                   ghosts, asserted>>

\* get_session returns the external reference and unlocks.
Refer(t) ==
    /\ At(t, "refer")
    /\ referenced' = [referenced EXCEPT ![thread[t].session] = TRUE]
    /\ managerLock' = None
    /\ Returns(t)
    /\ UNCHANGED <<registry, userLock, maps, policy, state, deferredClose, calls, ghosts,
                   asserted>>

-----------------------------------------------------------------------------
(***************************************************************************)
(* Sessions end: the last external reference is dropped, the user is       *)
(* logged out, or the event loop is done with them.                        *)
(***************************************************************************)

\* The application drops its last reference.
DropReference(t, s) ==
    /\ IsIdle(t) /\ referenced[s]
    /\ referenced' = [referenced EXCEPT ![s] = FALSE]
    /\ calls < MaxCalls /\ calls' = calls + 1
    /\ IF \E u \in Threads : Holds(u, s)
       THEN UNCHANGED <<thread, overlapped>>
       ELSE /\ thread' = [thread EXCEPT ![t] =
                   [at |-> "dropped", call |-> "drop", session |-> s, fresh |-> FALSE]]
            /\ overlapped' = (overlapped \/ OtherEnding(t))
    /\ UNCHANGED <<registry, locks, maps, policy, state, deferredClose, overtaken, failed,
                   asserted>>

\* did_drop_external_reference
DidDropReference(t) ==
    LET s == thread[t].session IN
    /\ At(t, "dropped")
    /\ \/ /\ Expired(s) /\ Close(t, s, Returns(t))
       \/ /\ ~Expired(s) /\ Returns(t)
          /\ UNCHANGED <<state, deferredClose, ghosts>>
    /\ UNCHANGED <<registry, locks, maps, policy, referenced, calls, asserted>>

\* Mutant: a registered session is erased whether or not it is referenced.
LeaveNone(s) == FALSE

\* unregister_session leaves a session alone that has an external reference.
LeaveRegistered(s) == ~Expired(s)

\* Mutant: log_out returns early.
ReturnsEarly(t) == Returns(t)

\* What a thread does once unregister_session has returned.
Unregistered(t) == IF thread[t].call = "log_out" THEN Goes(t, "logged out") ELSE Returns(t)

\* SyncManager::unregister_session.  The reference that it looks at is a copy,
\* which lives to the end of the statement.
UnregisterSession(t) ==
    /\ At(t, "unregister") /\ managerLock = None
    /\ \/ /\ registry = None
          /\ asserted' = TRUE
          /\ UNCHANGED <<registry, managerLock, thread, overtaken>>
       \/ /\ registry # None /\ ~LeaveRegistered(registry)
          /\ registry' = None
          /\ Unregistered(t)
          /\ overtaken' = (overtaken \/ BeingRevived(registry))
          /\ UNCHANGED <<managerLock, asserted>>
       \/ /\ registry # None /\ LeaveRegistered(registry)
          /\ managerLock' = t
          /\ thread' = [thread EXCEPT ![t].at = "peek", ![t].session = registry]
          /\ UNCHANGED <<registry, overtaken, asserted>>
    /\ UNCHANGED <<userLock, maps, policy, state, deferredClose, referenced, calls,
                   overlapped, failed>>

\* The copy goes.  If it has become the last one, the session is closed by the
\* destructor, still under m_session_mutex.
DropCopy(t) ==
    LET s == thread[t].session
        last == ~referenced[s] /\ \A u \in Threads \ {t} : ~Holds(u, s)
        done == Unregistered(t) IN
    /\ At(t, "peek")
    /\ \/ /\ ~last /\ done /\ managerLock' = None
          /\ UNCHANGED <<state, deferredClose, ghosts>>
       \/ /\ last /\ Close(t, s, done)
          /\ managerLock' = IF thread'[t].at = "unregister" THEN t ELSE None
    /\ UNCHANGED <<registry, userLock, maps, policy, referenced, calls, asserted>>

\* SyncUser::log_out, up to the end of the session's log_out.  It skips a session
\* that is dead; m_mutex is held until m_sessions is cleared, so the model clears
\* it at once then.
LogOut(t) ==
    LET s == userSession IN
    /\ IsIdle(t) /\ userLock = None /\ user # "LoggedOut"
    /\ calls < MaxCalls /\ calls' = calls + 1
    /\ userLock' = t
    /\ user' = "LoggedOut"
    /\ \/ /\ Alive(s) /\ Running(s)
          /\ state' = [state EXCEPT ![s] = "inactive"]
          /\ overlapped' = (overlapped \/ OtherEnding(t))
          /\ overtaken' = (overtaken \/ BeingRevived(s))
          /\ thread' = [thread EXCEPT ![t] =
                 [at |-> "unregister", call |-> "log_out", session |-> s, fresh |-> FALSE]]
          /\ UNCHANGED userSession
       \/ /\ ~(Alive(s) /\ Running(s))
          /\ userSession' = IF Alive(s) THEN s ELSE None
          /\ overtaken' = (overtaken \/ (s # None /\ BeingRevived(s)))
          /\ thread' = [thread EXCEPT ![t] =
                 [at |-> "logged out", call |-> "log_out", session |-> None, fresh |-> FALSE]]
          /\ UNCHANGED <<state, overlapped>>
    /\ UNCHANGED <<registry, managerLock, waitingSession, policy, deferredClose, referenced,
                   failed, asserted>>

\* The session waits for the user to log in again; log_out unlocks.
LoggedOut(t) ==
    /\ At(t, "logged out")
    /\ waitingSession' = IF userSession # None THEN userSession ELSE waitingSession
    /\ userSession' = None
    /\ userLock' = None
    /\ Returns(t)
    /\ UNCHANGED <<registry, managerLock, user, policy, state, deferredClose, referenced,
                   calls, ghosts, asserted>>

\* Mutant: the sessions that waited are revived under m_mutex.
RevivesUnderLock(t) == userLock' = t

\* update_refresh_token has released m_mutex when it revives sessions.
RevivesUnlocked(t) == UNCHANGED userLock

\* SyncUser::update_refresh_token, called by SyncManager::get_user
LogIn(t) ==
    /\ IsIdle(t) /\ userLock = None /\ user = "LoggedOut"
    /\ user' = "Active" /\ waitingSession' = None
    /\ \/ /\ Alive(waitingSession)
          /\ userSession' = waitingSession
          /\ Begin(t, "log_in", "revive", waitingSession, FALSE)
          /\ RevivesUnlocked(t)
       \/ /\ ~Alive(waitingSession)
          /\ calls < MaxCalls /\ calls' = calls + 1
          /\ UNCHANGED <<userSession, userLock, thread>>
    /\ UNCHANGED <<registry, managerLock, policy, state, deferredClose, referenced, ghosts,
                   asserted>>

-----------------------------------------------------------------------------
(***************************************************************************)
(* The event loop thread, and the token that the binding gets.             *)
(***************************************************************************)

\* refresh_access_token: Active, and what a deferred close makes of it
TokenArrives(s) ==
    /\ ~asserted /\ state[s] = "waiting"
    /\ state' = [state EXCEPT ![s] =
           IF deferredClose[s] /\ policy = "AfterChangesUploaded" THEN "dying" ELSE "active"]
    /\ deferredClose' = [deferredClose EXCEPT ![s] = FALSE]
    /\ UNCHANGED <<registry, locks, maps, policy, referenced, thread, calls, ghosts,
                   asserted>>

\* The uploads that a dying session waited for have completed.
FinishDying(s) ==
    /\ IsIdle(Loop) /\ Alive(s) /\ state[s] = "dying"
    /\ state' = [state EXCEPT ![s] = "inactive"]
    /\ thread' = [thread EXCEPT ![Loop] =
           [at |-> "unregister", call |-> "end", session |-> s, fresh |-> FALSE]]
    /\ overlapped' = (overlapped \/ OtherEnding(Loop))
    /\ overtaken' = (overtaken \/ BeingRevived(s))
    /\ UNCHANGED <<registry, locks, maps, policy, deferredClose, referenced, calls, failed,
                   asserted>>

\* handle_error with an error that makes the session inactive
Fail(s) ==
    /\ IsIdle(Loop) /\ Alive(s) /\ state[s] = "active"
    /\ calls < MaxCalls /\ calls' = calls + 1
    /\ state' = [state EXCEPT ![s] = "inactive"]
    /\ thread' = [thread EXCEPT ![Loop] =
           [at |-> "unregister", call |-> "end", session |-> s, fresh |-> FALSE]]
    /\ overlapped' = (overlapped \/ OtherEnding(Loop))
    /\ overtaken' = (overtaken \/ BeingRevived(s))
    /\ failed' = TRUE
    /\ UNCHANGED <<registry, locks, maps, policy, deferredClose, referenced, asserted>>

\* handle_error with bad_authentication: SyncUser::invalidate
Invalidate(s) ==
    /\ IsIdle(Loop) /\ Alive(s) /\ state[s] = "active" /\ userLock = None
    /\ calls < MaxCalls /\ calls' = calls + 1
    /\ user' = "Error" /\ failed' = TRUE
    /\ UNCHANGED <<registry, locks, userSession, waitingSession, policy, state,
                   deferredClose, referenced, thread, overlapped, overtaken, asserted>>

-----------------------------------------------------------------------------
Init ==
    /\ registry = None /\ managerLock = None /\ userLock = None
    /\ user = "Active" /\ userSession = None /\ waitingSession = None
    /\ policy \in Policies
    /\ state = [s \in Sessions |-> "unused"]
    /\ deferredClose = [s \in Sessions |-> FALSE]
    /\ referenced = [s \in Sessions |-> FALSE]
    /\ thread = [t \in Threads |-> Idle]
    /\ calls = 0
    /\ overlapped = FALSE /\ overtaken = FALSE /\ failed = FALSE /\ asserted = FALSE

Next ==
    \/ \E t \in AppThreads :
          \/ GetSession(t) \/ Register(t) \/ Revive(t) \/ Bind(t) \/ Refer(t)
          \/ LogOut(t) \/ LoggedOut(t) \/ LogIn(t) \/ DidDropReference(t)
          \/ \E s \in Sessions : DropReference(t, s)
    \/ \E t \in Threads : UnregisterSession(t) \/ DropCopy(t)
    \/ \E s \in Sessions : TokenArrives(s) \/ FinishDying(s) \/ Fail(s) \/ Invalidate(s)

Spec == Init /\ [][Next]_vars

-----------------------------------------------------------------------------
(***************************************************************************)
(* Properties.                                                             *)
(***************************************************************************)

AwaitsManager(t) == At(t, "unregister") /\ managerLock # None
AwaitsUser(t) == thread[t].at \in {"register", "bind"} /\ userLock # None
WaitsFor(t, u) == (AwaitsManager(t) /\ managerLock = u) \/ (AwaitsUser(t) /\ userLock = u)

\* Threads wait for each other in two ways only: get_session asks the user for
\* its lock while log_out, which has it, asks the manager for its own; and
\* unregister_session was left with the last reference to a session, whose end
\* calls unregister_session again.
CyclesAreKnown ==
    \A t, u \in Threads : WaitsFor(t, u) /\ WaitsFor(u, t) =>
        \/ t = u /\ managerLock = t
        \/ {thread[t].call, thread[u].call} = {"get_session", "log_out"}

\* "Sessions are owned by the SyncManager": a session that is not inactive is
\* the registered one, so no two of them ever work on the same file, and
\* unregister_session finds what it looks for; but for the cases that a session
\* was revived or ended while another thread was about to unregister it, or ended
\* or unregistered while another thread was reviving it.
RunningIsRegistered ==
    ~overlapped /\ ~overtaken =>
        ~asserted /\ \A s \in Sessions : Alive(s) /\ Running(s) => registry = s

AllIdle == \A t \in Threads : IsIdle(t)

\* When no call is under way, the sessions of a user who is logged out are
\* closed, and the session that an application holds for a user who is logged in
\* has come online, whatever logging in and out there was before; but for errors
\* and for the case that a session was ended while another thread revived it.
SessionsFollowUser ==
    AllIdle /\ ~overtaken /\ ~overlapped /\ ~failed =>
        \A s \in Sessions :
            /\ user = "LoggedOut" => ~(Alive(s) /\ Running(s))
            /\ user = "Active" /\ referenced[s] => Running(s)
=============================================================================
