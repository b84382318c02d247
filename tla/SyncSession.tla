---------------------------- MODULE SyncSession ----------------------------
(***************************************************************************)
(* One SyncSession of Realm's Object Store (sync/sync_session.cpp): its    *)
(* four states, the sync::Session of the core library it owns, and the     *)
(* callbacks that wait for uploads and downloads.                          *)
(*                                                                         *)
(* A step is what one thread does while it holds m_state_mutex.  User      *)
(* threads call the public operations at any time.  The event loop thread  *)
(* runs the completion handlers of the core session and the error handler, *)
(* which releases the lock between its steps: those still to be taken are  *)
(* the sequence `loop`.  What is called after the lock has been released   *)
(* (a waiting callback, the binding's bind handler) touches nothing that   *)
(* another thread could see, and is part of the step before it.            *)
(***************************************************************************)
EXTENDS Integers, Sequences, FiniteSets, Bags

CONSTANTS
    UploadWaits, DownloadWaits, \* calls of wait_for_upload_completion etc.
    ResyncMode,                 \* m_config.client_resync_mode
    CancelWaitsOnNonfatalError, \* m_config.cancel_waits_on_nonfatal_error
    Policies,                   \* the stop policies that m_config may have
    MaxCommits, MaxErrors, MaxDeaths, MaxStaleWaits, \* bounds
    MaxIncidents                \* bound of commits, errors, deaths and waits together

Waits == UploadWaits \cup DownloadWaits
Direction == {"upload", "download"}
StopPolicy == {"Immediately", "LiveIndefinitely", "AfterChangesUploaded"}
ErrorKind == {"ignored", "token_expired", "bad_authentication",
              "permission_denied", "client_reset", "fatal", "nonfatal"}
Step == {"cancel", "inactive", "expired", "resync", "restore", "revive"}

ASSUME SyncSessionAssumption ==
    /\ UploadWaits \cap DownloadWaits = {}
    /\ ResyncMode \in {"Manual", "Recover"}
    /\ CancelWaitsOnNonfatalError \in BOOLEAN
    /\ Policies \subseteq StopPolicy
    /\ {MaxCommits, MaxErrors, MaxDeaths, MaxStaleWaits, MaxIncidents} \subseteq Nat

VARIABLES
    state,          \* m_state
    policy,         \* m_config.stop_policy
    session,        \* is m_session not null
    connection,     \* is m_connection_state "connected"
    queue,          \* m_upload_ and m_download_completion_callbacks
    aside,          \* the handlers a client resync has moved aside
    deferredClose, deferredCommit, deathCount, resyncs,
    loop,           \* what the event loop thread still has to do
    updating,       \* where update_configuration is: "no", "retry", "revive"
    getting,        \* where SyncManager::get_session is: "no", "revive", "refer", "revived"
    referenced,     \* m_external_reference has not expired
    asked,          \* the bind handler was called and has not answered
    coreWaits,      \* wait operations of m_session, a bag
    staleWaits,     \* those of destroyed sessions, not yet aborted
    terminating,    \* a destroyed session has not finished terminating
    version, announced, uploaded,
    errors,         \* number of errors so far
    outcome,        \* what each wait's callback was called with
    need,           \* the version that was current when the wait was made
    dyingSince,     \* the version that was current when Dying was entered
    deactivated,    \* became inactive, but not for a client resync
    strayed,        \* a reference was handed out while the session was closing
    overtaken       \* a client resync put handlers back into a revived session

core   == <<session, coreWaits, staleWaits, terminating>>
waits  == <<queue, aside, outcome, need>>
data   == <<version, announced, uploaded, deferredCommit>>
counts == <<deathCount, resyncs, errors>>
ghosts == <<dyingSince, deactivated, strayed, overtaken>>
vars   == <<state, policy, connection, deferredClose, loop, updating, getting,
            referenced, asked, core, waits, data, counts, ghosts>>

Threads == <<loop, updating, getting, referenced>>
MayHappen ==
    version + errors + deathCount + Cardinality({w \in Waits : outcome[w] # "none"})
        < MaxIncidents

NoWaits == [d \in Direction |-> {}]
Queued(q) == UNION {q[d] : d \in Direction}
DirectionOf(w) == IF w \in UploadWaits THEN "upload" ELSE "download"

TypeOK ==
    /\ state \in {"inactive", "waiting", "active", "dying"}
    /\ policy \in Policies
    /\ {session, connection, deferredClose, asked, terminating, deactivated, strayed,
        overtaken, referenced}
         \subseteq BOOLEAN
    /\ queue \in [Direction -> SUBSET Waits] /\ aside \in [Direction -> SUBSET Waits]
    /\ deferredCommit \in 0 .. version /\ announced \in 0 .. version
    /\ version \in 0 .. MaxCommits /\ uploaded \in 0 .. version
    /\ deathCount \in 0 .. MaxDeaths /\ resyncs \in 0 .. errors /\ errors \in 0 .. MaxErrors
    /\ loop \in Seq(Step \cup ErrorKind)
    /\ updating \in {"no", "retry", "revive"}
    /\ getting \in {"no", "revive", "refer", "revived"}
    /\ outcome \in [Waits -> {"none", "pending", "ok", "aborted", "error"}]
    /\ need \in [Waits -> 0 .. version] /\ dyingSince \in 0 .. version

(***************************************************************************)
(* The core library.  An upload wait covers the changesets that had been   *)
(* announced when it was made; a session that is destroyed aborts its      *)
(* waits, on the event loop thread, some time later.                       *)
(***************************************************************************)
WaitFor(kinds, upto) == SetToBag(
    {[kind |-> d, count |-> resyncs, upto |-> IF d = "upload" THEN upto ELSE 0]
       : d \in kinds})

\* Mutant: the lambda captures m_death_count before it is incremented.
DeathWaitOffByOne(upto) == SetToBag(
    {[kind |-> "death", count |-> deathCount, upto |-> upto]})

\* Dying::enter_state: the upload that the next death waits for.
DeathWait(upto) == SetToBag(
    {[kind |-> "death", count |-> deathCount + 1, upto |-> upto]})

Remove(w, bag) == bag (-) SetToBag({w})

\* Mutant: the callbacks are dropped.
FinishForgotten(ws, result) == UNCHANGED outcome

Finish(ws, result) ==
    outcome' = [w \in Waits |-> IF w \in ws THEN result ELSE outcome[w]]

\* Mutant: Active::enter_state forgets the uploads.
PendingDownloads == {d \in {"download"} : queue[d] # {}}

\* The directions that Active::enter_state registers again.
Pending == {d \in Direction : queue[d] # {}}

\* Mutant: m_session is kept.
DestroySessionForgotten(current, stale) ==
    /\ staleWaits' = stale
    /\ coreWaits' = current
    /\ UNCHANGED <<session, terminating>>

DestroySession(current, stale) == \* m_session = nullptr
    /\ session' = FALSE
    /\ terminating' = (terminating \/ session)
    /\ staleWaits' = stale (+) current
    /\ coreWaits' = EmptyBag
    /\ BagCardinality(staleWaits') <= MaxStaleWaits

(***************************************************************************)
(* advance_state: the new state and its enter_state.                       *)
(***************************************************************************)

\* Inactive::enter_state, which calls the callbacks it finds queued.
EnterInactive(current, stale) ==
    /\ state' = "inactive"
    /\ connection' = FALSE
    /\ queue' = NoWaits
    /\ Finish(Queued(queue), "aborted")
    /\ DestroySession(current, stale)
    /\ deactivated' = TRUE
    /\ UNCHANGED <<policy, deferredClose, asked, aside, need, data, counts, dyingSince,
                   strayed, overtaken>>

\* WaitingForAccessToken::enter_state, then the bind handler is called.
EnterWaiting ==
    /\ state' = "waiting"
    /\ deferredClose' = FALSE
    /\ asked' = TRUE
    /\ UNCHANGED <<policy, connection, core, waits, data, counts, ghosts>>

\* Active::enter_state, coming from Dying.
EnterActive ==
    /\ state' = "active"
    /\ coreWaits' = coreWaits (+) WaitFor(Pending, announced)
    /\ UNCHANGED <<policy, connection, deferredClose, asked, session, staleWaits,
                   terminating, waits, data, counts, ghosts>>

\* Dying::enter_state, coming from Active, which has a session.
EnterDying ==
    /\ state' = "dying"
    /\ deathCount' = deathCount + 1
    /\ coreWaits' = coreWaits (+) DeathWait(announced)
    /\ dyingSince' = version
    /\ UNCHANGED <<policy, connection, deferredClose, asked, session, staleWaits,
                   terminating, waits, data, resyncs, errors, deactivated, strayed, overtaken>>

-----------------------------------------------------------------------------
(***************************************************************************)
(* The operations of the binding and of other user threads.                *)
(***************************************************************************)

\* Mutant: Dying::revive_if_needed that asks for a token as Inactive's does.
ReviveAskingAgain ==
    \/ state \in {"inactive", "dying"} /\ EnterWaiting
    \/ /\ state = "waiting"
       /\ deferredClose' = FALSE
       /\ UNCHANGED <<state, policy, connection, asked, core, waits, data, counts, ghosts>>
    \/ state = "active" /\ UNCHANGED <<state, policy, connection, deferredClose, asked,
                                       core, waits, data, counts, ghosts>>

Revive ==
    \/ state = "inactive" /\ EnterWaiting
    \/ /\ state = "waiting"
       /\ deferredClose' = FALSE
       /\ UNCHANGED <<state, policy, connection, asked, core, waits, data, counts, ghosts>>
    \/ state = "dying" /\ EnterActive
    \/ state = "active" /\ UNCHANGED <<state, policy, connection, deferredClose, asked,
                                       core, waits, data, counts, ghosts>>

ReviveIfNeeded == Revive /\ UNCHANGED Threads

HandleReconnect ==
    /\ state = "waiting" /\ ~asked
    /\ asked' = TRUE
    /\ UNCHANGED <<state, policy, connection, deferredClose, Threads, core, waits,
                   data, counts, ghosts>>

\* The binding could not get a token; handle_reconnect asks it again.
TokenFails ==
    /\ asked
    /\ asked' = FALSE
    /\ UNCHANGED <<state, policy, connection, deferredClose, Threads, core, waits,
                   data, counts, ghosts>>

\* refresh_access_token of Active, and of Dying and Inactive, which drop the token.
RefreshToken ==
    /\ asked /\ state # "waiting"
    /\ asked' = FALSE
    /\ UNCHANGED <<state, policy, connection, deferredClose, Threads, core, waits,
                   data, counts, ghosts>>

\* Mutant: the deferred commit notification is forgotten.
AnnouncedWithoutDeferred == IF ~session THEN version ELSE announced

\* Mutant: the deferred notification is one version off.
AnnouncedOffByOne ==
    IF ~session THEN version
    ELSE IF deferredCommit # 0 THEN deferredCommit + 1 ELSE announced

\* What the core session knows of local commits once it has its token: a new
\* session announces all there are, an old one is told of the deferred one.
AnnouncedOnBind ==
    IF ~session THEN version
    ELSE IF deferredCommit # 0 THEN deferredCommit ELSE announced

\* WaitingForAccessToken::refresh_access_token, which enters Active and, when a
\* close has been deferred, closes there.
TokenArrives ==
    /\ asked /\ state = "waiting"
    /\ asked' = FALSE
    /\ session' = TRUE
    /\ announced' = AnnouncedOnBind
    /\ deferredCommit' = 0
    /\ \/ /\ ~deferredClose \/ policy = "LiveIndefinitely"
          /\ state' = "active"
          /\ coreWaits' = coreWaits (+) WaitFor(Pending, AnnouncedOnBind)
          /\ UNCHANGED <<deathCount, dyingSince>>
       \/ /\ deferredClose /\ policy = "AfterChangesUploaded"
          /\ state' = "dying"
          /\ deathCount' = deathCount + 1
          /\ coreWaits' = coreWaits (+) WaitFor(Pending, AnnouncedOnBind)
                                    (+) DeathWait(AnnouncedOnBind)
          /\ dyingSince' = version
    /\ UNCHANGED <<policy, connection, deferredClose, Threads, staleWaits, terminating,
                   waits, version, uploaded, resyncs, errors, deactivated, strayed, overtaken>>

LogOut ==
    /\ state # "inactive"
    /\ EnterInactive(coreWaits, staleWaits)
    /\ UNCHANGED Threads

\* The session is on its way to become inactive.
Closing == state = "dying" \/ (state = "waiting" /\ deferredClose)

\* SyncManager::get_session: a new session is referenced before it is revived
\* (see Init); one that exists is revived first, if its user is logged in.
ReviveNew ==
    /\ getting = "revive" /\ getting' = "no"
    /\ Revive
    /\ UNCHANGED <<loop, updating, referenced>>

GetExisting ==
    /\ getting = "no"
    /\ \/ getting' = "revived" /\ Revive
       \/ /\ getting' = "refer"
          /\ UNCHANGED <<state, policy, connection, deferredClose, asked, core, waits,
                         data, counts, ghosts>>
    /\ UNCHANGED <<loop, updating, referenced>>

TakeReference ==
    /\ getting \in {"refer", "revived"} /\ getting' = "no"
    /\ referenced' = TRUE
    /\ strayed' = (strayed \/ Closing)
    /\ UNCHANGED <<state, policy, connection, deferredClose, asked, loop, updating,
                   core, waits, data, counts, dyingSince, deactivated, overtaken>>

\* close, when the last external reference is dropped.
DropReference ==
    /\ referenced /\ referenced' = FALSE
    /\ policy = "AfterChangesUploaded" => deathCount < MaxDeaths /\ MayHappen
    /\ UNCHANGED <<loop, updating, getting>>
    /\ \/ /\ state \in {"waiting", "active"} /\ policy = "Immediately"
          /\ EnterInactive(coreWaits, staleWaits)
       \/ /\ state = "waiting" /\ policy # "Immediately"
          /\ deferredClose' = TRUE
          /\ UNCHANGED <<state, policy, connection, asked, core, waits, data, counts, ghosts>>
       \/ state = "active" /\ policy = "AfterChangesUploaded" /\ EnterDying
       \/ /\ \/ state = "active" /\ policy = "LiveIndefinitely"
             \/ state \in {"dying", "inactive"}
          /\ UNCHANGED <<state, policy, connection, deferredClose, asked, core, waits,
                         data, counts, ghosts>>

\* update_configuration: an iteration of its loop, which switches to Inactive, without
\* the lock, until the session is and stays there.
UpdateConfiguration ==
    /\ updating \in {"no", "retry"} /\ UNCHANGED <<loop, getting, referenced>>
    /\ \/ /\ state # "inactive"
          /\ EnterInactive(coreWaits, staleWaits)
          /\ updating' = "retry"
       \/ /\ state = "inactive"
          /\ policy' \in Policies
          /\ updating' = "revive"
          /\ UNCHANGED <<state, connection, deferredClose, asked, core, waits, data,
                         counts, ghosts>>

UpdateConfigurationRevives ==
    /\ updating = "revive"
    /\ Revive
    /\ updating' = "no" /\ UNCHANGED <<loop, getting, referenced>>

\* Mutant: Dying inherits State::wait_for_completion, which does nothing.
WaitForCompletionNotDying(w) ==
    LET d == DirectionOf(w) IN
    /\ outcome[w] = "none" /\ MayHappen
    /\ outcome' = [outcome EXCEPT ![w] = "pending"]
    /\ need' = [need EXCEPT ![w] = version]
    /\ queue' = [queue EXCEPT ![d] = @ \cup {w}]
    /\ coreWaits' = IF queue[d] = {} /\ state = "active"
                    THEN coreWaits (+) WaitFor({d}, announced)
                    ELSE coreWaits
    /\ UNCHANGED <<state, policy, connection, deferredClose, asked, Threads, session,
                   staleWaits, terminating, aside, data, counts, ghosts>>

\* wait_for_upload_completion and wait_for_download_completion.  Only the first
\* wait in a queue registers with the core session.
WaitForCompletion(w) ==
    LET d == DirectionOf(w) IN
    /\ outcome[w] = "none" /\ MayHappen
    /\ outcome' = [outcome EXCEPT ![w] = "pending"]
    /\ need' = [need EXCEPT ![w] = version]
    /\ queue' = [queue EXCEPT ![d] = @ \cup {w}]
    /\ coreWaits' = IF queue[d] = {} /\ state \in {"active", "dying"}
                    THEN coreWaits (+) WaitFor({d}, announced)
                    ELSE coreWaits
    /\ UNCHANGED <<state, policy, connection, deferredClose, asked, Threads, session,
                   staleWaits, terminating, aside, data, counts, ghosts>>

\* nonsync_transact_notify, after a commit of a Realm, which holds a reference.
TransactNotify ==
    /\ referenced /\ version < MaxCommits /\ MayHappen
    /\ version' = version + 1
    /\ announced' = IF state = "active" THEN version' ELSE announced
    /\ deferredCommit' = IF state = "waiting" THEN version' ELSE deferredCommit
    /\ UNCHANGED <<state, policy, connection, deferredClose, asked, Threads, core,
                   waits, uploaded, counts, ghosts>>

-----------------------------------------------------------------------------
(***************************************************************************)
(* The event loop thread: what the core session does and calls.            *)
(***************************************************************************)

Idle == loop = <<>>

\* The connection is up; the listener sets m_connection_state.
Connect ==
    /\ Idle /\ session /\ ~connection
    /\ connection' = TRUE
    /\ UNCHANGED <<state, policy, deferredClose, asked, Threads, core, waits, data,
                   counts, ghosts>>

\* Changesets reach the server, announced ones and perhaps others.
Upload ==
    /\ Idle /\ connection /\ session /\ uploaded < version
    /\ uploaded' = uploaded + 1
    /\ UNCHANGED <<state, policy, connection, deferredClose, asked, Threads, core, waits,
                   version, announced, deferredCommit, counts, ghosts>>

\* Mutant: registrations of before a client resync are not told apart.
CompletedAlways(w, result) ==
    Finish(queue[w.kind], result) /\ queue' = [queue EXCEPT ![w.kind] = {}]

\* The lambda of add_completion_callback: all callbacks of a queue are called,
\* unless the registration is older than the last client resync.
Completed(w, result) ==
    IF w.count = resyncs
    THEN Finish(queue[w.kind], result) /\ queue' = [queue EXCEPT ![w.kind] = {}]
    ELSE UNCHANGED <<outcome, queue>>

CompletesWait(w) ==
    /\ Idle /\ BagIn(w, coreWaits) /\ w.kind # "death"
    /\ connection /\ (w.kind = "upload" => uploaded >= w.upto)
    /\ coreWaits' = Remove(w, coreWaits)
    /\ Completed(w, "ok")
    /\ UNCHANGED <<state, policy, connection, deferredClose, asked, Threads, session,
                   staleWaits, terminating, aside, need, data, counts, ghosts>>

AbortsWait(w) ==
    /\ Idle /\ BagIn(w, staleWaits)
    /\ staleWaits' = Remove(w, staleWaits)
    /\ IF w.kind = "death" THEN UNCHANGED <<outcome, queue>> ELSE Completed(w, "aborted")
    /\ UNCHANGED <<state, policy, connection, deferredClose, asked, Threads, session,
                   coreWaits, terminating, aside, need, data, counts, ghosts>>

\* Mutant: m_death_count is not compared.
IsAnyDeath(w) == state = "dying"

\* Dying's lambda: the upload that the current death waits for has completed.
IsCurrentDeath(w) == state = "dying" /\ deathCount = w.count

CompletesDeathWait(w) ==
    /\ Idle /\ BagIn(w, coreWaits) /\ w.kind = "death"
    /\ connection /\ uploaded >= w.upto
    /\ UNCHANGED Threads
    /\ \/ IsCurrentDeath(w) /\ EnterInactive(Remove(w, coreWaits), staleWaits)
       \/ /\ ~IsCurrentDeath(w)
          /\ coreWaits' = Remove(w, coreWaits)
          /\ UNCHANGED <<state, policy, connection, deferredClose, asked, session,
                         staleWaits, terminating, waits, data, counts, ghosts>>

Terminated ==
    /\ Idle /\ terminating /\ staleWaits = EmptyBag
    /\ terminating' = FALSE
    /\ UNCHANGED <<state, policy, connection, deferredClose, asked, Threads, session,
                   coreWaits, staleWaits, waits, data, counts, ghosts>>

\* The listener is called once more for a session that has been destroyed.
StaleConnect ==
    /\ Idle /\ terminating /\ ~connection
    /\ connection' = TRUE
    /\ UNCHANGED <<state, policy, deferredClose, asked, Threads, core, waits, data,
                   counts, ghosts>>

\* The listener is called with an error, which handle_error is given.
Error(kind) ==
    /\ Idle /\ (session \/ terminating)
    /\ errors < MaxErrors /\ MayHappen
    /\ errors' = errors + 1
    /\ connection' = FALSE
    /\ loop' = <<kind>>
    /\ UNCHANGED <<state, policy, deferredClose, asked, updating, getting, referenced, core, waits,
                   data, deathCount, resyncs, ghosts>>

Fatal(kind) == kind \in {"bad_authentication", "permission_denied", "client_reset", "fatal"}

\* The steps of handle_error once the state has left the error to it.
Handling(kind) ==
    LET cancelNonfatal == IF CancelWaitsOnNonfatalError THEN <<"cancel">> ELSE <<>> IN
    CASE kind = "ignored" -> <<>>
      [] kind = "token_expired" -> <<"expired">>
      [] kind = "bad_authentication" -> <<"cancel">> \o cancelNonfatal
      [] kind = "permission_denied" -> <<"inactive">>
      [] kind = "client_reset" /\ ResyncMode = "Manual" -> <<"cancel", "inactive">>
      [] kind = "client_reset" /\ ResyncMode # "Manual" -> <<"resync", "restore", "revive">>
      [] kind = "fatal" -> <<"cancel">>
      [] kind = "nonfatal" -> cancelNonfatal

\* m_state->handle_error: Dying takes all errors upon itself.
HandleError ==
    /\ ~Idle /\ Head(loop) \in ErrorKind
    /\ UNCHANGED <<updating, getting, referenced>>
    /\ \/ /\ state = "dying" /\ Fatal(Head(loop))
          /\ loop' = <<>>
          /\ EnterInactive(coreWaits, staleWaits)
       \/ /\ loop' = IF state = "dying" THEN <<>> ELSE Handling(Head(loop))
          /\ ~(state = "dying" /\ Fatal(Head(loop)))
          /\ UNCHANGED <<state, policy, connection, deferredClose, asked, core, waits,
                         data, counts, ghosts>>

Takes(step) ==
    /\ ~Idle /\ Head(loop) = step
    /\ loop' = Tail(loop)
    /\ UNCHANGED <<updating, getting, referenced>>

CancelPendingWaits ==
    /\ Takes("cancel")
    /\ queue' = NoWaits
    /\ Finish(Queued(queue), "error")
    /\ UNCHANGED <<state, policy, connection, deferredClose, asked, core, aside, need,
                   data, counts, ghosts>>

BecomeInactive ==
    /\ Takes("inactive")
    /\ EnterInactive(coreWaits, staleWaits)

AccessTokenExpired ==
    /\ Takes("expired")
    /\ \/ state = "active" /\ EnterWaiting
       \/ /\ state # "active"
          /\ UNCHANGED <<state, policy, connection, deferredClose, asked, core, waits,
                         data, counts, ghosts>>

\* Mutant: the handlers stay where Inactive::enter_state finds them.
ClientResyncInPlace ==
    /\ Takes("resync")
    /\ resyncs' = resyncs + 1
    /\ aside' = NoWaits
    /\ queue' = NoWaits
    /\ Finish(Queued(queue), "aborted")
    /\ state' = "inactive"
    /\ connection' = FALSE
    /\ DestroySession(coreWaits, staleWaits)
    /\ UNCHANGED <<policy, deferredClose, asked, need, data, deathCount, errors, ghosts>>

\* A client resync tears the session down with the handlers moved aside,
\* restores them after the lock has been released, and revives.
ClientResync ==
    /\ Takes("resync")
    /\ resyncs' = resyncs + 1
    /\ aside' = queue
    /\ queue' = NoWaits
    /\ state' = "inactive"
    /\ connection' = FALSE
    /\ DestroySession(coreWaits, staleWaits)
    /\ UNCHANGED <<policy, deferredClose, asked, outcome, need, data, deathCount,
                   errors, ghosts>>

RestoreHandlers ==
    /\ Takes("restore")
    /\ queue' = aside
    /\ aside' = NoWaits
    /\ overtaken' = (overtaken \/ state \in {"active", "dying"})
    /\ UNCHANGED <<state, policy, connection, deferredClose, asked, core, outcome, need,
                   data, counts, dyingSince, deactivated, strayed>>

ReviveAfterResync == Takes("revive") /\ Revive

-----------------------------------------------------------------------------
Init ==
    /\ state = "inactive" /\ policy \in Policies
    /\ session = FALSE /\ connection = FALSE /\ terminating = FALSE
    /\ queue = NoWaits /\ aside = NoWaits
    /\ deferredClose = FALSE /\ deferredCommit = 0 /\ deathCount = 0 /\ resyncs = 0
    /\ loop = <<>> /\ updating = "no" /\ asked = FALSE
    /\ coreWaits = EmptyBag /\ staleWaits = EmptyBag
    /\ version = 0 /\ announced = 0 /\ uploaded = 0 /\ errors = 0
    /\ outcome = [w \in Waits |-> "none"] /\ need = [w \in Waits |-> 0]
    /\ dyingSince = 0 /\ deactivated = FALSE /\ strayed = FALSE /\ overtaken = FALSE
    /\ getting = "revive" /\ referenced = TRUE

UserStep ==
    \/ ReviveIfNeeded \/ HandleReconnect \/ TokenFails \/ RefreshToken \/ TokenArrives
    \/ LogOut \/ ReviveNew \/ GetExisting \/ TakeReference \/ DropReference
    \/ UpdateConfiguration \/ UpdateConfigurationRevives
    \/ \E w \in Waits : WaitForCompletion(w)
    \/ TransactNotify

CoreStep ==
    \/ Connect \/ Upload \/ StaleConnect \/ Terminated
    \/ \E w \in BagToSet(coreWaits) : CompletesWait(w) \/ CompletesDeathWait(w)
    \/ \E w \in BagToSet(staleWaits) : AbortsWait(w)

HandlerStep ==
    \/ HandleError \/ CancelPendingWaits \/ BecomeInactive \/ AccessTokenExpired
    \/ ClientResync \/ RestoreHandlers \/ ReviveAfterResync

Next == UserStep \/ CoreStep \/ HandlerStep \/ \E kind \in ErrorKind : Error(kind)

(***************************************************************************)
(* The event loop runs what is due: an idle loop connects and uploads, and *)
(* completes waits and aborts those of destroyed sessions.  The binding    *)
(* gets a token at some time, if it is asked again and again.              *)
(***************************************************************************)
WaitsAreCompleted(d) ==
    \E w \in BagToSet(coreWaits) : w.kind = d /\ (CompletesWait(w) \/ CompletesDeathWait(w))

Fairness ==
    /\ WF_vars(HandlerStep)
    /\ WF_vars(HandleReconnect) /\ SF_vars(TokenArrives)
    /\ SF_vars(Connect) /\ SF_vars(Upload)
    /\ \A d \in Direction \cup {"death"} : SF_vars(WaitsAreCompleted(d))
    /\ WF_vars(\E w \in BagToSet(staleWaits) : AbortsWait(w))

Spec == Init /\ [][Next]_vars
FairSpec == Spec /\ Fairness

-----------------------------------------------------------------------------
(***************************************************************************)
(* Properties.                                                             *)
(***************************************************************************)

\* An active or dying session has a core session and an inactive one has none,
\* as the REALM_ASSERTs of wait_for_completion and update_configuration say.
SessionMatchesState ==
    /\ state \in {"active", "dying"} => session
    /\ state = "inactive" => ~session

\* An active session has told the core session of the last local commit,
\* whatever states the session was in when the commit was made, unless it was
\* made through a reference that was handed out while the session was closing.
CommitsAreAnnounced == state = "active" /\ ~strayed => announced = version

\* The sync session only moves along the arrows in the comment at the top of
\* sync_session.cpp.
Arrows == {<<"inactive", "waiting">>, <<"waiting", "active">>, <<"waiting", "inactive">>,
           <<"waiting", "dying">>, \* Active for an instant, for a deferred close
           <<"active", "waiting">>, <<"active", "inactive">>, <<"active", "dying">>,
           <<"dying", "inactive">>, <<"dying", "active">>}
MovesAlongArrows == [][state' # state => <<state, state'>> \in Arrows]_vars

\* Whenever a callback waits in the queue of an active session, the core
\* session has an operation in progress whose completion will call it, unless
\* a client resync put the callback back after another thread had revived the
\* session and its token had arrived.
QueuedWaitsAreRegistered ==
    state \in {"active", "dying"} /\ ~overtaken =>
        \A d \in Pending : \E w \in BagToSet(coreWaits) : w.kind = d /\ w.count = resyncs

\* A dying session ends by itself only when the changes it had when it was
\* closed are on the server, though it may have been revived and closed before.
DyingUploadsFirst ==
    [][ (state = "dying" /\ ~strayed /\ \E w \in BagToSet(coreWaits) : CompletesDeathWait(w))
        => (state' = "inactive" => uploaded >= dyingSince) ]_vars

\* A client resync is transparent: it does not abort waits, nor do the
\* operations of the session it tears down.
ResyncIsTransparent == (\E w \in Waits : outcome[w] = "aborted") => deactivated

\* A wait leaves the queues only when its callback is called, but for the one
\* step that writes to them without the lock.
WaitsAreNotDropped ==
    [][ ~RestoreHandlers =>
        \A w \in Queued(queue) \cup Queued(aside) :
            outcome'[w] = "pending" => w \in Queued(queue') \cup Queued(aside') ]_vars

\* A wait is over at some time, or the session is inactive at some time.
WaitsEnd == \A w \in Waits :
    outcome[w] = "pending" ~> (outcome[w] # "pending" \/ state = "inactive")

\* A session that is closed under AfterChangesUploaded does not stay dying.
DyingEnds == state = "dying" ~> state # "dying"

-----------------------------------------------------------------------------
(***************************************************************************)
(* What a comment says and the code does not keep.                         *)
(***************************************************************************)

\* sync_session.hpp:137: the callback is called when all pending uploads have
\* completed, so the commits made before the wait are on the server then.
UploadWaitsMeanUploaded ==
    \A w \in UploadWaits : outcome[w] = "ok" => uploaded >= need[w]
=============================================================================
