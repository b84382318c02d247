---------------------------- MODULE SyncMetadata ----------------------------
(***************************************************************************)
(* What the Object Store remembers about sync users and about Realm files  *)
(* that cannot be deleted at once: the users and the file actions of the   *)
(* metadata Realm (sync/impl/sync_metadata.cpp), the start that works them *)
(* off (SyncManager::configure), the operations that write them, and the   *)
(* files.  The process may end between any two changes of a file or        *)
(* commits of the metadata Realm.                                          *)
(*                                                                         *)
(* A user has one synced Realm, in the directory that the local uuid       *)
(* names; its path is that uuid.  Files are told apart by the number they  *)
(* get when they are created.                                              *)
(***************************************************************************)
EXTENDS Integers, FiniteSets

CONSTANTS
    Users,                         \* identities
    MaxUuids, MaxNames, MaxFiles,  \* bounds of what may be created
    MaxCrashes                     \* and of the number of crashes

ASSUME SyncMetadataAssumption ==
    {MaxUuids, MaxNames, MaxFiles, MaxCrashes} \subseteq Nat

Path == 1..MaxUuids     \* local uuids
Name == 1..MaxNames     \* recovery paths that reserve_unique_file_name returns
File == 1..MaxFiles
Nothing == 0            \* no file, no uuid, no name
Partial == -1           \* a copy that has not been completed

NoAction == [kind |-> "none", new_name |-> Nothing]
Delete == [kind |-> "DeleteRealm", new_name |-> Nothing]
BackUp(n) == [kind |-> "BackUpThenDeleteRealm", new_name |-> n]
NoRow == [uuid |-> Nothing, marked |-> FALSE, token |-> FALSE]
NoRun == [by |-> "nobody", path |-> Nothing, at |-> "idle"]

VARIABLES
    actions,    \* the file actions of the metadata Realm, by original_name
    row,        \* the user metadata of the metadata Realm, by identity
    file,       \* the Realm file at each path
    recovery,   \* the files in the recovery directory
    phase,      \* where SyncManager::configure is
    run,        \* the call of run_file_action that is under way
    todo, completed,        \* file actions that configure still has to run, has run
    loaded, doomed, dead,   \* users_to_add, users_to_remove, dead_users
    member,     \* the state of the SyncUser in m_users
    logging,    \* the user whose metadata is being written by a log-in
    adminDue,   \* users whose set_is_admin has not been called since the log-in
    open,       \* paths of open Realms
    live,       \* paths whose session can meet an error
    nextUuid, nextName, nextFile, crashes,
    promised,   \* files that an error promised a recovered copy of
    overwritten,    \* those whose action a permission error has overwritten
    abandoned,      \* those that were removed with the directory of their user
    interrupted,    \* recovery paths whose copy failed or met a crash
    wants,          \* what the application has last asked for each user
    adminRevived    \* users whom set_is_admin has revived

disk == <<file, recovery>>
start == <<phase, todo, completed, loaded, doomed, dead>>
memory == <<member, logging, adminDue, open, live>>
fresh == <<nextUuid, nextName, nextFile>>
ghosts == <<promised, overwritten, abandoned, interrupted, wants, adminRevived>>
vars == <<actions, row, disk, run, start, memory, fresh, crashes, ghosts>>

\* Types; what has been completed is still to be removed, once.
TypeOK ==
    /\ actions \in [Path -> {NoAction, Delete} \cup {BackUp(n) : n \in Name}]
    /\ row \in [Users -> [uuid : Path, marked : BOOLEAN, token : BOOLEAN] \cup {NoRow}]
    /\ file \in [Path -> File \cup {Nothing}]
    /\ recovery \in [Name -> File \cup {Nothing, Partial}]
    /\ phase \in {"off", "actions", "rows", "users", "directories", "user rows",
                  "insert", "running"}
    /\ run \in {NoRun} \cup [by : {"configure", "app"}, path : Path,
                             at : {"copying", "copied", "done"}]
    /\ todo \cup completed \subseteq Path
    /\ \A p \in completed : actions[p] # NoAction
    /\ loaded \cup doomed \cup dead \cup adminDue \subseteq Users
    /\ member \in [Users -> {"absent", "Active", "LoggedOut"}]
    /\ logging \subseteq Users /\ Cardinality(logging) <= 1
    /\ live \subseteq open /\ open \subseteq Path
    /\ nextUuid \in 1..MaxUuids + 1 /\ nextName \in 1..MaxNames + 1
    /\ nextFile \in 1..MaxFiles + 1 /\ crashes \in 0..MaxCrashes

-----------------------------------------------------------------------------
(***************************************************************************)
(* SyncManager::run_file_action, from configure or from                    *)
(* immediately_run_file_actions.                                           *)
(***************************************************************************)

\* Mutant: what has been completed is removed at once.
RemovedAtOnce(p) == actions' = [actions EXCEPT ![p] = NoAction]

\* The metadata of a completed action is kept until all actions have run.
KeptForNow(p) == UNCHANGED actions

\* run_file_action returns TRUE: the action can be removed.
ReturnsTrue(by, p) ==
    /\ KeptForNow(p)
    /\ \/ /\ by = "configure" /\ run' = NoRun
          /\ todo' = todo \ {p} /\ completed' = completed \cup {p}
       \/ /\ by = "app" /\ run' = [by |-> by, path |-> p, at |-> "done"]
          /\ UNCHANGED <<todo, completed>>

ReturnsFalse(by, p) ==
    /\ run' = NoRun
    /\ todo' = IF by = "configure" THEN todo \ {p} ELSE todo
    /\ UNCHANGED <<actions, completed>>

\* Mutant: an action for a file that is gone is kept.
MissingKeeps(by, p) == ReturnsFalse(by, p)

\* "The Realm file doesn't exist anymore."
MissingIsDone(by, p) == ReturnsTrue(by, p)

RunFileAction(by, p) ==
    LET a == actions[p] IN
    /\ run = NoRun
    /\ \/ /\ a.kind = "DeleteRealm"
          /\ file' = [file EXCEPT ![p] = Nothing]
          /\ ReturnsTrue(by, p)
          /\ UNCHANGED <<recovery, interrupted>>
       \/ /\ a.kind = "BackUpThenDeleteRealm" /\ file[p] = Nothing
          /\ MissingIsDone(by, p)
          /\ UNCHANGED <<disk, interrupted>>
       \/ /\ a.kind = "BackUpThenDeleteRealm" /\ file[p] # Nothing
          /\ recovery[a.new_name] # Nothing
          /\ ReturnsFalse(by, p)
          /\ UNCHANGED <<disk, interrupted>>
       \/ /\ a.kind = "BackUpThenDeleteRealm" /\ file[p] # Nothing
          /\ recovery[a.new_name] = Nothing
          /\ recovery' = [recovery EXCEPT ![a.new_name] = Partial]
          /\ run' = [by |-> by, path |-> p, at |-> "copying"]
          /\ UNCHANGED <<file, actions, todo, completed, interrupted>>
    /\ UNCHANGED <<row, phase, loaded, doomed, dead, memory, fresh, crashes, promised,
                   overwritten, abandoned, wants, adminRevived>>

Running(at) == run.at = at
NewName == actions[run.path].new_name

\* copy_realm_file has copied the file.
CopyEnds ==
    /\ Running("copying")
    /\ recovery' = [recovery EXCEPT ![NewName] = file[run.path]]
    /\ run' = [run EXCEPT !.at = "copied"]
    /\ UNCHANGED <<actions, row, file, start, memory, fresh, crashes, ghosts>>

\* Mutant: the result of copy_realm_file is not looked at.
FailedCopyIgnored(by, p) ==
    run' = [run EXCEPT !.at = "copied"] /\ UNCHANGED <<actions, todo, completed>>

\* copy_realm_file returns false: the action is kept.
FailedCopyKeeps(by, p) == ReturnsFalse(by, p)

\* copy_realm_file meets an AccessError, when the disk is full: what it has
\* copied stays.
CopyFails ==
    /\ Running("copying")
    /\ interrupted' = interrupted \cup {NewName}
    /\ FailedCopyKeeps(run.by, run.path)
    /\ UNCHANGED <<row, disk, phase, loaded, doomed, dead, memory, fresh, crashes,
                   promised, overwritten, abandoned, wants, adminRevived>>

\* remove_realm, after the copy
RemoveOriginal ==
    /\ Running("copied")
    /\ file' = [file EXCEPT ![run.path] = Nothing]
    /\ ReturnsTrue(run.by, run.path)
    /\ UNCHANGED <<row, recovery, phase, loaded, doomed, dead, memory, fresh, crashes,
                   ghosts>>

\* immediately_run_file_actions removes the metadata.
RemoveHandled ==
    /\ Running("done")
    /\ actions' = [actions EXCEPT ![run.path] = NoAction]
    /\ run' = NoRun
    /\ UNCHANGED <<row, disk, start, memory, fresh, crashes, ghosts>>

-----------------------------------------------------------------------------
(***************************************************************************)
(* SyncManager::configure.                                                 *)
(***************************************************************************)

Launch ==
    /\ phase = "off"
    /\ phase' = "actions"
    /\ todo' = {p \in Path : actions[p] # NoAction}
    /\ UNCHANGED <<actions, row, disk, run, completed, loaded, doomed, dead, memory, fresh,
                   crashes, ghosts>>

RunPending == phase = "actions" /\ \E p \in todo : RunFileAction("configure", p)

RemoveCompleted ==
    /\ phase = "rows" /\ \E p \in completed :
          /\ actions' = [actions EXCEPT ![p] = NoAction]
          /\ completed' = completed \ {p}
    /\ UNCHANGED <<row, disk, run, phase, todo, loaded, doomed, dead, memory, fresh,
                   crashes, ghosts>>

\* The loops of configure, one after the other
NextPhase ==
    /\ \/ phase = "actions" /\ todo = {} /\ run = NoRun /\ phase' = "rows"
       \/ phase = "rows" /\ completed = {} /\ phase' = "users"
       \/ phase = "directories" /\ doomed = {} /\ phase' = "user rows"
       \/ phase = "user rows" /\ dead = {} /\ phase' = "insert"
    /\ UNCHANGED <<actions, row, disk, run, todo, completed, loaded, doomed, dead, memory,
                   fresh, crashes, ghosts>>

\* all_unmarked_users with a token, all_users_marked_for_removal
LoadUsers ==
    /\ phase = "users"
    /\ phase' = "directories"
    /\ loaded' = {u \in Users : row[u] # NoRow /\ ~row[u].marked /\ row[u].token}
    /\ doomed' = {u \in Users : row[u].marked}
    /\ UNCHANGED <<actions, row, disk, run, todo, completed, dead, memory, fresh, crashes,
                   ghosts>>

\* remove_user_directory, or the AccessError that makes configure skip the user
RemoveDirectory(u) ==
    /\ phase = "directories" /\ u \in doomed
    /\ doomed' = doomed \ {u}
    /\ \/ /\ file' = [file EXCEPT ![row[u].uuid] = Nothing]
          /\ abandoned' = abandoned \cup {file[row[u].uuid]}
          /\ dead' = dead \cup {u}
       \/ UNCHANGED <<file, abandoned, dead>>
    /\ UNCHANGED <<actions, row, recovery, run, phase, todo, completed, loaded, memory,
                   fresh, crashes, promised, overwritten, interrupted, wants, adminRevived>>

RemoveDead ==
    /\ phase = "user rows" /\ \E u \in dead :
          row' = [row EXCEPT ![u] = NoRow] /\ dead' = dead \ {u}
    /\ UNCHANGED <<actions, disk, run, phase, todo, completed, loaded, doomed, memory,
                   fresh, crashes, ghosts>>

InsertUsers ==
    /\ phase = "insert"
    /\ phase' = "running"
    /\ member' = [u \in Users |-> IF u \in loaded THEN "Active" ELSE "absent"]
    /\ loaded' = {}
    /\ UNCHANGED <<actions, row, disk, run, todo, completed, doomed, dead, logging,
                   adminDue, open, live, fresh, crashes, ghosts>>

\* The process ends, and with it all but the files.
Crash ==
    /\ phase # "off" /\ crashes < MaxCrashes
    /\ crashes' = crashes + 1
    /\ phase' = "off" /\ run' = NoRun
    /\ todo' = {} /\ completed' = {} /\ loaded' = {} /\ doomed' = {} /\ dead' = {}
    /\ member' = [u \in Users |-> "absent"]
    /\ logging' = {} /\ adminDue' = {} /\ open' = {} /\ live' = {}
    /\ interrupted' = IF run.at \in {"copying", "copied"} THEN interrupted \cup {NewName}
                      ELSE interrupted
    /\ UNCHANGED <<actions, row, disk, fresh, promised, overwritten, abandoned, wants,
                   adminRevived>>

-----------------------------------------------------------------------------
(***************************************************************************)
(* The running application.  What writes to the metadata Realm does so     *)
(* under m_file_system_mutex.                                              *)
(***************************************************************************)

InApp == phase = "running" /\ logging = {}

\* Mutant: a user who was marked for removal is found, but not revived.
Found(r) == r

\* get_or_make_user_metadata with make_if_absent, of a user it finds
Revived(r) == [r EXCEPT !.marked = FALSE]

GetOrMake(u) ==
    \/ /\ row[u] # NoRow
       /\ row' = [row EXCEPT ![u] = Revived(@)]
       /\ UNCHANGED nextUuid
    \/ /\ row[u] = NoRow /\ nextUuid \in Path
       /\ row' = [row EXCEPT ![u] = [uuid |-> nextUuid, marked |-> FALSE, token |-> FALSE]]
       /\ nextUuid' = nextUuid + 1

\* get_user: the constructor of SyncUser or update_refresh_token, which write
\* the user and then the token.
LogIn(u) ==
    /\ InApp /\ member[u] # "Active"
    /\ GetOrMake(u)
    /\ logging' = {u}
    /\ wants' = [wants EXCEPT ![u] = "unknown"]
    /\ UNCHANGED <<actions, disk, run, start, member, adminDue, open, live, nextName,
                   nextFile, crashes, promised, overwritten, abandoned, interrupted,
                   adminRevived>>

SetUserToken(u) ==
    /\ u \in logging
    /\ logging' = {}
    /\ row' = [row EXCEPT ![u].token = TRUE]
    /\ member' = [member EXCEPT ![u] = "Active"]
    /\ adminDue' = adminDue \cup {u}
    /\ wants' = [wants EXCEPT ![u] = "in"] /\ adminRevived' = adminRevived \ {u}
    /\ UNCHANGED <<actions, disk, run, start, open, live, fresh, crashes, promised,
                   overwritten, abandoned, interrupted>>

\* SyncUser::log_out, which marks the user for removal
LogOut(u) ==
    /\ InApp /\ member[u] = "Active"
    /\ member' = [member EXCEPT ![u] = "LoggedOut"]
    /\ row' = [row EXCEPT ![u].marked = TRUE]
    /\ live' = live \ {row[u].uuid}
    /\ wants' = [wants EXCEPT ![u] = "out"]
    /\ UNCHANGED <<actions, disk, run, start, logging, adminDue, open, fresh, crashes,
                   promised, overwritten, abandoned, interrupted, adminRevived>>

\* SyncUser::set_is_admin, which the binding calls when get_user has returned
SetIsAdmin(u) ==
    /\ InApp /\ u \in adminDue
    /\ adminDue' = adminDue \ {u}
    /\ GetOrMake(u)
    /\ adminRevived' = IF member[u] = "LoggedOut" THEN adminRevived \cup {u}
                       ELSE adminRevived
    /\ UNCHANGED <<actions, disk, run, start, member, logging, open, live, nextName,
                   nextFile, crashes, promised, overwritten, abandoned, interrupted, wants>>

\* The Realm is opened, and created if there is none; its session is revived.
OpenRealm(u) ==
    LET p == row[u].uuid IN
    /\ InApp /\ member[u] = "Active" /\ run.path # p /\ p \notin live
    /\ open' = open \cup {p} /\ live' = live \cup {p}
    /\ \/ file[p] # Nothing /\ UNCHANGED <<file, nextFile>>
       \/ /\ file[p] = Nothing /\ nextFile \in File
          /\ file' = [file EXCEPT ![p] = nextFile]
          /\ nextFile' = nextFile + 1
    /\ UNCHANGED <<actions, row, recovery, run, start, member, logging, adminDue, nextUuid,
                   nextName, crashes, ghosts>>

CloseRealm(p) ==
    /\ InApp /\ p \in open
    /\ open' = open \ {p} /\ live' = live \ {p}
    /\ UNCHANGED <<actions, row, disk, run, start, member, logging, adminDue, fresh,
                   crashes, ghosts>>

\* A session error under which the Realm is to be backed up and deleted:
\* update_error_and_mark_file_for_deletion.  The row has the path as its primary
\* key, so it replaces the one there is.
ClientReset(p) ==
    /\ InApp /\ p \in live /\ nextName \in Name
    /\ actions' = [actions EXCEPT ![p] = BackUp(nextName)]
    /\ nextName' = nextName + 1
    /\ live' = live \ {p}
    /\ promised' = promised \cup {file[p]}
    /\ overwritten' = overwritten \ {file[p]}
    /\ UNCHANGED <<row, disk, run, start, member, logging, adminDue, open, nextUuid,
                   nextFile, crashes, abandoned, interrupted, wants, adminRevived>>

\* permission_denied: the Realm is to be deleted.
PermissionDenied(p) ==
    /\ InApp /\ p \in live
    /\ actions' = [actions EXCEPT ![p] = Delete]
    /\ live' = live \ {p}
    /\ overwritten' = overwritten \cup {file[p]}
    /\ UNCHANGED <<row, disk, run, start, member, logging, adminDue, open, fresh, crashes,
                   promised, abandoned, interrupted, wants, adminRevived>>

\* immediately_run_file_actions, whose precondition is that the Realm is closed
HandleImmediately(p) ==
    /\ InApp /\ p \notin open /\ actions[p] # NoAction
    /\ RunFileAction("app", p)

-----------------------------------------------------------------------------
Init ==
    /\ actions = [p \in Path |-> NoAction] /\ row = [u \in Users |-> NoRow]
    /\ file = [p \in Path |-> Nothing] /\ recovery = [n \in Name |-> Nothing]
    /\ phase = "off" /\ run = NoRun
    /\ todo = {} /\ completed = {} /\ loaded = {} /\ doomed = {} /\ dead = {}
    /\ member = [u \in Users |-> "absent"] /\ logging = {} /\ adminDue = {}
    /\ open = {} /\ live = {}
    /\ nextUuid = 1 /\ nextName = 1 /\ nextFile = 1 /\ crashes = 0
    /\ promised = {} /\ overwritten = {} /\ abandoned = {} /\ interrupted = {}
    /\ wants = [u \in Users |-> "out"] /\ adminRevived = {}

Next ==
    \/ Launch \/ RunPending \/ RemoveCompleted \/ NextPhase \/ LoadUsers \/ RemoveDead
    \/ InsertUsers \/ CopyEnds \/ CopyFails \/ RemoveOriginal \/ RemoveHandled \/ Crash
    \/ \E u \in Users : \/ RemoveDirectory(u) \/ LogIn(u) \/ SetUserToken(u) \/ LogOut(u)
                        \/ SetIsAdmin(u) \/ OpenRealm(u)
    \/ \E p \in Path : \/ CloseRealm(p) \/ ClientReset(p) \/ PermissionDenied(p)
                       \/ HandleImmediately(p)

Spec == Init /\ [][Next]_vars

-----------------------------------------------------------------------------
(***************************************************************************)
(* Properties.                                                             *)
(***************************************************************************)

\* "The local copy of the Realm is copied into a recovery directory for
\* safekeeping, and then deleted" (RLMSyncUtil.h:77): a file that a client reset
\* was announced for is there, or a complete copy of it is, whatever crashes and
\* failed copies there were; but for a permission error that came later and a
\* user whose directory was removed.
PromisedCopiesExist ==
    \A f \in promised \ (overwritten \cup abandoned) :
        \/ \E p \in Path : file[p] = f
        \/ \E n \in Name : recovery[n] = f

\* "The client reset process will be automatically carried out the next time the
\* app is launched" (RLMSyncUtil.h:96): when a start has run the file actions,
\* none is left, but for those whose copy was interrupted at an earlier time.
\* These stay, for copies are never overwritten.
StartsCarryOutActions ==
    phase = "users" =>
        \A p \in Path : actions[p] = NoAction \/ actions[p].new_name \in interrupted

\* A start finds logged in whom the application has logged in, and nobody it has
\* logged out, although users are revived and removed in several commits; but for
\* set_is_admin, which revives a user who has been logged out since the log-in.
UsersOutliveTheProcess ==
    \A u \in Users :
        /\ wants[u] = "in" => row[u] # NoRow /\ ~row[u].marked /\ row[u].token
        /\ wants[u] = "out" => row[u] = NoRow \/ row[u].marked \/ u \in adminRevived
=============================================================================
