------------------------- MODULE SyncMetadataProofs -------------------------
(***************************************************************************)
(* The invariants of SyncMetadata, for every set of users and every number *)
(* of uuids, recovery paths, files and crashes.                            *)
(***************************************************************************)
EXTENDS SyncMetadata, FiniteSetTheorems, TLAPS

USE SyncMetadataAssumption

-----------------------------------------------------------------------------
(***************************************************************************)
(* The inductive invariant, in the parts that the properties rest on.      *)
(***************************************************************************)

\* What has been started in one part of the program is over in the others: the
\* work lists of configure are empty when the application runs, and nobody logs
\* in and no Realm is open before.
PhasesApart ==
    /\ phase = "running" => completed = {} /\ doomed = {} /\ dead = {} /\ loaded = {}
    /\ phase # "running" => logging = {} /\ adminDue = {} /\ open = {}
    /\ phase # "running" => \A u \in Users : member[u] = "absent"
    /\ run.by = "app" => phase = "running"
    /\ run.by = "configure" => phase = "actions"
    /\ completed # {} => phase \in {"actions", "rows"}
    /\ doomed # {} => phase = "directories"
    /\ dead # {} => phase \in {"directories", "user rows"}
    /\ loaded # {} => phase \in {"directories", "user rows", "insert"}

\* configure adds the users whose rows are not marked and removes those whose
\* rows are.
StartSplitsUsers ==
    /\ \A u \in loaded : row[u] # NoRow /\ ~row[u].marked
    /\ \A u \in doomed \cup dead : row[u] # NoRow /\ row[u].marked

\* The rows of those who are logged in, or about to be, are there.
RowsFollowMembers ==
    /\ \A u \in logging : row[u] # NoRow /\ ~row[u].marked /\ wants[u] = "unknown"
    /\ \A u \in Users : member[u] = "Active" => row[u] # NoRow
    /\ \A u \in adminDue : \/ member[u] = "LoggedOut"
                           \/ member[u] = "Active" /\ wants[u] = "in"

\* A file is at one path only, and a promised one has been created.
FilesAreDistinct ==
    /\ \A p \in Path : file[p] < nextFile
    /\ \A p, q \in Path : file[p] = file[q] => p = q \/ file[p] = Nothing
    /\ promised \subseteq 1..nextFile - 1
    /\ \A p \in live : file[p] # Nothing

\* A promised file whose deletion is pending has met a permission error.
DeletionsAreAllowed ==
    \A p \in Path : actions[p] = Delete /\ file[p] \in promised => file[p] \in overwritten

\* What run_file_action has done so far.
RunIsOnItsWay ==
    run # NoRun =>
        /\ run.path \notin open
        /\ run.at \in {"copying", "copied"} =>
              /\ actions[run.path].kind = "BackUpThenDeleteRealm"
              /\ file[run.path] # Nothing
        /\ run.at = "copying" => recovery[NewName] = Partial
        /\ run.at = "copied" => recovery[NewName] = file[run.path]
        /\ run.at = "done" => run.by = "app" /\ file[run.path] = Nothing

IsBackUp(p) == actions[p].kind = "BackUpThenDeleteRealm"

\* Each recovery path is reserved for one action.
NamesAreDistinct ==
    /\ \A p \in Path : IsBackUp(p) => actions[p].new_name < nextName
    /\ \A p, q \in Path : IsBackUp(p) /\ IsBackUp(q)
          /\ actions[p].new_name = actions[q].new_name => p = q
    /\ \A n \in Name : recovery[n] # Nothing => n < nextName

\* Where the recovery path of a pending action is taken, its copy was interrupted
\* or is being made, or only the metadata of the action is left.
CopiesAreAccountedFor ==
    \A p \in Path : IsBackUp(p) /\ recovery[actions[p].new_name] # Nothing =>
        \/ actions[p].new_name \in interrupted
        \/ run.path = p
        \/ file[p] = Nothing /\ phase # "running"

Settled(p) == actions[p] = NoAction \/ actions[p].new_name \in interrupted

\* What configure has not left behind is settled.
StartProceeds ==
    /\ phase = "actions" =>
          \A p \in Path : p \in todo \cup completed \/ run.path = p \/ Settled(p)
    /\ phase = "rows" => \A p \in Path : p \in completed \/ Settled(p)
    /\ phase \in {"users", "directories", "user rows", "insert"} =>
          \A p \in Path : Settled(p)

WantsTypeOK == wants \in [Users -> {"in", "out", "unknown"}]

IInv ==
    /\ TypeOK /\ WantsTypeOK
    /\ PhasesApart /\ StartSplitsUsers /\ RowsFollowMembers
    /\ FilesAreDistinct /\ DeletionsAreAllowed /\ RunIsOnItsWay
    /\ NamesAreDistinct /\ CopiesAreAccountedFor /\ StartProceeds
    /\ PromisedCopiesExist /\ UsersOutliveTheProcess

-----------------------------------------------------------------------------
(***************************************************************************)
(* The rows, actions and runs that there can be.                           *)
(***************************************************************************)

Row == [uuid : Path, marked : BOOLEAN, token : BOOLEAN]
RunOfAction == [by : {"configure", "app"}, path : Path, at : {"copying", "copied", "done"}]

\* A row that is written by marking, reviving or a new token is a row.
LEMMA RowUpdates ==
    ASSUME NEW r \in Row, NEW b \in BOOLEAN
    PROVE  /\ r # NoRow
           /\ [r EXCEPT !.marked = b] \in Row /\ [r EXCEPT !.marked = b].marked = b
           /\ [r EXCEPT !.marked = b].token = r.token
           /\ [r EXCEPT !.token = b] \in Row /\ [r EXCEPT !.token = b].token = b
           /\ [r EXCEPT !.token = b].marked = r.marked
<1>1. r.uuid # 0
  BY DEF Row, Path
<1>2. r # NoRow
  BY <1>1 DEF NoRow, Nothing
<1> QED
  BY <1>2 DEF Row

\* get_or_make_user_metadata leaves a row that is not marked, with the token it had.
LEMMA GetOrMakeGives ==
    ASSUME TypeOK, NEW u \in Users, GetOrMake(u)
    PROVE  \E r \in Row : /\ row' = [row EXCEPT ![u] = r]
                          /\ ~r.marked
                          /\ row[u] # NoRow => r.token = row[u].token
<1>1. CASE row[u] # NoRow /\ row' = [row EXCEPT ![u] = Revived(@)]
  <2>1. row[u] \in Row
    BY <1>1 DEF TypeOK, Row
  <2> DEFINE r == [row[u] EXCEPT !.marked = FALSE]
  <2>2. r \in Row /\ ~r.marked /\ r.token = row[u].token
    BY <2>1, RowUpdates
  <2>3. row' = [row EXCEPT ![u] = r]
    BY <1>1 DEF Revived
  <2> HIDE DEF r
  <2> QED
    BY <2>2, <2>3
<1>2. CASE row[u] = NoRow /\ nextUuid \in Path
           /\ row' = [row EXCEPT ![u] = [uuid |-> nextUuid, marked |-> FALSE, token |-> FALSE]]
  <2> DEFINE r == [uuid |-> nextUuid, marked |-> FALSE, token |-> FALSE]
  <2>1. r \in Row /\ ~r.marked
    BY <1>2 DEF Row
  <2> QED
    BY <1>2, <2>1
<1> QED
  BY <1>1, <1>2 DEF GetOrMake

\* A row that is written in place of another.
LEMMA RowWritten ==
    ASSUME TypeOK, NEW u \in Users, NEW r \in Row, row' = [row EXCEPT ![u] = r]
    PROVE  /\ row' \in [Users -> Row \cup {NoRow}]
           /\ row'[u] = r /\ r # NoRow
           /\ \A v \in Users : v # u => row'[v] = row[v]
<1>1. row \in [Users -> Row \cup {NoRow}]
  BY DEF TypeOK, Row
<1>2. r # NoRow
  BY RowUpdates
<1> QED
  BY <1>1, <1>2

\* A run that is under way is of one of the actions.
LEMMA RunTypes ==
    ASSUME TypeOK, run # NoRun
    PROVE  run \in RunOfAction
BY DEF TypeOK, RunOfAction

\* The actions that there are, and what tells them apart.
LEMMA ActionTypes ==
    ASSUME TypeOK, NEW p \in Path
    PROVE  \/ actions[p] = NoAction /\ actions[p].kind = "none" /\ actions[p].new_name = 0
           \/ actions[p] = Delete /\ actions[p].kind = "DeleteRealm" /\ actions[p].new_name = 0
           \/ /\ actions[p].kind = "BackUpThenDeleteRealm" /\ actions[p].new_name \in Name
              /\ actions[p] # NoAction /\ actions[p] # Delete
<1>1. actions[p] \in {NoAction, Delete} \cup {BackUp(n) : n \in Name}
  BY DEF TypeOK
<1>2. CASE actions[p] \in {NoAction, Delete}
  BY <1>2 DEF NoAction, Delete, Nothing
<1>3. CASE actions[p] \in {BackUp(n) : n \in Name}
  <2>1. PICK n \in Name : actions[p] = BackUp(n)
    BY <1>3
  <2> QED
    BY <2>1 DEF BackUp, NoAction, Delete
<1> QED
  BY <1>1, <1>2, <1>3

\* The bounds are numbers, and what has no name is none of the things that have.
LEMMA Bounds ==
    /\ MaxUuids \in Nat /\ MaxNames \in Nat /\ MaxFiles \in Nat /\ MaxCrashes \in Nat
    /\ Nothing \notin Path /\ Nothing \notin Name /\ Nothing \notin File
    /\ Partial \notin File /\ Partial # Nothing
    /\ NoRun.path = Nothing /\ NoRun.at = "idle" /\ NoRun.by = "nobody"
    /\ NoRun \notin RunOfAction
<1>1. MaxUuids \in Nat /\ MaxNames \in Nat /\ MaxFiles \in Nat /\ MaxCrashes \in Nat
  BY SyncMetadataAssumption
<1> QED
  BY <1>1 DEF Path, Name, File, Nothing, Partial, NoRun, RunOfAction

\* A function that is changed at one place.
LEMMA Updated ==
    ASSUME NEW D, NEW R, NEW f \in [D -> R], NEW d \in D, NEW e \in R
    PROVE  /\ [f EXCEPT ![d] = e] \in [D -> R]
           /\ [f EXCEPT ![d] = e][d] = e
           /\ \A x \in D : x # d => [f EXCEPT ![d] = e][x] = f[x]
OBVIOUS

\* A copy that is being made, or has been made.
LEMMA Copying ==
    ASSUME IInv, run.at \in {"copying", "copied"}
    PROVE  /\ run \in RunOfAction /\ run # NoRun /\ run.path \in Path
           /\ IsBackUp(run.path) /\ NewName \in Name /\ NewName = actions[run.path].new_name
           /\ file[run.path] \in File /\ run.path \notin open
           /\ run.by = "app" => phase = "running"
           /\ run.by = "configure" => phase = "actions"
           /\ run.at = "copied" => recovery[NewName] = file[run.path]
           /\ recovery[NewName] # Nothing
<1> USE Bounds
<1>1. run \in RunOfAction /\ run # NoRun /\ run.path \in Path
  BY RunTypes DEF IInv, RunOfAction
<1>2. /\ IsBackUp(run.path) /\ file[run.path] # Nothing /\ run.path \notin open
      /\ run.at = "copying" => recovery[NewName] = Partial
      /\ run.at = "copied" => recovery[NewName] = file[run.path]
  BY <1>1 DEF IInv, RunIsOnItsWay, IsBackUp
<1>3. file[run.path] \in File
  BY <1>1, <1>2 DEF IInv, TypeOK
<1>4. NewName \in Name
  BY <1>1, <1>2, ActionTypes DEF IInv, IsBackUp, NewName
<1>5. (run.by = "app" => phase = "running") /\ (run.by = "configure" => phase = "actions")
  BY DEF IInv, PhasesApart
<1> QED
  BY <1>1, <1>2, <1>3, <1>4, <1>5 DEF NewName

\* The recovery path of a copy is free, or taken by it, and is no other action's.
LEMMA NamesArePrivate ==
    ASSUME IInv, NEW p \in Path, NEW q \in Path, IsBackUp(p), IsBackUp(q),
           actions[p].new_name = actions[q].new_name
    PROVE  p = q
BY DEF IInv, NamesAreDistinct

-----------------------------------------------------------------------------
(***************************************************************************)
(* Each action keeps the invariant: the start, and the end of the process. *)
(***************************************************************************)

\* The work list of a start: what is pending when it begins.
LEMMA LaunchStep ==
    ASSUME IInv, Launch
    PROVE  IInv'
<1> USE DEF Launch, disk, memory, fresh, ghosts
<1>1. TypeOK'
  BY DEF IInv, TypeOK
<1>2. PhasesApart'
  BY DEF IInv, PhasesApart
<1>3. CopiesAreAccountedFor'
  BY DEF IInv, CopiesAreAccountedFor, IsBackUp
<1>4. StartProceeds'
  BY DEF IInv, StartProceeds, Settled
<1>5. WantsTypeOK' /\ StartSplitsUsers' /\ RowsFollowMembers' /\ FilesAreDistinct'
      /\ DeletionsAreAllowed' /\ RunIsOnItsWay' /\ NamesAreDistinct' /\ PromisedCopiesExist'
      /\ UsersOutliveTheProcess'
  BY DEF IInv, WantsTypeOK, StartSplitsUsers, RowsFollowMembers, FilesAreDistinct,
     DeletionsAreAllowed, RunIsOnItsWay, NamesAreDistinct, PromisedCopiesExist,
     UsersOutliveTheProcess, NewName, IsBackUp
<1> QED
  BY <1>1, <1>2, <1>3, <1>4, <1>5 DEF IInv

\* The actions that have been carried out are removed.
LEMMA RemoveCompletedStep ==
    ASSUME IInv, RemoveCompleted
    PROVE  IInv'
<1> USE DEF RemoveCompleted, disk, memory, fresh, ghosts
<1>1. TypeOK'
  BY DEF IInv, TypeOK
<1>2. PhasesApart'
  BY DEF IInv, PhasesApart
<1>3. DeletionsAreAllowed'
  BY DEF IInv, DeletionsAreAllowed, NoAction, Delete
<1>4. RunIsOnItsWay'
  BY DEF IInv, RunIsOnItsWay, TypeOK, PhasesApart
<1>5. NamesAreDistinct'
  BY DEF IInv, NamesAreDistinct, IsBackUp, NoAction
<1>6. CopiesAreAccountedFor'
  BY DEF IInv, CopiesAreAccountedFor, IsBackUp, NoAction
<1>7. StartProceeds'
  BY DEF IInv, StartProceeds, TypeOK, Settled
<1>8. WantsTypeOK' /\ StartSplitsUsers' /\ RowsFollowMembers' /\ FilesAreDistinct'
      /\ PromisedCopiesExist' /\ UsersOutliveTheProcess'
  BY DEF IInv, WantsTypeOK, StartSplitsUsers, RowsFollowMembers, FilesAreDistinct,
     PromisedCopiesExist, UsersOutliveTheProcess
<1> QED
  BY <1>1, <1>2, <1>3, <1>4, <1>5, <1>6, <1>7, <1>8 DEF IInv

\* A loop of configure is through when its work list is empty.
LEMMA NextPhaseStep ==
    ASSUME IInv, NextPhase
    PROVE  IInv'
<1> USE DEF NextPhase, disk, memory, fresh, ghosts
<1>1. TypeOK'
  BY DEF IInv, TypeOK
<1>2. PhasesApart'
  <2>1. CASE phase = "actions" /\ todo = {} /\ run = NoRun /\ phase' = "rows"
    BY <2>1 DEF IInv, PhasesApart, NoRun
  <2>2. CASE phase = "rows" /\ completed = {} /\ phase' = "users"
    BY <2>2 DEF IInv, PhasesApart
  <2>3. CASE phase = "directories" /\ doomed = {} /\ phase' = "user rows"
    BY <2>3 DEF IInv, PhasesApart
  <2>4. CASE phase = "user rows" /\ dead = {} /\ phase' = "insert"
    BY <2>4 DEF IInv, PhasesApart
  <2> QED
    BY <2>1, <2>2, <2>3, <2>4
<1>3. CopiesAreAccountedFor'
  BY DEF IInv, CopiesAreAccountedFor, IsBackUp
<1>4. StartProceeds'
  <2>1. CASE phase = "actions" /\ todo = {} /\ run = NoRun /\ phase' = "rows"
    BY <2>1 DEF IInv, StartProceeds, Settled, NoRun, Path, Nothing
  <2>2. CASE phase = "rows" /\ completed = {} /\ phase' = "users"
    BY <2>2 DEF IInv, StartProceeds, Settled
  <2>3. CASE phase = "directories" /\ doomed = {} /\ phase' = "user rows"
    BY <2>3 DEF IInv, StartProceeds, Settled
  <2>4. CASE phase = "user rows" /\ dead = {} /\ phase' = "insert"
    BY <2>4 DEF IInv, StartProceeds, Settled
  <2> QED
    BY <2>1, <2>2, <2>3, <2>4
<1>5. WantsTypeOK' /\ StartSplitsUsers' /\ RowsFollowMembers' /\ FilesAreDistinct'
      /\ DeletionsAreAllowed' /\ RunIsOnItsWay' /\ NamesAreDistinct' /\ PromisedCopiesExist'
      /\ UsersOutliveTheProcess'
  BY DEF IInv, WantsTypeOK, StartSplitsUsers, RowsFollowMembers, FilesAreDistinct,
     DeletionsAreAllowed, RunIsOnItsWay, NamesAreDistinct, PromisedCopiesExist,
     UsersOutliveTheProcess, NewName, IsBackUp
<1> QED
  BY <1>1, <1>2, <1>3, <1>4, <1>5 DEF IInv

\* A row is marked or not, so nobody is both added and removed.
LEMMA LoadUsersStep ==
    ASSUME IInv, LoadUsers
    PROVE  IInv'
<1> USE DEF LoadUsers, disk, memory, fresh, ghosts
<1>1. TypeOK'
  BY DEF IInv, TypeOK
<1>2. PhasesApart'
  BY DEF IInv, PhasesApart
<1>3. StartSplitsUsers'
  BY DEF IInv, StartSplitsUsers, NoRow
<1>4. CopiesAreAccountedFor'
  BY DEF IInv, CopiesAreAccountedFor, IsBackUp
<1>5. StartProceeds'
  BY DEF IInv, StartProceeds, Settled
<1>6. WantsTypeOK' /\ RowsFollowMembers' /\ FilesAreDistinct' /\ DeletionsAreAllowed'
      /\ RunIsOnItsWay' /\ NamesAreDistinct' /\ PromisedCopiesExist'
      /\ UsersOutliveTheProcess'
  BY DEF IInv, WantsTypeOK, RowsFollowMembers, FilesAreDistinct, DeletionsAreAllowed,
     RunIsOnItsWay, NamesAreDistinct, PromisedCopiesExist, UsersOutliveTheProcess, NewName,
     IsBackUp
<1> QED
  BY <1>1, <1>2, <1>3, <1>4, <1>5, <1>6 DEF IInv

\* A directory takes the file of its user with it; no session can promise it by then.
LEMMA RemoveDirectoryStep ==
    ASSUME IInv, NEW u \in Users, RemoveDirectory(u)
    PROVE  IInv'
<1> USE DEF RemoveDirectory, memory, fresh
<1>1. TypeOK'
  BY DEF IInv, TypeOK
<1>2. PhasesApart'
  BY DEF IInv, PhasesApart
<1>3. StartSplitsUsers'
  BY DEF IInv, StartSplitsUsers
<1>4. FilesAreDistinct'
  BY DEF IInv, FilesAreDistinct, TypeOK, PhasesApart, Nothing
<1>5. DeletionsAreAllowed'
  BY DEF IInv, DeletionsAreAllowed, TypeOK, FilesAreDistinct, Nothing
<1>6. RunIsOnItsWay'
  BY DEF IInv, RunIsOnItsWay, TypeOK, PhasesApart
<1>7. CopiesAreAccountedFor'
  BY DEF IInv, CopiesAreAccountedFor, TypeOK, IsBackUp
<1>8. PromisedCopiesExist'
  BY DEF IInv, PromisedCopiesExist, TypeOK
<1>9. WantsTypeOK' /\ RowsFollowMembers' /\ NamesAreDistinct' /\ StartProceeds'
      /\ UsersOutliveTheProcess'
  BY DEF IInv, WantsTypeOK, RowsFollowMembers, NamesAreDistinct, StartProceeds,
     UsersOutliveTheProcess, IsBackUp, Settled
<1> QED
  BY <1>1, <1>2, <1>3, <1>4, <1>5, <1>6, <1>7, <1>8, <1>9 DEF IInv

\* Only rows that are marked are removed.
LEMMA RemoveDeadStep ==
    ASSUME IInv, RemoveDead
    PROVE  IInv'
<1> USE DEF RemoveDead, disk, memory, fresh, ghosts
<1>1. TypeOK'
  BY DEF IInv, TypeOK
<1>2. PhasesApart'
  BY DEF IInv, PhasesApart
<1>3. StartSplitsUsers'
  BY DEF IInv, StartSplitsUsers, TypeOK, PhasesApart
<1>4. RowsFollowMembers'
  BY DEF IInv, RowsFollowMembers, PhasesApart
<1>5. UsersOutliveTheProcess'
  BY DEF IInv, UsersOutliveTheProcess, TypeOK, StartSplitsUsers
<1>6. WantsTypeOK' /\ FilesAreDistinct' /\ DeletionsAreAllowed' /\ RunIsOnItsWay'
      /\ NamesAreDistinct' /\ CopiesAreAccountedFor' /\ StartProceeds'
      /\ PromisedCopiesExist'
  BY DEF IInv, WantsTypeOK, FilesAreDistinct, DeletionsAreAllowed, RunIsOnItsWay,
     NamesAreDistinct, CopiesAreAccountedFor, StartProceeds, PromisedCopiesExist, NewName,
     IsBackUp, Settled
<1> QED
  BY <1>1, <1>2, <1>3, <1>4, <1>5, <1>6 DEF IInv

\* Users are added whose rows are there.
LEMMA InsertUsersStep ==
    ASSUME IInv, InsertUsers
    PROVE  IInv'
<1> USE DEF InsertUsers, disk, fresh, ghosts
<1>1. TypeOK'
  BY DEF IInv, TypeOK
<1>2. PhasesApart'
  BY DEF IInv, PhasesApart
<1>3. StartSplitsUsers'
  BY DEF IInv, StartSplitsUsers
<1>4. RowsFollowMembers'
  BY DEF IInv, RowsFollowMembers, StartSplitsUsers, PhasesApart
<1>5. CopiesAreAccountedFor'
  BY DEF IInv, CopiesAreAccountedFor, StartProceeds, IsBackUp, NoAction, Settled
<1>6. StartProceeds'
  BY DEF IInv, StartProceeds
<1>7. WantsTypeOK' /\ FilesAreDistinct' /\ DeletionsAreAllowed' /\ RunIsOnItsWay'
      /\ NamesAreDistinct' /\ PromisedCopiesExist' /\ UsersOutliveTheProcess'
  BY DEF IInv, WantsTypeOK, FilesAreDistinct, DeletionsAreAllowed, RunIsOnItsWay,
     NamesAreDistinct, PromisedCopiesExist, UsersOutliveTheProcess, NewName, IsBackUp
<1> QED
  BY <1>1, <1>2, <1>3, <1>4, <1>5, <1>6, <1>7 DEF IInv

\* The process ends.
LEMMA CrashStep ==
    ASSUME IInv, Crash
    PROVE  IInv'
<1> USE Bounds
<1>1. /\ phase' = "off" /\ run' = NoRun
      /\ todo' = {} /\ completed' = {} /\ loaded' = {} /\ doomed' = {} /\ dead' = {}
      /\ logging' = {} /\ adminDue' = {} /\ open' = {} /\ live' = {}
      /\ \A u \in Users : member'[u] = "absent"
      /\ member' \in [Users -> {"absent", "Active", "LoggedOut"}]
  BY DEF Crash
<1>2. /\ interrupted \subseteq interrupted'
      /\ run.at \in {"copying", "copied"} => actions[run.path].new_name \in interrupted'
      /\ crashes < MaxCrashes /\ crashes' = crashes + 1
  BY DEF Crash, NewName
<1>3. UNCHANGED <<actions, row, file, recovery, nextUuid, nextName, nextFile, promised,
                  overwritten, abandoned, wants, adminRevived>>
  BY DEF Crash, disk, fresh
<1>4. TypeOK'
  <2>1. logging' \subseteq Users /\ Cardinality(logging') <= 1
    BY <1>1, FS_EmptySet
  <2>2. crashes' \in 0..MaxCrashes
    <3>1. crashes \in 0..MaxCrashes
      BY DEF IInv, TypeOK
    <3> QED
      BY <1>2, <3>1
  <2> QED
    BY <1>1, <1>3, <2>1, <2>2 DEF IInv, TypeOK
<1>5. PhasesApart' /\ StartSplitsUsers' /\ RunIsOnItsWay' /\ StartProceeds'
  BY <1>1 DEF PhasesApart, StartSplitsUsers, RunIsOnItsWay, StartProceeds
<1>6. RowsFollowMembers' /\ FilesAreDistinct'
  BY <1>1, <1>3 DEF IInv, RowsFollowMembers, FilesAreDistinct
<1>7. CopiesAreAccountedFor'
  <2> SUFFICES ASSUME NEW p \in Path, IsBackUp(p), recovery[actions[p].new_name] # Nothing
               PROVE  \/ actions[p].new_name \in interrupted'
                      \/ file[p] = Nothing
    BY <1>1, <1>3 DEF CopiesAreAccountedFor, IsBackUp
  <2>1. CASE run.path = p
    <3>1. run \in RunOfAction /\ run # NoRun
      BY <2>1, RunTypes DEF IInv
    <3> QED
      BY <2>1, <3>1, <1>2 DEF IInv, RunIsOnItsWay, RunOfAction
  <2> QED
    BY <2>1, <1>2 DEF IInv, CopiesAreAccountedFor
<1>8. /\ WantsTypeOK' /\ DeletionsAreAllowed' /\ NamesAreDistinct' /\ PromisedCopiesExist'
      /\ UsersOutliveTheProcess'
  BY <1>3 DEF IInv, WantsTypeOK, DeletionsAreAllowed, NamesAreDistinct, IsBackUp,
              PromisedCopiesExist, UsersOutliveTheProcess
<1> QED
  BY <1>4, <1>5, <1>6, <1>7, <1>8 DEF IInv

-----------------------------------------------------------------------------
(***************************************************************************)
(* run_file_action and its callers.                                        *)
(***************************************************************************)

\* run_file_action returns TRUE: the file is gone, and what was promised of it is in
\* the recovery directory, or a permission error has taken the promise back.
LEMMA ReturnsTrueStep ==
    ASSUME IInv, NEW by \in {"configure", "app"}, NEW p \in Path,
           by = "configure" => phase = "actions", by = "app" => phase = "running",
           run = NoRun \/ run.path = p,
           actions[p] # NoAction, p \notin open,
           file[p] \in promised => \/ file[p] \in overwritten
                                   \/ \E n \in Name : recovery[n] = file[p],
           file' = [file EXCEPT ![p] = Nothing],
           ReturnsTrue(by, p),
           UNCHANGED <<row, recovery, phase, loaded, doomed, dead, member, logging, adminDue,
                       open, live, nextUuid, nextName, nextFile, crashes, promised,
                       overwritten, abandoned, interrupted, wants, adminRevived>>
    PROVE  IInv'
<1> USE Bounds
<1>1. /\ file' \in [Path -> File \cup {Nothing}] /\ file'[p] = Nothing
      /\ \A q \in Path : q # p => file'[q] = file[q]
  <2>1. file \in [Path -> File \cup {Nothing}]
    BY DEF IInv, TypeOK
  <2> QED
    BY <2>1, Updated
<1>2. /\ actions' = actions
      /\ \/ /\ by = "configure" /\ phase = "actions" /\ run' = NoRun
            /\ todo' = todo \ {p} /\ completed' = completed \cup {p}
         \/ /\ by = "app" /\ phase = "running" /\ run' \in RunOfAction
            /\ run'.by = "app" /\ run'.path = p /\ run'.at = "done"
            /\ todo' = todo /\ completed' = completed
  BY DEF ReturnsTrue, KeptForNow, RunOfAction
<1>3. /\ \A f \in promised : f # Nothing
      /\ Nothing < nextFile
  <2>1. nextFile \in 1..MaxFiles + 1 /\ promised \subseteq 1..nextFile - 1
    BY DEF IInv, TypeOK, FilesAreDistinct
  <2> QED
    BY <2>1 DEF Nothing
<1>4. TypeOK'
  <2>1. run' \in {NoRun} \cup [by : {"configure", "app"}, path : Path,
                               at : {"copying", "copied", "done"}]
    BY <1>2 DEF RunOfAction
  <2>2. /\ todo' \cup completed' \subseteq Path
        /\ \A q \in completed' : actions'[q] # NoAction
    BY <1>2 DEF IInv, TypeOK
  <2> QED
    BY <1>1, <1>2, <2>1, <2>2 DEF IInv, TypeOK
<1>5. PhasesApart'
  BY <1>2 DEF IInv, PhasesApart
<1>6. FilesAreDistinct'
  <2>1. p \notin live
    BY DEF IInv, TypeOK
  <2>2. \A q \in Path : file'[q] < nextFile
    BY <1>1, <1>3 DEF IInv, FilesAreDistinct
  <2>3. \A q, s \in Path : file'[q] = file'[s] => q = s \/ file'[q] = Nothing
    BY <1>1 DEF IInv, FilesAreDistinct
  <2>4. \A q \in live : q \in Path /\ q # p /\ file[q] # Nothing
    BY <2>1 DEF IInv, TypeOK, FilesAreDistinct
  <2>5. promised \subseteq 1..nextFile - 1
    BY DEF IInv, FilesAreDistinct
  <2> QED
    BY <1>1, <2>2, <2>3, <2>4, <2>5 DEF FilesAreDistinct
<1>7. DeletionsAreAllowed'
  BY <1>1, <1>2, <1>3 DEF IInv, DeletionsAreAllowed
<1>8. RunIsOnItsWay'
  BY <1>1, <1>2 DEF RunIsOnItsWay
<1>9. CopiesAreAccountedFor'
  <2> SUFFICES ASSUME NEW q \in Path, IsBackUp(q), recovery[actions[q].new_name] # Nothing
               PROVE  \/ actions[q].new_name \in interrupted
                      \/ run'.path = q
                      \/ file'[q] = Nothing /\ phase # "running"
    BY <1>2 DEF CopiesAreAccountedFor, IsBackUp
  <2>1. CASE q = p
    BY <1>1, <1>2, <2>1
  <2>2. CASE q # p
    <3>1. run.path # q
      BY <2>2
    <3> QED
      BY <1>1, <2>2, <3>1 DEF IInv, CopiesAreAccountedFor
  <2> QED
    BY <2>1, <2>2
<1>10. StartProceeds'
  <2>1. CASE phase = "actions"
    <3> SUFFICES ASSUME NEW q \in Path
                 PROVE  q \in todo' \cup completed' \/ Settled(q)
      BY <1>2, <2>1 DEF StartProceeds, Settled
    <3>1. CASE q = p
      BY <1>2, <2>1, <3>1
    <3>2. CASE q # p
      <4>1. run.path # q
        BY <3>2
      <4> QED
        BY <1>2, <2>1, <3>2, <4>1 DEF IInv, StartProceeds
    <3> QED
      BY <3>1, <3>2
  <2>2. CASE phase = "running"
    BY <2>2 DEF StartProceeds
  <2> QED
    BY <1>2, <2>1, <2>2
<1>11. PromisedCopiesExist'
  <2> SUFFICES ASSUME NEW f \in promised \ (overwritten \cup abandoned)
               PROVE  \/ \E q \in Path : file'[q] = f
                      \/ \E n \in Name : recovery[n] = f
    BY DEF PromisedCopiesExist
  <2>1. CASE f = file[p]
    BY <2>1
  <2>2. CASE f # file[p]
    BY <1>1, <2>2 DEF IInv, PromisedCopiesExist
  <2> QED
    BY <2>1, <2>2
<1>12. /\ WantsTypeOK' /\ StartSplitsUsers' /\ RowsFollowMembers' /\ NamesAreDistinct'
       /\ UsersOutliveTheProcess'
  BY <1>2 DEF IInv, WantsTypeOK, StartSplitsUsers, RowsFollowMembers, NamesAreDistinct,
              IsBackUp, UsersOutliveTheProcess
<1> QED
  BY <1>4, <1>5, <1>6, <1>7, <1>8, <1>9, <1>10, <1>11, <1>12 DEF IInv

\* run_file_action deletes, finds nothing to do, is refused, or starts a copy.
LEMMA RunFileActionStep ==
    ASSUME IInv, NEW by \in {"configure", "app"}, NEW p \in Path, RunFileAction(by, p),
           by = "configure" => phase = "actions" /\ p \in todo,
           by = "app" => phase = "running" /\ p \notin open,
           actions[p] # NoAction
    PROVE  IInv'
<1> USE Bounds
<1>1. /\ run = NoRun /\ p \notin open
      /\ by = "configure" => phase = "actions"
      /\ by = "app" => phase = "running"
  BY DEF RunFileAction, IInv, PhasesApart
<1>2. UNCHANGED <<row, phase, loaded, doomed, dead, member, logging, adminDue, open, live,
                  nextUuid, nextName, nextFile, crashes, promised, overwritten, abandoned,
                  wants, adminRevived>>
  BY DEF RunFileAction, memory, fresh
<1>3. CASE /\ actions[p].kind = "DeleteRealm"
           /\ file' = [file EXCEPT ![p] = Nothing] /\ ReturnsTrue(by, p)
           /\ UNCHANGED <<recovery, interrupted>>
  <2>1. file[p] \in promised => file[p] \in overwritten
    BY <1>3, ActionTypes DEF IInv, DeletionsAreAllowed
  <2> QED
    BY <1>1, <1>2, <1>3, <2>1, ReturnsTrueStep
<1>4. CASE /\ file[p] = Nothing /\ ReturnsTrue(by, p)
           /\ UNCHANGED <<file, recovery, interrupted>>
  <2>1. file[p] \notin promised
    BY <1>4 DEF IInv, FilesAreDistinct, Nothing
  <2>2. file' = [file EXCEPT ![p] = Nothing]
    BY <1>4 DEF IInv, TypeOK
  <2> QED
    BY <1>1, <1>2, <1>4, <2>1, <2>2, ReturnsTrueStep
<1>5. CASE /\ IsBackUp(p) /\ file[p] # Nothing /\ recovery[actions[p].new_name] # Nothing
           /\ ReturnsFalse(by, p)
           /\ UNCHANGED <<file, recovery, interrupted>>
  <2>1. Settled(p)
    BY <1>1, <1>5 DEF IInv, CopiesAreAccountedFor, Settled
  <2>2. /\ run' = NoRun /\ UNCHANGED <<actions, completed>>
        /\ by = "configure" => todo' = todo \ {p}
        /\ by = "app" => todo' = todo
    BY <1>5 DEF ReturnsFalse
  <2>3. TypeOK' /\ PhasesApart'
    BY <1>1, <1>2, <1>5, <2>2 DEF IInv, TypeOK, PhasesApart
  <2>4. StartProceeds'
    BY <1>1, <1>2, <1>5, <2>1, <2>2 DEF IInv, StartProceeds, Settled
  <2>5. /\ RunIsOnItsWay' /\ FilesAreDistinct' /\ DeletionsAreAllowed' /\ NamesAreDistinct'
        /\ CopiesAreAccountedFor' /\ PromisedCopiesExist'
    BY <1>1, <1>2, <1>5, <2>2 DEF IInv, RunIsOnItsWay, FilesAreDistinct,
       DeletionsAreAllowed, NamesAreDistinct, CopiesAreAccountedFor, PromisedCopiesExist,
       IsBackUp
  <2>6. WantsTypeOK' /\ StartSplitsUsers' /\ RowsFollowMembers' /\ UsersOutliveTheProcess'
    BY <1>2 DEF IInv, WantsTypeOK, StartSplitsUsers, RowsFollowMembers,
                UsersOutliveTheProcess
  <2> QED
    BY <2>3, <2>4, <2>5, <2>6 DEF IInv
<1>6. CASE /\ IsBackUp(p) /\ file[p] # Nothing /\ recovery[actions[p].new_name] = Nothing
           /\ recovery' = [recovery EXCEPT ![actions[p].new_name] = Partial]
           /\ run' = [by |-> by, path |-> p, at |-> "copying"]
           /\ UNCHANGED <<file, actions, todo, completed, interrupted>>
  <2> DEFINE name == actions[p].new_name
  <2>1. name \in Name
    BY <1>6, ActionTypes DEF IInv, IsBackUp
  <2>2. /\ recovery' \in [Name -> File \cup {Nothing, Partial}] /\ recovery'[name] = Partial
        /\ \A n \in Name : n # name => recovery'[n] = recovery[n]
    <3>1. recovery \in [Name -> File \cup {Nothing, Partial}]
      BY DEF IInv, TypeOK
    <3> QED
      BY <1>6, <2>1, <3>1, Updated
  <2>3. /\ run' \in RunOfAction /\ run'.by = by /\ run'.path = p /\ run'.at = "copying"
        /\ NewName' = name
    BY <1>6 DEF RunOfAction, NewName
  <2>4. TypeOK'
    <3>1. run' \in {NoRun} \cup [by : {"configure", "app"}, path : Path,
                                 at : {"copying", "copied", "done"}]
      BY <2>3 DEF RunOfAction
    <3> QED
      BY <1>2, <1>6, <2>2, <3>1 DEF IInv, TypeOK
  <2>5. PhasesApart'
    BY <1>1, <1>2, <1>6, <2>3 DEF IInv, PhasesApart
  <2>6. RunIsOnItsWay'
    BY <1>1, <1>2, <1>6, <2>2, <2>3 DEF RunIsOnItsWay, IsBackUp
  <2>7. NamesAreDistinct'
    BY <1>2, <1>6, <2>1, <2>2 DEF IInv, NamesAreDistinct, IsBackUp
  <2>8. CopiesAreAccountedFor'
    <3> SUFFICES ASSUME NEW q \in Path, q # p, IsBackUp(q),
                        recovery'[actions[q].new_name] # Nothing
                 PROVE  \/ actions[q].new_name \in interrupted
                        \/ file[q] = Nothing /\ phase # "running"
      BY <1>2, <1>6, <2>3 DEF CopiesAreAccountedFor, IsBackUp
    <3>1. actions[q].new_name \in Name /\ actions[q].new_name # name
      BY <1>6, ActionTypes, NamesArePrivate DEF IInv, IsBackUp
    <3> QED
      BY <1>1, <2>2, <3>1 DEF IInv, CopiesAreAccountedFor
  <2>9. StartProceeds'
    BY <1>1, <1>2, <1>6, <2>3 DEF IInv, StartProceeds, Settled
  <2>10. PromisedCopiesExist'
    BY <1>2, <1>6, <2>2 DEF IInv, PromisedCopiesExist, FilesAreDistinct, Nothing
  <2>11. /\ WantsTypeOK' /\ StartSplitsUsers' /\ RowsFollowMembers' /\ FilesAreDistinct'
         /\ DeletionsAreAllowed' /\ UsersOutliveTheProcess'
    BY <1>2, <1>6 DEF IInv, WantsTypeOK, StartSplitsUsers, RowsFollowMembers,
                FilesAreDistinct, DeletionsAreAllowed, UsersOutliveTheProcess
  <2> QED
    BY <2>4, <2>5, <2>6, <2>7, <2>8, <2>9, <2>10, <2>11 DEF IInv
<1> QED
  BY <1>1, <1>2, <1>3, <1>4, <1>5, <1>6
     DEF RunFileAction, MissingIsDone, IsBackUp, disk

\* The copy is complete.
LEMMA CopyEndsStep ==
    ASSUME IInv, CopyEnds
    PROVE  IInv'
<1> USE Bounds
<1> DEFINE p == run.path
<1>1. /\ p \in Path /\ IsBackUp(p) /\ NewName \in Name /\ NewName = actions[p].new_name
      /\ file[p] \in File /\ run \in RunOfAction /\ run.at = "copying"
      /\ recovery[NewName] # Nothing
  BY Copying DEF CopyEnds, Running
<1>2. UNCHANGED <<actions, row, file, phase, todo, completed, loaded, doomed, dead, member,
                  logging, adminDue, open, live, nextUuid, nextName, nextFile, crashes,
                  promised, overwritten, abandoned, interrupted, wants, adminRevived>>
  BY DEF CopyEnds, start, memory, fresh, ghosts
<1>3. /\ run' \in RunOfAction /\ run' # NoRun
      /\ run'.path = p /\ run'.by = run.by /\ run'.at = "copied"
  BY <1>1 DEF CopyEnds, RunOfAction
<1>4. /\ recovery' \in [Name -> File \cup {Nothing, Partial}]
      /\ recovery'[NewName] = file[p]
      /\ \A n \in Name : n # NewName => recovery'[n] = recovery[n]
  <2>1. recovery \in [Name -> File \cup {Nothing, Partial}]
    BY DEF IInv, TypeOK
  <2>2. recovery' = [recovery EXCEPT ![NewName] = file[p]]
    BY DEF CopyEnds
  <2> QED
    BY <1>1, <2>1, <2>2, Updated
<1>5. recovery[NewName] = Partial
  BY <1>1 DEF IInv, RunIsOnItsWay
<1> HIDE DEF p
<1>6. TypeOK'
  <2>1. run' \in {NoRun} \cup [by : {"configure", "app"}, path : Path,
                               at : {"copying", "copied", "done"}]
    BY <1>3 DEF RunOfAction
  <2> QED
    BY <1>2, <1>4, <2>1 DEF IInv, TypeOK
<1>7. PhasesApart'
  BY <1>2, <1>3 DEF IInv, PhasesApart
<1>8. RunIsOnItsWay'
  <2>1. p \notin open /\ NewName' = NewName
    BY <1>1, <1>2, <1>3 DEF IInv, RunIsOnItsWay, NewName, p
  <2> QED
    BY <1>1, <1>2, <1>3, <1>4, <2>1 DEF RunIsOnItsWay, IsBackUp
<1>9. NamesAreDistinct'
  BY <1>1, <1>2, <1>4 DEF IInv, NamesAreDistinct, IsBackUp
<1>10. CopiesAreAccountedFor'
  <2> SUFFICES ASSUME NEW q \in Path, IsBackUp(q), recovery'[actions[q].new_name] # Nothing
               PROVE  \/ actions[q].new_name \in interrupted
                      \/ p = q
                      \/ file[q] = Nothing /\ phase # "running"
    BY <1>2, <1>3 DEF CopiesAreAccountedFor, IsBackUp
  <2>1. CASE actions[q].new_name = NewName
    BY <1>1, <2>1, NamesArePrivate
  <2>2. CASE actions[q].new_name # NewName
    <3>1. actions[q].new_name \in Name
      BY ActionTypes DEF IInv, IsBackUp
    <3> QED
      BY <1>4, <2>2, <3>1 DEF IInv, CopiesAreAccountedFor, p
  <2> QED
    BY <2>1, <2>2
<1>11. StartProceeds'
  BY <1>2, <1>3 DEF IInv, StartProceeds, Settled, p
<1>12. PromisedCopiesExist'
  <2> SUFFICES ASSUME NEW f \in promised \ (overwritten \cup abandoned)
               PROVE  \/ \E q \in Path : file[q] = f
                      \/ \E n \in Name : recovery'[n] = f
    BY <1>2 DEF PromisedCopiesExist
  <2>1. CASE \E q \in Path : file[q] = f
    BY <2>1
  <2>2. CASE \E n \in Name : recovery[n] = f
    <3>1. PICK n \in Name : recovery[n] = f
      BY <2>2
    <3>2. f # Partial
      <4>1. nextFile \in 1..MaxFiles + 1 /\ promised \subseteq 1..nextFile - 1
        BY DEF IInv, TypeOK, FilesAreDistinct
      <4> QED
        BY <4>1 DEF Partial
    <3> QED
      BY <1>4, <1>5, <3>1, <3>2
  <2> QED
    BY <2>1, <2>2 DEF IInv, PromisedCopiesExist
<1>13. /\ WantsTypeOK' /\ StartSplitsUsers' /\ RowsFollowMembers' /\ FilesAreDistinct'
       /\ DeletionsAreAllowed' /\ UsersOutliveTheProcess'
  BY <1>2 DEF IInv, WantsTypeOK, StartSplitsUsers, RowsFollowMembers, FilesAreDistinct,
              DeletionsAreAllowed, UsersOutliveTheProcess
<1> QED
  BY <1>6, <1>7, <1>8, <1>9, <1>10, <1>11, <1>12, <1>13 DEF IInv

\* A copy fails: its recovery path stays taken, and the action is settled.
LEMMA CopyFailsStep ==
    ASSUME IInv, CopyFails
    PROVE  IInv'
<1> USE DEF CopyFails, Running, NewName, FailedCopyKeeps, ReturnsFalse, disk, memory, fresh
<1>0. run \in RunOfAction /\ run # NoRun
  BY RunTypes DEF IInv, NoRun
<1>1. TypeOK'
  BY DEF IInv, TypeOK
<1>2. PhasesApart'
  BY DEF IInv, PhasesApart, NoRun
<1>3. RunIsOnItsWay'
  BY DEF IInv, RunIsOnItsWay
<1>4. CopiesAreAccountedFor'
  BY DEF IInv, CopiesAreAccountedFor, IsBackUp
<1>5. StartProceeds'
  BY DEF IInv, StartProceeds, Settled
<1>6. WantsTypeOK' /\ StartSplitsUsers' /\ RowsFollowMembers' /\ FilesAreDistinct'
      /\ DeletionsAreAllowed' /\ NamesAreDistinct' /\ PromisedCopiesExist'
      /\ UsersOutliveTheProcess'
  BY DEF IInv, WantsTypeOK, StartSplitsUsers, RowsFollowMembers, FilesAreDistinct,
     DeletionsAreAllowed, NamesAreDistinct, PromisedCopiesExist, UsersOutliveTheProcess,
     IsBackUp
<1> QED
  BY <1>1, <1>2, <1>3, <1>4, <1>5, <1>6 DEF IInv

\* The original is removed when its copy is complete.
LEMMA RemoveOriginalStep ==
    ASSUME IInv, RemoveOriginal
    PROVE  IInv'
<1>1. /\ run.by \in {"configure", "app"} /\ run.path \in Path /\ run.path \notin open
      /\ run.by = "configure" => phase = "actions"
      /\ run.by = "app" => phase = "running"
      /\ IsBackUp(run.path)
      /\ \E n \in Name : recovery[n] = file[run.path]
  BY Copying DEF RemoveOriginal, Running, RunOfAction
<1>2. actions[run.path] # NoAction
  BY <1>1 DEF IsBackUp, NoAction
<1>3. /\ file' = [file EXCEPT ![run.path] = Nothing] /\ ReturnsTrue(run.by, run.path)
      /\ UNCHANGED <<row, recovery, phase, loaded, doomed, dead, member, logging, adminDue,
                     open, live, nextUuid, nextName, nextFile, crashes, promised,
                     overwritten, abandoned, interrupted, wants, adminRevived>>
  BY DEF RemoveOriginal, memory, fresh, ghosts
<1> QED
  BY <1>1, <1>2, <1>3, ReturnsTrueStep

\* The metadata of a handled action is removed.
LEMMA RemoveHandledStep ==
    ASSUME IInv, RemoveHandled
    PROVE  IInv'
<1> USE Bounds
<1> DEFINE p == run.path
<1>1. /\ run \in RunOfAction /\ run # NoRun /\ p \in Path
      /\ run.by = "app" /\ phase = "running" /\ completed = {}
  <2>1. run # NoRun /\ run.at = "done"
    BY DEF RemoveHandled, Running
  <2> QED
    BY <2>1, RunTypes DEF IInv, RunOfAction, RunIsOnItsWay, PhasesApart
<1>2. /\ run' = NoRun
      /\ UNCHANGED <<row, file, recovery, phase, todo, completed, loaded, doomed, dead,
                     member, logging, adminDue, open, live, nextUuid, nextName, nextFile,
                     crashes, promised, overwritten, abandoned, interrupted, wants,
                     adminRevived>>
  BY DEF RemoveHandled, disk, start, memory, fresh, ghosts
<1>3. /\ actions' \in [Path -> {NoAction, Delete} \cup {BackUp(n) : n \in Name}]
      /\ actions'[p] = NoAction
      /\ \A q \in Path : q # p => actions'[q] = actions[q]
  <2>1. actions \in [Path -> {NoAction, Delete} \cup {BackUp(n) : n \in Name}]
    BY DEF IInv, TypeOK
  <2>2. NoAction \in {NoAction, Delete} \cup {BackUp(n) : n \in Name}
    OBVIOUS
  <2>3. actions' = [actions EXCEPT ![p] = NoAction]
    BY DEF RemoveHandled
  <2> QED
    BY <1>1, <2>1, <2>2, <2>3, Updated
<1>4. NoAction.kind = "none" /\ NoAction # Delete
  BY DEF NoAction, Delete
<1>5. \A q \in Path : IsBackUp(q)' => q # p /\ IsBackUp(q) /\ actions'[q] = actions[q]
  BY <1>3, <1>4 DEF IsBackUp
<1> HIDE DEF p
<1>6. TypeOK'
  BY <1>1, <1>2, <1>3 DEF IInv, TypeOK
<1>7. PhasesApart' /\ StartProceeds'
  BY <1>1, <1>2 DEF IInv, PhasesApart, StartProceeds
<1>8. DeletionsAreAllowed'
  BY <1>2, <1>3, <1>4 DEF IInv, DeletionsAreAllowed
<1>9. RunIsOnItsWay'
  BY <1>2 DEF RunIsOnItsWay
<1>10. NamesAreDistinct'
  <2>1. /\ \A q \in Path : IsBackUp(q)' => actions'[q].new_name < nextName'
        /\ \A n \in Name : recovery'[n] # Nothing => n < nextName'
    BY <1>2, <1>5 DEF IInv, NamesAreDistinct
  <2>2. \A q, s \in Path : IsBackUp(q)' /\ IsBackUp(s)'
           /\ actions'[q].new_name = actions'[s].new_name => q = s
    BY <1>5 DEF IInv, NamesAreDistinct
  <2> QED
    BY <2>1, <2>2 DEF NamesAreDistinct, IsBackUp
<1>11. CopiesAreAccountedFor'
  <2> SUFFICES ASSUME NEW q \in Path, IsBackUp(q)', recovery[actions'[q].new_name] # Nothing
               PROVE  actions'[q].new_name \in interrupted
    BY <1>2 DEF CopiesAreAccountedFor
  <2> QED
    BY <1>1, <1>5 DEF IInv, CopiesAreAccountedFor, p
<1>12. /\ WantsTypeOK' /\ StartSplitsUsers' /\ RowsFollowMembers' /\ FilesAreDistinct'
       /\ PromisedCopiesExist' /\ UsersOutliveTheProcess'
  BY <1>2 DEF IInv, WantsTypeOK, StartSplitsUsers, RowsFollowMembers, FilesAreDistinct,
              PromisedCopiesExist, UsersOutliveTheProcess
<1> QED
  BY <1>6, <1>7, <1>8, <1>9, <1>10, <1>11, <1>12 DEF IInv

-----------------------------------------------------------------------------
(***************************************************************************)
(* The users and the Realms of the running application.                    *)
(***************************************************************************)

\* A user logs in: the row is there, and no longer marked.
LEMMA LogInStep ==
    ASSUME IInv, NEW u \in Users, LogIn(u)
    PROVE  IInv'
<1> USE DEF LogIn, InApp, disk, start
<1>a. PICK r \in Row : /\ row' = [row EXCEPT ![u] = r]
                       /\ ~r.marked
                       /\ row[u] # NoRow => r.token = row[u].token
  BY GetOrMakeGives DEF IInv
<1>0. /\ row' \in [Users -> Row \cup {NoRow}]
      /\ row'[u] = r /\ r # NoRow
      /\ \A v \in Users : v # u => row'[v] = row[v]
  BY <1>a, RowWritten DEF IInv
<1>1. TypeOK'
  <2>1. row' \in [Users -> [uuid : Path, marked : BOOLEAN, token : BOOLEAN] \cup {NoRow}]
    BY <1>0 DEF Row
  <2>2. logging' = {u} /\ Cardinality({u}) = 1
    BY FS_Singleton
  <2>3. nextUuid' \in 1..MaxUuids + 1
    BY DEF IInv, TypeOK, GetOrMake, Path
  <2> QED
    BY <2>1, <2>2, <2>3 DEF IInv, TypeOK
<1>2. WantsTypeOK'
  BY DEF IInv, WantsTypeOK
<1>3. PhasesApart'
  BY DEF IInv, PhasesApart
<1>4. StartSplitsUsers'
  BY DEF IInv, StartSplitsUsers, PhasesApart
<1>5. RowsFollowMembers'
  BY <1>0, <1>a DEF IInv, RowsFollowMembers, WantsTypeOK
<1>6. UsersOutliveTheProcess'
  BY <1>a DEF IInv, UsersOutliveTheProcess, WantsTypeOK
<1>7. FilesAreDistinct' /\ DeletionsAreAllowed' /\ RunIsOnItsWay' /\ NamesAreDistinct'
      /\ CopiesAreAccountedFor' /\ StartProceeds' /\ PromisedCopiesExist'
  BY DEF IInv, FilesAreDistinct, DeletionsAreAllowed, RunIsOnItsWay, NamesAreDistinct,
     CopiesAreAccountedFor, StartProceeds, PromisedCopiesExist, NewName, IsBackUp
<1> QED
  BY <1>1, <1>2, <1>3, <1>4, <1>5, <1>6, <1>7 DEF IInv

\* The token of a user who logs in is written, and with it the log-in is complete.
LEMMA SetUserTokenStep ==
    ASSUME IInv, NEW u \in Users, SetUserToken(u)
    PROVE  IInv'
<1> DEFINE r == [row[u] EXCEPT !.token = TRUE]
<1>1. /\ u \in logging /\ logging' = {} /\ adminDue' = adminDue \cup {u}
      /\ adminRevived' = adminRevived \ {u}
  BY DEF SetUserToken
<1>2. UNCHANGED <<actions, file, recovery, run, phase, todo, completed, loaded, doomed, dead,
                  open, live, nextUuid, nextName, nextFile, crashes, promised, overwritten,
                  abandoned, interrupted>>
  BY DEF SetUserToken, disk, start, fresh
<1>3. row[u] \in Row /\ ~row[u].marked
  BY <1>1 DEF IInv, TypeOK, RowsFollowMembers, Row
<1>4. r \in Row /\ r # NoRow /\ r.token /\ ~r.marked
  BY <1>3, RowUpdates
<1>5. row' = [row EXCEPT ![u] = r]
  BY DEF SetUserToken
<1> HIDE DEF r
<1>6. /\ row' \in [Users -> Row \cup {NoRow}] /\ row'[u] = r
      /\ \A v \in Users : v # u => row'[v] = row[v]
  BY <1>4, <1>5, RowWritten DEF IInv
<1>7. /\ member' \in [Users -> {"absent", "Active", "LoggedOut"}] /\ member'[u] = "Active"
      /\ \A v \in Users : v # u => member'[v] = member[v]
  <2>1. /\ member \in [Users -> {"absent", "Active", "LoggedOut"}]
        /\ member' = [member EXCEPT ![u] = "Active"]
    BY DEF IInv, TypeOK, SetUserToken
  <2> QED
    BY <2>1, Updated
<1>8. /\ wants' \in [Users -> {"in", "out", "unknown"}] /\ wants'[u] = "in"
      /\ \A v \in Users : v # u => wants'[v] = wants[v]
  <2>1. /\ wants \in [Users -> {"in", "out", "unknown"}]
        /\ wants' = [wants EXCEPT ![u] = "in"]
    BY DEF IInv, WantsTypeOK, SetUserToken
  <2> QED
    BY <2>1, Updated
<1>9. phase = "running" /\ loaded = {} /\ doomed = {} /\ dead = {}
  BY <1>1 DEF IInv, PhasesApart
<1>10. TypeOK'
  <2>1. Cardinality(logging') <= 1
    BY <1>1, FS_EmptySet
  <2>2. adminDue' \subseteq Users
    BY <1>1 DEF IInv, TypeOK
  <2> QED
    BY <1>1, <1>2, <1>6, <1>7, <2>1, <2>2 DEF IInv, TypeOK, Row
<1>11. WantsTypeOK'
  BY <1>8 DEF WantsTypeOK
<1>12. PhasesApart' /\ StartSplitsUsers'
  BY <1>2, <1>9 DEF IInv, PhasesApart, StartSplitsUsers
<1>13. RowsFollowMembers'
  <2>1. \A v \in Users : member'[v] = "Active" => row'[v] # NoRow
    BY <1>4, <1>6, <1>7 DEF IInv, RowsFollowMembers
  <2>2. \A v \in adminDue' : \/ member'[v] = "LoggedOut"
                             \/ member'[v] = "Active" /\ wants'[v] = "in"
    <3>1. adminDue \subseteq Users
      BY DEF IInv, TypeOK
    <3> QED
      BY <1>1, <1>7, <1>8, <3>1 DEF IInv, RowsFollowMembers
  <2> QED
    BY <1>1, <2>1, <2>2 DEF RowsFollowMembers
<1>14. UsersOutliveTheProcess'
  <2> SUFFICES ASSUME NEW v \in Users
               PROVE  /\ wants'[v] = "in" =>
                            row'[v] # NoRow /\ ~row'[v].marked /\ row'[v].token
                      /\ wants'[v] = "out" =>
                            row'[v] = NoRow \/ row'[v].marked \/ v \in adminRevived'
    BY DEF UsersOutliveTheProcess
  <2>1. CASE v = u
    BY <1>4, <1>6, <1>8, <2>1
  <2>2. CASE v # u
    BY <1>1, <1>6, <1>8, <2>2 DEF IInv, UsersOutliveTheProcess
  <2> QED
    BY <2>1, <2>2
<1>15. /\ FilesAreDistinct' /\ DeletionsAreAllowed' /\ RunIsOnItsWay' /\ NamesAreDistinct'
       /\ CopiesAreAccountedFor' /\ StartProceeds' /\ PromisedCopiesExist'
  BY <1>2 DEF IInv, FilesAreDistinct, DeletionsAreAllowed, RunIsOnItsWay, NewName,
              NamesAreDistinct, IsBackUp, CopiesAreAccountedFor, StartProceeds, Settled,
              PromisedCopiesExist
<1> QED
  BY <1>10, <1>11, <1>12, <1>13, <1>14, <1>15 DEF IInv

\* A user logs out: the row is marked.
LEMMA LogOutStep ==
    ASSUME IInv, NEW u \in Users, LogOut(u)
    PROVE  IInv'
<1> USE DEF LogOut, InApp, disk, start, fresh
<1> DEFINE r == [row[u] EXCEPT !.marked = TRUE]
<1>a. row[u] \in Row
  BY DEF IInv, TypeOK, RowsFollowMembers, Row
<1>b. r \in Row /\ r # NoRow /\ r.marked /\ row' = [row EXCEPT ![u] = r]
  BY <1>a, RowUpdates
<1> HIDE DEF r
<1>0. /\ row' \in [Users -> Row \cup {NoRow}]
      /\ row'[u] = r /\ r # NoRow
      /\ \A v \in Users : v # u => row'[v] = row[v]
  BY <1>b, RowWritten DEF IInv
<1>1. TypeOK'
  <2>1. row' \in [Users -> [uuid : Path, marked : BOOLEAN, token : BOOLEAN] \cup {NoRow}]
    BY <1>0 DEF Row
  <2>2. member' \in [Users -> {"absent", "Active", "LoggedOut"}]
    BY DEF IInv, TypeOK
  <2>3. live' \subseteq open
    BY DEF IInv, TypeOK
  <2> QED
    BY <2>1 DEF IInv, TypeOK
<1>2. WantsTypeOK'
  BY DEF IInv, WantsTypeOK
<1>3. PhasesApart'
  BY DEF IInv, PhasesApart
<1>4. StartSplitsUsers'
  BY DEF IInv, StartSplitsUsers, PhasesApart
<1>5. RowsFollowMembers'
  BY DEF IInv, RowsFollowMembers, TypeOK
<1>6. FilesAreDistinct'
  BY DEF IInv, FilesAreDistinct
<1>7. UsersOutliveTheProcess'
  BY <1>0 DEF IInv, UsersOutliveTheProcess, WantsTypeOK
<1>8. DeletionsAreAllowed' /\ RunIsOnItsWay' /\ NamesAreDistinct' /\ CopiesAreAccountedFor'
      /\ StartProceeds' /\ PromisedCopiesExist'
  BY DEF IInv, DeletionsAreAllowed, RunIsOnItsWay, NamesAreDistinct, CopiesAreAccountedFor,
     StartProceeds, PromisedCopiesExist, NewName, IsBackUp
<1> QED
  BY <1>1, <1>2, <1>3, <1>4, <1>5, <1>6, <1>7, <1>8 DEF IInv

\* set_is_admin revives the row of a user who has been logged out meanwhile.
LEMMA SetIsAdminStep ==
    ASSUME IInv, NEW u \in Users, SetIsAdmin(u)
    PROVE  IInv'
<1>1. /\ phase = "running" /\ logging = {} /\ u \in adminDue /\ adminDue' = adminDue \ {u}
      /\ adminRevived' = IF member[u] = "LoggedOut" THEN adminRevived \cup {u}
                         ELSE adminRevived
      /\ GetOrMake(u)
  BY DEF SetIsAdmin, InApp
<1>2. UNCHANGED <<actions, file, recovery, run, phase, todo, completed, loaded, doomed, dead,
                  member, logging, open, live, nextName, nextFile, crashes, promised,
                  overwritten, abandoned, interrupted, wants>>
  BY DEF SetIsAdmin, disk, start
<1>3. PICK r \in Row : /\ row' = [row EXCEPT ![u] = r]
                       /\ ~r.marked
                       /\ row[u] # NoRow => r.token = row[u].token
  BY <1>1, GetOrMakeGives DEF IInv
<1>4. /\ row' \in [Users -> Row \cup {NoRow}] /\ row'[u] = r /\ r # NoRow
      /\ \A v \in Users : v # u => row'[v] = row[v]
  BY <1>3, RowWritten DEF IInv
<1>5. TypeOK'
  <2>1. nextUuid' \in 1..MaxUuids + 1
    <3>1. nextUuid \in 1..MaxUuids + 1
      BY DEF IInv, TypeOK
    <3>2. nextUuid' = nextUuid \/ (nextUuid \in 1..MaxUuids /\ nextUuid' = nextUuid + 1)
      BY <1>1 DEF GetOrMake, Path
    <3> QED
      BY <3>1, <3>2, Bounds
  <2>2. adminDue' \subseteq Users
    BY <1>1 DEF IInv, TypeOK
  <2> QED
    BY <1>2, <1>4, <2>1, <2>2 DEF IInv, TypeOK, Row
<1>6. PhasesApart' /\ StartSplitsUsers'
  BY <1>1, <1>2 DEF IInv, PhasesApart, StartSplitsUsers
<1>7. RowsFollowMembers'
  BY <1>1, <1>2, <1>4 DEF IInv, RowsFollowMembers
<1>8. UsersOutliveTheProcess'
  <2> SUFFICES ASSUME NEW v \in Users
               PROVE  /\ wants[v] = "in" =>
                            row'[v] # NoRow /\ ~row'[v].marked /\ row'[v].token
                      /\ wants[v] = "out" =>
                            row'[v] = NoRow \/ row'[v].marked \/ v \in adminRevived'
    BY <1>2 DEF UsersOutliveTheProcess
  <2>1. CASE v = u
    <3>1. \/ member[u] = "LoggedOut" /\ u \in adminRevived'
          \/ wants[u] = "in"
      BY <1>1 DEF IInv, RowsFollowMembers
    <3>2. wants[u] = "in" => row[u] # NoRow /\ row[u].token
      BY DEF IInv, UsersOutliveTheProcess
    <3> QED
      BY <1>3, <1>4, <2>1, <3>1, <3>2
  <2>2. CASE v # u
    <3>1. adminRevived \subseteq adminRevived'
      BY <1>1
    <3> QED
      BY <1>4, <2>2, <3>1 DEF IInv, UsersOutliveTheProcess
  <2> QED
    BY <2>1, <2>2
<1>9. /\ WantsTypeOK' /\ FilesAreDistinct' /\ DeletionsAreAllowed' /\ RunIsOnItsWay'
      /\ NamesAreDistinct' /\ CopiesAreAccountedFor' /\ StartProceeds' /\ PromisedCopiesExist'
  BY <1>2 DEF IInv, WantsTypeOK, FilesAreDistinct, DeletionsAreAllowed, RunIsOnItsWay,
              NewName, NamesAreDistinct, IsBackUp, CopiesAreAccountedFor, StartProceeds,
              Settled, PromisedCopiesExist
<1> QED
  BY <1>5, <1>6, <1>7, <1>8, <1>9 DEF IInv

\* A Realm is opened.  A file that is created is a new one.
LEMMA OpenRealmStep ==
    ASSUME IInv, NEW u \in Users, OpenRealm(u)
    PROVE  IInv'
<1> USE Bounds
<1> DEFINE p == row[u].uuid
<1>1. /\ phase = "running" /\ member[u] = "Active" /\ run.path # p
      /\ open' = open \cup {p} /\ live' = live \cup {p}
  BY DEF OpenRealm, InApp
<1>2. UNCHANGED <<actions, row, recovery, run, phase, todo, completed, loaded, doomed, dead,
                  member, logging, adminDue, nextUuid, nextName, crashes, promised,
                  overwritten, abandoned, interrupted, wants, adminRevived>>
  BY DEF OpenRealm, start, ghosts
<1>3. p \in Path
  BY <1>1 DEF IInv, TypeOK, RowsFollowMembers
<1>4. \/ file[p] # Nothing /\ UNCHANGED <<file, nextFile>>
      \/ /\ file[p] = Nothing /\ nextFile \in File
         /\ file' = [file EXCEPT ![p] = nextFile] /\ nextFile' = nextFile + 1
  BY DEF OpenRealm
<1> HIDE DEF p
<1>5. /\ nextFile \in Nat /\ file \in [Path -> File \cup {Nothing}]
      /\ promised \subseteq 1..nextFile - 1
      /\ \A q \in Path : file[q] < nextFile
      /\ \A q, s \in Path : file[q] = file[s] => q = s \/ file[q] = Nothing
  <2>1. nextFile \in 1..MaxFiles + 1
    BY DEF IInv, TypeOK
  <2>2. file \in [Path -> File \cup {Nothing}]
    BY DEF IInv, TypeOK
  <2> QED
    BY <2>1, <2>2 DEF IInv, FilesAreDistinct
<1>6. /\ file' \in [Path -> File \cup {Nothing}] /\ file'[p] # Nothing
      /\ file'[p] = file[p] \/ file'[p] = nextFile
      /\ \A q \in Path : q # p => file'[q] = file[q]
  BY <1>3, <1>4, <1>5, Updated
<1>7. TypeOK'
  <2>1. nextFile' \in 1..MaxFiles + 1
    <3>1. nextFile \in 1..MaxFiles + 1
      BY DEF IInv, TypeOK
    <3> QED
      BY <1>4, <3>1 DEF File
  <2>2. live' \subseteq open' /\ open' \subseteq Path
    BY <1>1, <1>3 DEF IInv, TypeOK
  <2> QED
    BY <1>2, <1>6, <2>1, <2>2 DEF IInv, TypeOK
<1>8. PhasesApart'
  BY <1>1, <1>2 DEF IInv, PhasesApart
<1>9. FilesAreDistinct'
  <2>1. promised \subseteq 1..nextFile' - 1
    BY <1>4, <1>5
  <2>2. \A q \in Path : file[q] \in Int
    BY <1>5 DEF File, Nothing
  <2>3. \A q \in Path : file'[q] < nextFile'
    BY <1>3, <1>4, <1>5, <1>6, <2>2
  <2>4. \A q \in Path : q # p => file'[q] # nextFile
    BY <1>5, <1>6, <2>2
  <2>5. \A q, s \in Path : file'[q] = file'[s] => q = s \/ file'[q] = Nothing
    BY <1>3, <1>5, <1>6, <2>4
  <2>6. \A q \in live' : file'[q] # Nothing
    BY <1>1, <1>6 DEF IInv, TypeOK, FilesAreDistinct
  <2> QED
    BY <1>2, <2>1, <2>3, <2>5, <2>6 DEF FilesAreDistinct
<1>10. nextFile \notin promised
  BY <1>5
<1>11. DeletionsAreAllowed'
  <2> SUFFICES ASSUME NEW q \in Path, actions[q] = Delete, file'[q] \in promised
               PROVE  file'[q] \in overwritten
    BY <1>2 DEF DeletionsAreAllowed
  <2>1. file'[q] = file[q]
    BY <1>6, <1>10
  <2> QED
    BY <2>1 DEF IInv, DeletionsAreAllowed
<1>12. RunIsOnItsWay'
  <2> SUFFICES ASSUME run # NoRun
               PROVE  RunIsOnItsWay'
    BY <1>2 DEF RunIsOnItsWay
  <2>1. run.path \in Path /\ run.path # p /\ file'[run.path] = file[run.path]
    BY <1>1, <1>6, RunTypes DEF IInv, RunOfAction, p
  <2> QED
    BY <1>1, <1>2, <2>1 DEF IInv, RunIsOnItsWay, NewName
<1>13. CopiesAreAccountedFor'
  BY <1>1, <1>2 DEF IInv, CopiesAreAccountedFor, IsBackUp
<1>14. PromisedCopiesExist'
  <2> SUFFICES ASSUME NEW f \in promised \ (overwritten \cup abandoned)
               PROVE  \/ \E q \in Path : file'[q] = f
                      \/ \E n \in Name : recovery[n] = f
    BY <1>2 DEF PromisedCopiesExist
  <2>1. f # Nothing
    BY DEF IInv, FilesAreDistinct, Nothing
  <2>2. \A q \in Path : file[q] = f => file'[q] = f
    BY <1>4, <2>1, <1>6
  <2> QED
    BY <2>2 DEF IInv, PromisedCopiesExist
<1>15. /\ WantsTypeOK' /\ StartSplitsUsers' /\ RowsFollowMembers' /\ NamesAreDistinct'
       /\ StartProceeds' /\ UsersOutliveTheProcess'
  BY <1>2 DEF IInv, WantsTypeOK, StartSplitsUsers, RowsFollowMembers, NamesAreDistinct,
              StartProceeds, Settled, UsersOutliveTheProcess, IsBackUp
<1> QED
  BY <1>7, <1>8, <1>9, <1>11, <1>12, <1>13, <1>14, <1>15 DEF IInv

\* A Realm is closed.
LEMMA CloseRealmStep ==
    ASSUME IInv, NEW p \in Path, CloseRealm(p)
    PROVE  IInv'
<1> USE DEF CloseRealm, InApp, disk, start, fresh, ghosts
<1>1. TypeOK'
  BY DEF IInv, TypeOK
<1>2. PhasesApart'
  BY DEF IInv, PhasesApart
<1>3. FilesAreDistinct'
  BY DEF IInv, FilesAreDistinct
<1>4. RunIsOnItsWay'
  BY DEF IInv, RunIsOnItsWay, NewName
<1>5. WantsTypeOK' /\ StartSplitsUsers' /\ RowsFollowMembers' /\ DeletionsAreAllowed'
      /\ NamesAreDistinct' /\ CopiesAreAccountedFor' /\ StartProceeds'
      /\ PromisedCopiesExist' /\ UsersOutliveTheProcess'
  BY DEF IInv, WantsTypeOK, StartSplitsUsers, RowsFollowMembers, DeletionsAreAllowed,
     NamesAreDistinct, CopiesAreAccountedFor, StartProceeds, PromisedCopiesExist,
     UsersOutliveTheProcess, IsBackUp
<1> QED
  BY <1>1, <1>2, <1>3, <1>4, <1>5 DEF IInv

\* A backup is promised, under a recovery path of its own.
LEMMA ClientResetStep ==
    ASSUME IInv, NEW p \in Path, ClientReset(p)
    PROVE  IInv'
<1> USE Bounds
<1>1. /\ p \in live /\ nextName \in Name
      /\ actions' = [actions EXCEPT ![p] = BackUp(nextName)]
      /\ nextName' = nextName + 1 /\ live' = live \ {p}
      /\ promised' = promised \cup {file[p]} /\ overwritten' = overwritten \ {file[p]}
  BY DEF ClientReset
<1>2. UNCHANGED <<row, file, recovery, run, phase, todo, completed, loaded, doomed, dead,
                  member, logging, adminDue, open, nextUuid, nextFile, crashes, abandoned,
                  interrupted, wants, adminRevived>>
  BY DEF ClientReset, disk, start
<1>3. phase = "running"
  BY DEF ClientReset, InApp
<1>4. /\ actions' \in [Path -> {NoAction, Delete} \cup {BackUp(n) : n \in Name}]
      /\ actions'[p] = BackUp(nextName)
      /\ \A q \in Path : q # p => actions'[q] = actions[q]
  <2>1. actions \in [Path -> {NoAction, Delete} \cup {BackUp(n) : n \in Name}]
    BY DEF IInv, TypeOK
  <2>2. BackUp(nextName) \in {NoAction, Delete} \cup {BackUp(n) : n \in Name}
    BY <1>1
  <2> QED
    BY <1>1, <2>1, <2>2, Updated
<1>5. /\ BackUp(nextName).kind = "BackUpThenDeleteRealm"
      /\ BackUp(nextName).new_name = nextName /\ BackUp(nextName) \notin {Delete, NoAction}
  BY DEF BackUp, Delete, NoAction
<1>6. /\ file[p] \in File /\ file[p] < nextFile /\ nextFile \in 1..MaxFiles + 1
      /\ p \in open
  BY <1>1 DEF IInv, TypeOK, FilesAreDistinct
<1>7. TypeOK'
  <2>1. nextName' \in 1..MaxNames + 1
    BY <1>1 DEF Name
  <2>2. completed = {}
    BY <1>3 DEF IInv, PhasesApart
  <2> QED
    BY <1>1, <1>2, <1>4, <2>1, <2>2 DEF IInv, TypeOK
<1>8. FilesAreDistinct'
  <2>1. file[p] \in 1..nextFile - 1
    BY <1>6 DEF File
  <2> QED
    BY <1>1, <1>2, <2>1 DEF IInv, FilesAreDistinct
<1>9. DeletionsAreAllowed'
  <2> SUFFICES ASSUME NEW q \in Path, actions'[q] = Delete, file[q] \in promised'
               PROVE  file[q] \in overwritten'
    BY <1>2 DEF DeletionsAreAllowed
  <2>1. q # p
    BY <1>4, <1>5
  <2>2. file[q] # file[p]
    BY <1>6, <2>1 DEF IInv, FilesAreDistinct
  <2> QED
    BY <1>1, <1>4, <2>1, <2>2 DEF IInv, DeletionsAreAllowed
<1>10. RunIsOnItsWay'
  <2> SUFFICES ASSUME run # NoRun
               PROVE  RunIsOnItsWay'
    BY <1>2 DEF RunIsOnItsWay
  <2>1. run.path \in Path /\ run.path # p
    BY <1>6, RunTypes DEF IInv, RunIsOnItsWay, RunOfAction
  <2> QED
    BY <1>2, <1>4, <2>1 DEF IInv, RunIsOnItsWay, NewName
<1>11. /\ \A q \in Path : IsBackUp(q) => actions[q].new_name < nextName
       /\ recovery[nextName] = Nothing
  BY <1>1 DEF IInv, NamesAreDistinct, Name
<1>12. NamesAreDistinct'
  <2>1. \A q \in Path : IsBackUp(q)' =>
           \/ q = p /\ actions'[q].new_name = nextName
           \/ /\ q # p /\ IsBackUp(q) /\ actions'[q] = actions[q]
              /\ actions[q].new_name < nextName
    BY <1>4, <1>5, <1>11 DEF IsBackUp
  <2>2. \A q \in Path : IsBackUp(q) => actions[q].new_name \in Nat
    BY ActionTypes DEF IInv, IsBackUp, Name
  <2>3. nextName \in Nat /\ nextName' = nextName + 1
    BY <1>1 DEF Name
  <2>4. \A q \in Path : IsBackUp(q)' => actions'[q].new_name < nextName'
    BY <2>1, <2>2, <2>3
  <2>5. \A q, s \in Path : IsBackUp(q)' /\ IsBackUp(s)'
           /\ actions'[q].new_name = actions'[s].new_name => q = s
    BY <2>1, <2>2, <2>3 DEF IInv, NamesAreDistinct
  <2>6. \A n \in Name : recovery'[n] # Nothing => n < nextName'
    BY <1>2, <2>3 DEF IInv, NamesAreDistinct, Name
  <2> QED
    BY <2>4, <2>5, <2>6 DEF NamesAreDistinct, IsBackUp
<1>13. CopiesAreAccountedFor'
  <2> SUFFICES ASSUME NEW q \in Path, IsBackUp(q)', recovery[actions'[q].new_name] # Nothing
               PROVE  actions'[q].new_name \in interrupted \/ run.path = q
    BY <1>2 DEF CopiesAreAccountedFor
  <2>1. q # p
    BY <1>4, <1>5, <1>11
  <2> QED
    BY <1>3, <1>4, <2>1 DEF IInv, CopiesAreAccountedFor, IsBackUp
<1>14. PromisedCopiesExist'
  BY <1>1, <1>2 DEF IInv, PromisedCopiesExist
<1>15. StartProceeds'
  BY <1>2, <1>3 DEF StartProceeds
<1>16. /\ WantsTypeOK' /\ PhasesApart' /\ StartSplitsUsers' /\ RowsFollowMembers'
       /\ UsersOutliveTheProcess'
  BY <1>2 DEF IInv, WantsTypeOK, PhasesApart, StartSplitsUsers, RowsFollowMembers,
              UsersOutliveTheProcess
<1> QED
  BY <1>7, <1>8, <1>9, <1>10, <1>12, <1>13, <1>14, <1>15, <1>16 DEF IInv

\* The file of a Realm is to be deleted, whatever was promised.
LEMMA PermissionDeniedStep ==
    ASSUME IInv, NEW p \in Path, PermissionDenied(p)
    PROVE  IInv'
<1> USE DEF PermissionDenied, InApp, disk, start, fresh
<1>1. TypeOK'
  BY DEF IInv, TypeOK, PhasesApart
<1>2. FilesAreDistinct'
  BY DEF IInv, FilesAreDistinct
<1>3. DeletionsAreAllowed'
  BY DEF IInv, DeletionsAreAllowed
<1>4. RunIsOnItsWay'
  BY DEF IInv, RunIsOnItsWay, TypeOK, NewName
<1>5. NamesAreDistinct'
  BY DEF IInv, NamesAreDistinct, IsBackUp, Delete
<1>6. CopiesAreAccountedFor'
  BY DEF IInv, CopiesAreAccountedFor, IsBackUp, Delete
<1>7. StartProceeds'
  BY DEF IInv, StartProceeds
<1>8. PromisedCopiesExist'
  BY DEF IInv, PromisedCopiesExist
<1>9. WantsTypeOK' /\ PhasesApart' /\ StartSplitsUsers' /\ RowsFollowMembers'
      /\ UsersOutliveTheProcess'
  BY DEF IInv, WantsTypeOK, PhasesApart, StartSplitsUsers, RowsFollowMembers,
     UsersOutliveTheProcess
<1> QED
  BY <1>1, <1>2, <1>3, <1>4, <1>5, <1>6, <1>7, <1>8, <1>9 DEF IInv

-----------------------------------------------------------------------------
(***************************************************************************)
(* The theorems.                                                           *)
(***************************************************************************)

LEMMA InitInvariant == Init => IInv
<1> SUFFICES ASSUME Init PROVE IInv
  OBVIOUS
<1> USE Bounds DEF Init
<1>1. TypeOK
  BY FS_EmptySet DEF TypeOK
<1>2. /\ WantsTypeOK /\ PhasesApart /\ StartSplitsUsers /\ RowsFollowMembers
      /\ FilesAreDistinct /\ UsersOutliveTheProcess /\ PromisedCopiesExist
  BY DEF WantsTypeOK, PhasesApart, StartSplitsUsers, RowsFollowMembers, FilesAreDistinct,
         UsersOutliveTheProcess, PromisedCopiesExist, Nothing
<1>3. /\ DeletionsAreAllowed /\ RunIsOnItsWay /\ NamesAreDistinct
      /\ CopiesAreAccountedFor /\ StartProceeds
  BY DEF DeletionsAreAllowed, RunIsOnItsWay, NamesAreDistinct, IsBackUp,
         CopiesAreAccountedFor, StartProceeds, NoAction
<1> QED
  BY <1>1, <1>2, <1>3 DEF IInv

LEMMA StutterKeepsInvariant ==
    ASSUME IInv, UNCHANGED vars
    PROVE  IInv'
<1>1. UNCHANGED <<actions, row, file, recovery, run, phase, todo, completed, loaded, doomed,
                  dead, member, logging, adminDue, open, live, nextUuid, nextName, nextFile,
                  crashes, promised, overwritten, abandoned, interrupted, wants, adminRevived>>
  BY DEF vars, disk, start, memory, fresh, ghosts
<1>2. TypeOK' /\ WantsTypeOK' /\ PhasesApart'
  BY <1>1 DEF IInv, TypeOK, WantsTypeOK, PhasesApart
<1>3. StartSplitsUsers' /\ RowsFollowMembers' /\ UsersOutliveTheProcess'
  BY <1>1 DEF IInv, StartSplitsUsers, RowsFollowMembers, UsersOutliveTheProcess
<1>4. /\ FilesAreDistinct' /\ DeletionsAreAllowed' /\ RunIsOnItsWay' /\ NamesAreDistinct'
      /\ CopiesAreAccountedFor' /\ StartProceeds' /\ PromisedCopiesExist'
  BY <1>1 DEF IInv, FilesAreDistinct, DeletionsAreAllowed, RunIsOnItsWay, NewName,
     NamesAreDistinct, IsBackUp, CopiesAreAccountedFor, StartProceeds, Settled,
     PromisedCopiesExist
<1> QED
  BY <1>2, <1>3, <1>4 DEF IInv

LEMMA NextInvariant == IInv /\ [Next]_vars => IInv'
<1> SUFFICES ASSUME IInv, [Next]_vars PROVE IInv'
  OBVIOUS
<1>1. CASE Launch \/ RemoveCompleted \/ NextPhase \/ LoadUsers \/ RemoveDead \/ InsertUsers
           \/ Crash
  BY <1>1, LaunchStep, RemoveCompletedStep, NextPhaseStep, LoadUsersStep, RemoveDeadStep,
     InsertUsersStep, CrashStep
<1>2. CASE CopyEnds \/ CopyFails \/ RemoveOriginal \/ RemoveHandled
  BY <1>2, CopyEndsStep, CopyFailsStep, RemoveOriginalStep, RemoveHandledStep
<1>3. CASE RunPending
  <2>1. PICK p \in todo : phase = "actions" /\ RunFileAction("configure", p)
    BY <1>3 DEF RunPending
  <2>2. p \in Path
    BY DEF IInv, TypeOK
  <2>3. actions[p] # NoAction
    BY <2>1 DEF RunFileAction, NoAction
  <2> QED
    BY <2>1, <2>2, <2>3, RunFileActionStep
<1>4. ASSUME NEW u \in Users,
             \/ RemoveDirectory(u) \/ LogIn(u) \/ SetUserToken(u) \/ LogOut(u)
             \/ SetIsAdmin(u) \/ OpenRealm(u)
      PROVE  IInv'
  BY <1>4, RemoveDirectoryStep, LogInStep, SetUserTokenStep, LogOutStep, SetIsAdminStep,
     OpenRealmStep
<1>5. ASSUME NEW p \in Path, CloseRealm(p) \/ ClientReset(p) \/ PermissionDenied(p)
      PROVE  IInv'
  BY <1>5, CloseRealmStep, ClientResetStep, PermissionDeniedStep
<1>6. ASSUME NEW p \in Path, HandleImmediately(p)
      PROVE  IInv'
  BY <1>6, RunFileActionStep DEF HandleImmediately, InApp
<1>7. CASE UNCHANGED vars
  BY <1>7, StutterKeepsInvariant
<1> QED
  BY <1>1, <1>2, <1>3, <1>4, <1>5, <1>6, <1>7 DEF Next

\* The inductive invariant is an invariant of SyncManager's start, its file actions and
\* what the application does to users and Realms.
THEOREM InvariantHolds == Spec => []IInv
  BY InitInvariant, NextInvariant, PTL DEF Spec

\* Actions, rows, files, copies and work lists are what the code may find in them; what
\* configure has completed is still to be removed, once.
THEOREM TypeCorrect == Spec => []TypeOK
<1>1. IInv => TypeOK
  BY DEF IInv
<1> QED
  BY <1>1, InvariantHolds, PTL

\* A file that a client reset was announced for is there, or a complete copy of it is,
\* wherever the process ended in between and whatever copies failed.
THEOREM PromisesAreKept == Spec => []PromisedCopiesExist
<1>1. IInv => PromisedCopiesExist
  BY DEF IInv
<1> QED
  BY <1>1, InvariantHolds, PTL

\* When a start has run the file actions, those that are left have a recovery path at
\* which a copy was interrupted.
THEOREM StartsAreComplete == Spec => []StartsCarryOutActions
<1>1. IInv => StartsCarryOutActions
  BY DEF IInv, StartProceeds, Settled, StartsCarryOutActions
<1> QED
  BY <1>1, InvariantHolds, PTL

\* Users are found logged in or out as the application has left them, but for those whom
\* set_is_admin has revived.
THEOREM UsersAreRemembered == Spec => []UsersOutliveTheProcess
<1>1. IInv => UsersOutliveTheProcess
  BY DEF IInv
<1> QED
  BY <1>1, InvariantHolds, PTL
=============================================================================
