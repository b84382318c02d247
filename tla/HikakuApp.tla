------------------------------ MODULE HikakuApp -----------------------------
(***************************************************************************)
(* The whole app: the list (HikakuList), the editor it presents            *)
(* (CompareMain), the how-to screen, the database both share, and the      *)
(* process, which the system may kill at any moment and which dies of a    *)
(* Swift runtime trap.  Only the database outlives the process.            *)
(***************************************************************************)
EXTENDS HikakuList, CompareMain

CONSTANT MaxKills    \* bound on the times the system kills the process

ASSUME MaxKillsAssumption == MaxKills \in Nat

VARIABLES
    screen,    \* what is in front
    kills,     \* how often the system has killed the process
    exit       \* how the last process ended

vars == <<realmVars, listVars, editorVars, screen, kills, exit>>

TypeOK ==
    /\ RealmTypeOK
    /\ ListTypeOK
    /\ EditorTypeOK
    /\ screen \in {"off", "list", "editor", "howto"}
    /\ kills \in 0..MaxKills
    /\ exit \in {"none", "killed", "trapped"}

Init ==
    /\ RealmInit
    /\ ListGone
    /\ EditorGone
    /\ screen = "off"
    /\ kills = 0
    /\ exit = "none"

-----------------------------------------------------------------------------
\* The process.

\* The scene is connected and shows a new ViewController.
Launch ==
    /\ screen = "off"
    /\ screen' = "list"
    /\ exit' = "none"
    /\ Reload
    /\ UNCHANGED <<items, contents, editorVars, kills>>

Die(how) ==
    /\ screen' = "off"
    /\ exit' = how
    /\ ListReleased
    /\ EditorReleased

Kill ==
    /\ screen # "off"
    /\ kills < MaxKills
    /\ kills' = kills + 1
    /\ Die("killed")
    /\ UNCHANGED realmVars

Trap ==
    /\ Die("trapped")
    /\ UNCHANGED <<items, contents, kills>>

-----------------------------------------------------------------------------
\* On the list.

\* The list is in front, and the step leaves everything else alone.
OnList == screen = "list" /\ UNCHANGED <<editorVars, screen, kills, exit>>

\* The editor is created and presented, which runs its viewDidLoad.  When a
\* query throws, that viewDidLoad goes on and unwraps the missing results.
PresentEditor(g) ==
    \/ /\ RealmWorks
       /\ IF LoadTraps(contents[g])
          THEN Trap
          ELSE /\ OpenEditor(g)
               /\ screen' = "editor"
               /\ UNCHANGED <<items, contents, listVars, kills, exit>>
    \/ RealmThrows /\ Trap

AddNewHikakuBtnDidTap ==
    /\ screen = "list"
    /\ ListIdle
    /\ getMaxGroupId < MaxGroupId
    /\ PresentEditor(NewGroupId)

DidSelectRow ==
    /\ screen = "list"
    /\ ListIdle
    /\ \E row \in DOMAIN displayList : PresentEditor(SelectedGroupId(row))

HowToUseBtnDidTap ==
    /\ screen = "list"
    /\ ListIdle
    /\ screen' = "howto"
    /\ UNCHANGED <<realmVars, listVars, editorVars, kills, exit>>

CloseBtnDidTap ==
    /\ screen = "howto"
    /\ screen' = "list"
    /\ UNCHANGED <<realmVars, listVars, editorVars, kills, exit>>

AddNewFails == OnList /\ AddNewThrows
SelectFails == OnList /\ \E row \in DOMAIN displayList : SelectThrows(row)
DeleteTapped == OnList /\ \E row \in DOMAIN displayList : DeleteTap(row)
DeleteRefused == OnList /\ DeleteNo
DeleteConfirmed == OnList /\ DeleteYesWorks
DeleteFails == OnList /\ DeleteYesThrows
ListAlertDismissed == OnList /\ DismissListAlert

ListNext ==
    \/ AddNewHikakuBtnDidTap \/ AddNewFails
    \/ DidSelectRow \/ SelectFails
    \/ DeleteTapped \/ DeleteRefused \/ DeleteConfirmed \/ DeleteFails
    \/ ListAlertDismissed
    \/ HowToUseBtnDidTap

-----------------------------------------------------------------------------
\* In the editor.

\* The editor is in front, and the step leaves everything else alone.
InEditor == screen = "editor" /\ UNCHANGED <<listVars, screen, kills, exit>>

NameAdded == InEditor /\ AddNewName
ItemAdded == InEditor /\ AddNewItem
SaveUpdates == InEditor /\ SaveUpdateWorks
SaveFails == InEditor /\ SaveThrows
SaveInserts == InEditor /\ SaveInsertItem
SaveInsertsColumn == InEditor /\ SaveInsertColumn
SaveInsertFails == InEditor /\ SaveInsertColumnThrows
AdReady == InEditor /\ AdLoaded
AdClosed == InEditor /\ AdDismissed
BackTapped == InEditor /\ BackTap
DialogDismissed == InEditor /\ DismissDialog

SaveCrashes ==
    /\ screen = "editor"
    /\ SaveTraps
    /\ Trap

\* Mutant: the list is not reloaded.
BackWithoutReload ==
    /\ screen = "editor"
    /\ pc = "idle"
    /\ presented = "resetWarning"
    /\ screen' = "list"
    /\ EditorReleased
    /\ UNCHANGED <<realmVars, listVars, kills, exit>>

\* Yes on the warning: the editor is dismissed and the list reloads.
BackConfirmed ==
    /\ screen = "editor"
    /\ pc = "idle"
    /\ presented = "resetWarning"
    /\ screen' = "list"
    /\ EditorReleased
    /\ Reload
    /\ UNCHANGED <<items, contents, kills, exit>>

\* The steps of saveData's insertion loop.
InsertStep == SaveInsertsColumn \/ SaveInsertFails

EditorNext ==
    \/ NameAdded \/ ItemAdded
    \/ SaveUpdates \/ SaveInserts \/ InsertStep \/ SaveFails \/ SaveCrashes
    \/ AdReady \/ AdClosed
    \/ BackTapped \/ BackConfirmed \/ DialogDismissed

-----------------------------------------------------------------------------
Next == Launch \/ Kill \/ ListNext \/ CloseBtnDidTap \/ EditorNext

Spec == Init /\ [][Next]_vars

-----------------------------------------------------------------------------
(***************************************************************************)
(* Properties of the database.                                             *)
(***************************************************************************)

\* The ids that saving n columns stores, in the order it stores them.
Columns(n) == [k \in 1..n |-> k - 1]

\* No group has two items: an id is only handed out above all stored ones,
\* and the editor of a row whose group is gone inserts it once.
UniqueGroups ==
    \A i, j \in DOMAIN items : items[i] = items[j] => i = j

\* The columns of a group are 0, 1, 2, ... without a gap, a duplicate or a
\* disorder, however its saves were interrupted: viewDidLoad (colNum from
\* contents.last, contents.first as column 0, the unwrapping of column 1)
\* and the display text depend on it.
ColumnsArePrefix ==
    \A g \in GroupIds : /\ Len(contents[g]) <= MaxCols
                        /\ contents[g] = Columns(Len(contents[g]))

\* Columns exist only below an item: a group that is created later with the
\* id of a deleted one does not inherit columns, and inserts no id twice.
NoOrphanColumns ==
    \A g \in GroupIds : ~Stored(g) => contents[g] = <<>>

\* What every reader of the database relies on, whatever failed or was killed
\* while it was written: no group twice, its columns 0, 1, ..., none without it.
StoreIsWellFormed == UniqueGroups /\ ColumnsArePrefix /\ NoOrphanColumns

\* The editor shows every stored column of its group: what saveData writes
\* (or leaves alone) is what the user sees.
EditorShowsAllColumns ==
    screen = "editor" => Len(contents[groupId]) <= colNum

(***************************************************************************)
(* Properties of the list.                                                 *)
(***************************************************************************)

\* A row that can be tapped, or whose deletion is being confirmed, indexes
\* both arrays, although deleting shortens only one of them.
RowsIndexBothArrays ==
    /\ Len(displayList) <= Len(groupIdList)
    /\ listAlert = "deleteConfirm" => deleteRow \in DOMAIN displayList

\* Until a row is removed, a list in front shows the stored groups as they
\* are now: the editor's changes arrive with callBack's reload.
FreshListShowsStore ==
    /\ screen \in {"list", "howto"}
    /\ displayList # <<>>
    /\ Len(displayList) = Len(groupIdList)
    => displayList = items /\ groupIdList = items

\* No tap indexes past an array, and until a row is removed the list in front is
\* the database: the two copies that the list keeps of it are renewed in time.
ListIsFaithful == RowsIndexBothArrays /\ FreshListShowsStore

(***************************************************************************)
(* Properties of the editor.                                               *)
(***************************************************************************)

\* Who gets the success message of a save that succeeded has all columns on
\* screen in the database, and the group in the list.
SavedMeansComplete ==
    /\ screen = "editor"
    /\ pc = "idle"
    /\ presented \in {"saved", "ad"}
    /\ lastSave = "ok"
    => Stored(groupId) /\ contents[groupId] = Columns(colNum)

\* No save stays without an answer: the message that an ad kept from being
\* presented is made up for when the ad is closed.
EverySaveAnswered ==
    EditorIdle /\ lastSave # "none" => answered

\* A message tells the outcome of the save, although a save without an ad presents
\* up to three; but for the one that follows an ad, which says "saved" whatever
\* came of the save ("//complete message", CompareMainVC.swift:1280).
AnswersWithoutAdAreTrue ==
    [][presented # presented' /\ presented # "ad"
       => /\ presented' = "saved" => lastSave' = "ok"
          /\ presented' = "saveError" => lastSave' = "failed"]_vars

\* The unwrapped optionals of saveData and viewDidLoad are nil only in the
\* aftermath of a failed database call or a kill.
TrapsOnlyAfterIncidents == exit = "trapped" => faults + kills > 0

(***************************************************************************)
(* The inductive invariant: the properties above hold because of one       *)
(* another and of what follows.                                            *)
(***************************************************************************)

\* The editor in front edits a group; without it no save is under way.
EditorOpen ==
    /\ screen = "editor" => groupId \in GroupIds
    /\ screen # "editor" => pc = "idle"

\* In the loop, the item and the columns before nextCol have been stored, and
\* at most the ad is presented.
InsertionProgress ==
    pc = "insert" => /\ nextCol < colNum
                     /\ presented \in {"none", "ad"}
                     /\ Stored(groupId)
                     /\ contents[groupId] = Columns(nextCol)

\* A group whose insertion is under way.
Underway == IF pc = "insert" THEN {groupId} ELSE {}

\* Only incidents leave a group behind that saveData cannot unwrap.
TornOnlyAfterIncidents ==
    \A g \in GroupIds \ Underway :
        Stored(g) /\ Len(contents[g]) < 2 => faults + kills > 0

\* The answer that is still missing when saveBtnDidTap returns is under an ad.
AnswerPendingUnderAd == pc = "idle" /\ ~answered => presented = "ad"

IInv ==
    /\ TypeOK
    /\ EditorOpen
    /\ StoreIsWellFormed
    /\ EditorShowsAllColumns
    /\ InsertionProgress
    /\ TornOnlyAfterIncidents
    /\ TrapsOnlyAfterIncidents
    /\ ListIsFaithful
    /\ SavedMeansComplete
    /\ AnswerPendingUnderAd

(***************************************************************************)
(* The app implements the notebook.  A group whose insertion is under way  *)
(* is not in it yet: nothing but the loop itself reads it before the end.  *)
(***************************************************************************)
SavedBook == [g \in Range(items) \ Underway |-> Len(contents[g])]

Book == INSTANCE Notebook WITH
            Groups <- GroupIds, MaxThings <- MaxCols,
            book <- SavedBook, incidents <- faults + kills

\* Saved groups appear whole, only grow, and go only when the user deletes
\* them; only an incident leaves an incomplete one.
ImplementsNotebook == Book!BookSpec

(***************************************************************************)
(* What the texts of the app say and the code does not do.                 *)
(***************************************************************************)

\* "該当データを削除します" (ViewController.swift:420): the group that a
\* confirmed deletion removes is the one its row shows.
DeletesTheRowShown ==
    [][\A g \in GroupIds : Stored(g) /\ ~Stored(g)'
           => g = displayList[deleteRow]]_vars
=============================================================================
