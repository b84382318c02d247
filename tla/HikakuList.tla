----------------------------- MODULE HikakuList -----------------------------
(***************************************************************************)
(* The list of comparisons (ViewController): a table whose rows were       *)
(* copied from the database by viewDidLoad into two parallel arrays, the   *)
(* texts on screen and the group ids behind them.  A displayed text is     *)
(* modelled by the group it describes.  Rows count from 1.                 *)
(***************************************************************************)
EXTENDS CompareRealm, Presentation

VARIABLES
    displayList,   \* displayList[r]: the group that row r describes
    groupIdList,   \* groupIdList[r]: the group that row r acts on
    listAlert,     \* what the controller presents besides another screen
    deleteRow      \* indexPath.row captured by the delete confirmation

listVars == <<displayList, groupIdList, listAlert, deleteRow>>

ListAlerts == {"none", "loadError", "newError", "deleteConfirm", "deleteError"}

ListTypeOK ==
    /\ displayList \in Seq(GroupIds)
    /\ groupIdList \in Seq(GroupIds)
    /\ listAlert \in ListAlerts
    /\ deleteRow \in Nat

\* The controller does not exist: before a launch.
ListGone ==
    /\ displayList = <<>>
    /\ groupIdList = <<>>
    /\ listAlert = "none"
    /\ deleteRow = 0

ListReleased ==
    /\ displayList' = <<>>
    /\ groupIdList' = <<>>
    /\ listAlert' = "none"
    /\ deleteRow' = 0

-----------------------------------------------------------------------------
\* viewDidLoad, also run by callBack when the editor has been dismissed.
ReloadWorks ==
    /\ RealmWorks
    /\ displayList' = items
    /\ groupIdList' = items
    /\ listAlert' = "none"
    /\ deleteRow' = 0

ReloadThrows ==
    /\ RealmThrows
    /\ displayList' = <<>>
    /\ groupIdList' = <<>>
    /\ listAlert' \in PresentFromViewDidLoad("none", "loadError")
    /\ deleteRow' = 0

Reload == ReloadWorks \/ ReloadThrows

\* The table takes touches only while nothing is presented over it.
ListIdle == listAlert = "none"

DismissListAlert ==
    /\ listAlert \notin {"none", "deleteConfirm"}
    /\ listAlert' = "none"
    /\ UNCHANGED <<displayList, groupIdList, deleteRow, realmVars>>

-----------------------------------------------------------------------------
\* addNewHikakuBtnDidTap: the group id of the editor to open.
NewGroupId == getMaxGroupId + 1

AddNewThrows ==
    /\ ListIdle
    /\ RealmThrows
    /\ listAlert' = Present(listAlert, "newError")
    /\ UNCHANGED <<displayList, groupIdList, deleteRow, items, contents>>

\* didSelectRowAt: the group id of the editor to open.  When a query throws,
\* the alert goes up first and the editor is not presented over it.
SelectedGroupId(row) == groupIdList[row]

SelectThrows(row) ==
    /\ ListIdle
    /\ RealmThrows
    /\ listAlert' = Present(Present(listAlert, "loadError"), "editor")
    /\ UNCHANGED <<displayList, groupIdList, deleteRow, items, contents>>

-----------------------------------------------------------------------------
\* Swipe to delete: commit editingStyle asks, yesAction deletes.
DeleteTap(row) ==
    /\ ListIdle
    /\ listAlert' = Present(listAlert, "deleteConfirm")
    /\ deleteRow' = row
    /\ UNCHANGED <<displayList, groupIdList, realmVars>>

DeleteNo ==
    /\ listAlert = "deleteConfirm"
    /\ listAlert' = "none"
    /\ deleteRow' = 0
    /\ UNCHANGED <<displayList, groupIdList, realmVars>>

\* Mutant: the row leaves the other array.
RemoveRowFromIds ==
    /\ groupIdList' = RemoveAt(groupIdList, deleteRow)
    /\ deleteRow' = 0
    /\ UNCHANGED displayList

\* The row leaves the screen first; groupIdList keeps its entry.
RemoveRow ==
    /\ displayList' = RemoveAt(displayList, deleteRow)
    /\ deleteRow' = 0
    /\ UNCHANGED groupIdList

DeleteYesWorks ==
    /\ listAlert = "deleteConfirm"
    /\ RemoveRow
    /\ RealmWorks
    /\ DeleteGroup(groupIdList[deleteRow])
    /\ listAlert' = "none"

DeleteYesThrows ==
    /\ listAlert = "deleteConfirm"
    /\ RemoveRow
    /\ RealmThrows
    /\ listAlert' = "deleteError"
    /\ UNCHANGED <<items, contents>>
=============================================================================
