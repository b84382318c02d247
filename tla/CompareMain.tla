---------------------------- MODULE CompareMain -----------------------------
(***************************************************************************)
(* The editor of one comparison (CompareMainVC): its columns, its save     *)
(* button with the interstitial ad and the dialogs, and what saving writes *)
(* to the database.  All handlers run on the main thread; a save that      *)
(* inserts a new group commits several transactions one after the other,   *)
(* and the process may die between two of them, so each is a step (pc).    *)
(*                                                                         *)
(* The rows of the comparison and the texts of its cells are in module     *)
(* CompareCells.  The ad SDK is external: an ad that is ready is presented *)
(* synchronously, lives until it is closed, and tells its delegate then.   *)
(***************************************************************************)
EXTENDS CompareRealm, Presentation

VARIABLES
    groupId,        \* the group being edited, -1 without an editor
    colNum,         \* columns on screen
    pc,             \* "idle", or "insert" inside saveData's insertion loop
    nextCol,        \* the loop variable col of that loop
    interstitial,   \* the ad object: "loading", "ready" or "spent"
    presented,      \* what the controller presents
    lastSave,       \* outcome of the last save (observed, not in the code)
    answered        \* the user has been told of it (observed)

editorVars == <<groupId, colNum, pc, nextCol, interstitial, presented,
                lastSave, answered>>

Dialogs == {"none", "ad", "saved", "saveError", "resetWarning", "loadError"}

EditorTypeOK ==
    /\ groupId \in GroupIds \cup {-1}
    /\ colNum \in 2..MaxCols
    /\ pc \in {"idle", "insert"}
    /\ nextCol \in ColumnIds
    /\ interstitial \in {"none", "loading", "ready", "spent"}
    /\ presented \in Dialogs
    /\ lastSave \in {"none", "ok", "failed"}
    /\ answered \in BOOLEAN

\* No editor: the values its properties are declared with.
EditorGone ==
    /\ groupId = -1
    /\ colNum = 2
    /\ pc = "idle"
    /\ nextCol = 0
    /\ interstitial = "none"
    /\ presented = "none"
    /\ lastSave = "none"
    /\ answered = TRUE

EditorReleased ==
    /\ groupId' = -1
    /\ colNum' = 2
    /\ pc' = "idle"
    /\ nextCol' = 0
    /\ interstitial' = "none"
    /\ presented' = "none"
    /\ lastSave' = "none"
    /\ answered' = TRUE

-----------------------------------------------------------------------------
\* viewDidLoad.

\* Mutant: the last id is taken for a number of columns.
LoadedColNumByLastId(n, cols) ==
    IF Len(cols) > 1 /\ Last(cols) > n THEN Len(cols) ELSE n

\* colNum after the columns cols of the group have been read.
LoadedColNum(n, cols) ==
    IF Len(cols) > 1 /\ Last(cols) + 1 > n THEN Len(cols) ELSE n

\* contents.filter("id = 1").first?.name.count)! once there are two columns.
LoadTraps(cols) == Len(cols) >= 2 /\ 1 \notin Range(cols)

OpenEditor(g) ==
    /\ groupId' = g
    /\ colNum' = LoadedColNum(2, contents[g])
    /\ pc' = "idle"
    /\ nextCol' = 0
    /\ interstitial' = "loading"
    /\ presented' = "none"
    /\ lastSave' = "none"
    /\ answered' = TRUE

\* The editor takes touches when no handler runs and nothing is presented.
EditorIdle == pc = "idle" /\ presented = "none"

-----------------------------------------------------------------------------
\* addNewNameBtnDidTap and addNewItemBtnDidTap rebuild the view; the button
\* for a new column is there while the device can show one more.  (The limit
\* of the rows depends on the cells: module CompareCells.)
Rebuild(cols) ==
    /\ EditorIdle
    /\ interstitial' = "loading"
    /\ \/ /\ RealmWorks
          /\ presented' = presented
          /\ colNum' = LoadedColNum(cols, contents[groupId])
       \/ /\ RealmThrows
          /\ presented' \in PresentFromViewDidLoad(presented, "loadError")
          /\ colNum' = cols
    /\ UNCHANGED <<items, contents, groupId, pc, nextCol, lastSave, answered>>

\* Mutant: the button for a new column never goes away.
AddNewNameWithoutLimit == Rebuild(colNum + 1)

AddNewName == colNum < MaxCols /\ Rebuild(colNum + 1)

AddNewItem == Rebuild(colNum)

-----------------------------------------------------------------------------
\* saveBtnDidTap: displayAd, then (defer) saveData and its message, then the
\* catch of displayAd's error, then viewDidLoad, which asks for the next ad.

\* What is presented once displayAd has returned or thrown.
AfterDisplayAd == IF interstitial = "ready" THEN "ad" ELSE presented

\* Mutant: the message of the catch comes first.
AfterMessagesCatchFirst(p, ok) ==
    IF p = "ad" THEN p ELSE Present(p, "saveError")

\* ... and after the messages of the defer block and of the catch.
AfterMessages(p, ok) ==
    LET told == Present(p, IF ok THEN "saved" ELSE "saveError")
    IN  IF p = "ad" THEN told ELSE Present(told, "saveError")

\* The rest of saveBtnDidTap once saveData is over.  A viewDidLoad that fails
\* here changes nothing more: the old results stay, its alert is dropped.
FinishSave(p, ok) ==
    /\ presented' = AfterMessages(p, ok)
    /\ colNum' = LoadedColNum(colNum, contents'[groupId])
    /\ interstitial' = "loading"
    /\ pc' = "idle"
    /\ nextCol' = 0
    /\ lastSave' = IF ok THEN "ok" ELSE "failed"
    /\ answered' = (presented' # "ad")
    /\ UNCHANGED groupId

\* Mutant: a column on screen is added though it is stored.
AddMissingAlways(cols, id, n) == IF n > id THEN Append(cols, id) ELSE cols

\* saveData, groupId in use: one transaction.  It updates the item and the
\* columns, and adds columns 2, 3 and 4 where they are on screen but missing.
AddMissing(cols, id, n) ==
    IF n > id /\ id \notin Range(cols) THEN Append(cols, id) ELSE cols

\* Mutant: only column 2 is added.
UpdatedColumnsUpTo2(cols, n) == AddMissing(cols, 2, n)

UpdatedColumns(cols, n) ==
    AddMissing(AddMissing(AddMissing(cols, 2, n), 3, n), 4, n)

\* updateContent_1! and updateContent_2! are not nil.
HasTwoColumns(g) == {0, 1} \subseteq Range(contents[g])

SaveUpdateWorks ==
    /\ EditorIdle
    /\ Stored(groupId)
    /\ HasTwoColumns(groupId)
    /\ RealmWorks
    /\ contents' = [contents EXCEPT ![groupId] = UpdatedColumns(@, colNum)]
    /\ FinishSave(AfterDisplayAd, TRUE)
    /\ UNCHANGED items

SaveThrows ==
    /\ EditorIdle
    /\ RealmThrows
    /\ UNCHANGED <<items, contents>>
    /\ FinishSave(AfterDisplayAd, FALSE)

\* The unwrapping inside the transaction kills the process.
SaveTraps ==
    /\ EditorIdle
    /\ Stored(groupId)
    /\ ~HasTwoColumns(groupId)
    /\ RealmWorks
    /\ UNCHANGED <<items, contents>>

\* Mutant: a group in use is inserted again.
SaveInsertItemAgain ==
    /\ EditorIdle
    /\ RealmWorks
    /\ AddItem(groupId)
    /\ pc' = "insert"
    /\ nextCol' = 0
    /\ presented' = AfterDisplayAd
    /\ UNCHANGED <<groupId, colNum, interstitial, lastSave, answered>>

\* Mutant: the loop starts at column 1.
SaveInsertItemFromColumn1 ==
    /\ EditorIdle
    /\ ~Stored(groupId)
    /\ RealmWorks
    /\ AddItem(groupId)
    /\ pc' = "insert"
    /\ nextCol' = 1
    /\ presented' = AfterDisplayAd
    /\ UNCHANGED <<groupId, colNum, interstitial, lastSave, answered>>

\* saveData, groupId not in use: a transaction for the item, ...
SaveInsertItem ==
    /\ EditorIdle
    /\ ~Stored(groupId)
    /\ RealmWorks
    /\ AddItem(groupId)
    /\ pc' = "insert"
    /\ nextCol' = 0
    /\ presented' = AfterDisplayAd
    /\ interstitial' = IF interstitial = "ready" THEN "spent" ELSE interstitial
    /\ answered' = FALSE
    /\ UNCHANGED <<groupId, colNum, lastSave>>

\* Mutant: the last column on screen is left out.
SaveInsertColumnButLast ==
    /\ pc = "insert"
    /\ RealmWorks
    /\ AddColumn(groupId, nextCol)
    /\ IF nextCol + 2 < colNum
       THEN /\ nextCol' = nextCol + 1
            /\ UNCHANGED <<groupId, colNum, pc, interstitial, presented,
                           lastSave, answered>>
       ELSE FinishSave(presented, TRUE)

\* ... then one for each column on screen.
SaveInsertColumn ==
    /\ pc = "insert"
    /\ RealmWorks
    /\ AddColumn(groupId, nextCol)
    /\ IF nextCol + 1 < colNum
       THEN /\ nextCol' = nextCol + 1
            /\ UNCHANGED <<groupId, colNum, pc, interstitial, presented,
                           lastSave, answered>>
       ELSE FinishSave(presented, TRUE)

SaveInsertColumnThrows ==
    /\ pc = "insert"
    /\ RealmThrows
    /\ UNCHANGED <<items, contents>>
    /\ FinishSave(presented, FALSE)

-----------------------------------------------------------------------------
\* What the SDK and the user do with ads, dialogs and the back button.

AdLoaded ==
    /\ pc = "idle"
    /\ interstitial = "loading"
    /\ interstitial' = "ready"
    /\ UNCHANGED <<realmVars, groupId, colNum, pc, nextCol, presented,
                   lastSave, answered>>

\* Mutant: the message that the ad kept away is not made up for.
AdDismissedSilently ==
    /\ pc = "idle"
    /\ presented = "ad"
    /\ presented' = "none"
    /\ UNCHANGED <<realmVars, groupId, colNum, pc, nextCol, interstitial,
                   lastSave, answered>>

\* interstitialDidDismissScreen
AdDismissed ==
    /\ pc = "idle"
    /\ presented = "ad"
    /\ presented' = "saved"
    /\ answered' = TRUE
    /\ UNCHANGED <<realmVars, groupId, colNum, pc, nextCol, interstitial,
                   lastSave>>

BackTap ==
    /\ EditorIdle
    /\ presented' = Present(presented, "resetWarning")
    /\ UNCHANGED <<realmVars, groupId, colNum, pc, nextCol, interstitial,
                   lastSave, answered>>

\* OK on a message, No on the warning of the back button.
DismissDialog ==
    /\ pc = "idle"
    /\ presented \notin {"none", "ad"}
    /\ presented' = "none"
    /\ UNCHANGED <<realmVars, groupId, colNum, pc, nextCol, interstitial,
                   lastSave, answered>>
=============================================================================
