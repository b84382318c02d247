--------------------------- MODULE NotebookProofs ---------------------------
(***************************************************************************)
(* HikakuApp implements Notebook, and tells the user the truth about his   *)
(* saves where no ad is in between, for every number of groups, failures   *)
(* and kills and both column limits.                                       *)
(***************************************************************************)
EXTENDS HikakuAppProofs

-----------------------------------------------------------------------------
(***************************************************************************)
(* Steps of the app as steps of the notebook.                              *)
(***************************************************************************)

\* The groups that the notebook has.
InBook == Range(items) \ Underway

\* A step of the notebook, or none.
BookStep == [Book!BookNext]_<<SavedBook, faults + kills>>

\* The notebook is the same when its groups and their numbers of things are.
LEMMA BookIsSame ==
    ASSUME InBook' = InBook,
           \A h \in InBook : Len(contents'[h]) = Len(contents[h])
    PROVE  SavedBook' = SavedBook
BY DEF SavedBook, InBook

\* A group is put into the notebook, or its number of things is replaced.
LEMMA BookGets ==
    ASSUME NEW g, NEW n,
           InBook' = InBook \cup {g}, Len(contents'[g]) = n,
           \A h \in InBook : h # g => Len(contents'[h]) = Len(contents[h])
    PROVE  SavedBook' = Book!Put(g, n)
BY DEF SavedBook, InBook, Book!Put

\* The groups of the notebook are stored groups.
LEMMA BookHas ==
    /\ DOMAIN SavedBook = InBook
    /\ \A g \in InBook : SavedBook[g] = Len(contents[g])
BY DEF SavedBook, InBook

\* A step without an incident that leaves the database alone, outside of a save.
LEMMA QuietBookStep ==
    ASSUME UNCHANGED <<items, contents, faults, kills>>, pc = "idle", pc' = "idle"
    PROVE  BookStep
<1>1. InBook' = InBook
  BY DEF InBook, Underway
<1>2. SavedBook' = SavedBook
  BY <1>1, BookIsSame
<1> QED
  BY <1>2 DEF BookStep

\* An incident that leaves the database alone: an insertion under way ends, and what it has
\* stored so far is in the notebook from then on.
LEMMA IncidentStep ==
    ASSUME IInv, UNCHANGED <<items, contents>>, pc' = "idle",
           faults' + kills' = faults + kills + 1
    PROVE  BookStep
<1>1. CASE pc = "idle"
  <2>1. InBook' = InBook
    BY <1>1 DEF InBook, Underway
  <2>2. SavedBook' = SavedBook
    BY <2>1, BookIsSame
  <2> QED
    BY <2>2 DEF BookStep, Book!BookNext, Book!Incident
<1>2. CASE pc = "insert"
  <2>1. TypeOK /\ EditorInv
    BY InvariantParts
  <2>2. screen = "editor"
    BY <1>2, <2>1 DEF EditorInv, EditorOpen
  <2>3. /\ groupId \in GroupIds /\ Stored(groupId)
        /\ nextCol \in 0..4 /\ nextCol < colNum /\ colNum \in 2..MaxCols
        /\ contents[groupId] = Columns(nextCol)
    BY <1>2, <2>2, InsertionState
  <2>4. Len(contents[groupId]) = nextCol
    <3>1. nextCol \in 0..5
      BY <2>3
    <3> QED
      BY <2>3, <3>1, ColumnsType
  <2>5. groupId \notin InBook /\ InBook' = InBook \cup {groupId}
    BY <1>2, <2>3 DEF InBook, Underway, Stored
  <2>6. SavedBook' = Book!Put(groupId, nextCol)
    BY <2>4, <2>5, BookGets
  <2>7. nextCol \in 0..(MaxCols - 1)
    BY <2>3, MaxColsAssumption
  <2> QED
    BY <2>3, <2>5, <2>6, <2>7, BookHas DEF BookStep, Book!BookNext, Book!Incident
<1>3. pc \in {"idle", "insert"}
  BY InvariantParts DEF TypeOK, EditorTypeOK
<1> QED
  BY <1>1, <1>2, <1>3

\* A database call that works or throws, outside of a save.
LEMMA CallStep ==
    ASSUME IInv, UNCHANGED <<items, contents, kills>>, RealmWorks \/ RealmThrows,
           pc = "idle", pc' = "idle"
    PROVE  BookStep
<1>1. faults \in Nat /\ kills \in Nat
  BY InvariantParts DEF TypeOK, RealmTypeOK
<1>2. CASE RealmWorks
  BY <1>2, QuietBookStep DEF RealmWorks
<1>3. CASE RealmThrows
  <2>1. faults' + kills' = faults + kills + 1
    BY <1>1, <1>3 DEF RealmThrows
  <2> QED
    BY <2>1, IncidentStep
<1> QED
  BY <1>2, <1>3

\* Where there is no editor in front, no save is under way.
LEMMA NoSaveOutside ==
    ASSUME IInv, screen # "editor"
    PROVE  pc = "idle"
BY InvariantParts DEF EditorInv, EditorOpen

-----------------------------------------------------------------------------
(***************************************************************************)
(* Each action.                                                            *)
(***************************************************************************)

\* What does not write to the database, outside of a save.
LEMMA ReadingSteps ==
    ASSUME IInv,
           \/ Launch \/ AddNewFails \/ SelectFails \/ DeleteTapped \/ DeleteRefused
           \/ DeleteFails \/ ListAlertDismissed \/ HowToUseBtnDidTap \/ CloseBtnDidTap
           \/ AddNewHikakuBtnDidTap \/ DidSelectRow
           \/ NameAdded \/ ItemAdded \/ SaveFails \/ SaveCrashes
           \/ AdReady \/ AdClosed \/ BackTapped \/ BackConfirmed \/ DialogDismissed
    PROVE  BookStep
<1>1. CASE \/ Launch \/ AddNewFails \/ SelectFails \/ DeleteTapped \/ DeleteRefused
           \/ DeleteFails \/ ListAlertDismissed \/ HowToUseBtnDidTap \/ CloseBtnDidTap
  <2>1. /\ UNCHANGED <<items, contents, kills, pc>>
        /\ RealmWorks \/ RealmThrows
        /\ screen # "editor"
    BY <1>1 DEF Launch, AddNewFails, SelectFails, DeleteTapped, DeleteRefused, DeleteFails,
       ListAlertDismissed, HowToUseBtnDidTap, CloseBtnDidTap, OnList, editorVars, realmVars,
       Reload, ReloadWorks, ReloadThrows, AddNewThrows, SelectThrows, DeleteTap, DeleteNo,
       DeleteYesThrows, DismissListAlert, RealmWorks
  <2> QED
    BY <2>1, NoSaveOutside, CallStep
<1>2. CASE AddNewHikakuBtnDidTap \/ DidSelectRow
  <2>1. PICK g : PresentEditor(g) /\ screen = "list"
    BY <1>2 DEF AddNewHikakuBtnDidTap, DidSelectRow
  <2>2. /\ UNCHANGED <<items, contents, kills>> /\ pc' = "idle"
        /\ RealmWorks \/ RealmThrows
    BY <2>1 DEF PresentEditor, OpenEditor, Trap, Die, EditorReleased
  <2> QED
    BY <2>1, <2>2, NoSaveOutside, CallStep
<1>3. CASE NameAdded \/ ItemAdded \/ SaveFails \/ SaveCrashes
  <2>1. /\ UNCHANGED <<items, contents, kills>> /\ pc = "idle" /\ pc' = "idle"
        /\ RealmWorks \/ RealmThrows
    BY <1>3 DEF NameAdded, ItemAdded, SaveFails, SaveCrashes, InEditor, AddNewName,
       AddNewItem, Rebuild, SaveThrows, SaveTraps, FinishSave, EditorIdle, Trap, Die,
       EditorReleased
  <2> QED
    BY <2>1, CallStep
<1>4. CASE AdReady \/ AdClosed \/ BackTapped \/ BackConfirmed \/ DialogDismissed
  <2>1. /\ UNCHANGED <<items, contents, kills>> /\ pc = "idle" /\ pc' = "idle"
        /\ RealmWorks \/ RealmThrows
    BY <1>4 DEF AdReady, AdClosed, BackTapped, BackConfirmed, DialogDismissed, InEditor,
       AdLoaded, AdDismissed, BackTap, DismissDialog, EditorIdle, EditorReleased, realmVars,
       Reload, ReloadWorks, ReloadThrows, RealmWorks
  <2> QED
    BY <2>1, CallStep
<1> QED
  BY <1>1, <1>2, <1>3, <1>4

\* The process is killed, in the middle of a save or not.
LEMMA KillBookStep ==
    ASSUME IInv, Kill
    PROVE  BookStep
<1>1. faults \in Nat /\ kills \in Nat
  BY InvariantParts DEF TypeOK, RealmTypeOK
<1>2. /\ UNCHANGED <<items, contents, faults>> /\ kills' = kills + 1
      /\ pc' = "idle"
  BY DEF Kill, Die, EditorReleased, realmVars
<1> QED
  BY <1>1, <1>2, IncidentStep

\* A confirmed deletion removes one group, whole, or one that is gone already.
LEMMA DeletionBookStep ==
    ASSUME IInv, DeleteConfirmed
    PROVE  BookStep
<1> DEFINE g == groupIdList[deleteRow]
<1>1. TypeOK /\ StoreIsWellFormed /\ ListIsFaithful
  BY InvariantParts
<1>2. /\ DeleteGroup(g) /\ UNCHANGED <<faults, kills, pc>> /\ pc = "idle"
      /\ screen = "list" /\ listAlert = "deleteConfirm" /\ RemoveRow
  BY NoSaveOutside DEF DeleteConfirmed, OnList, DeleteYesWorks, RealmWorks, editorVars
<1>3. g \in GroupIds
  <2>1. deleteRow \in DOMAIN groupIdList
    BY <1>1, <1>2, RemoveRowShortens
  <2> QED
    BY <1>1, <2>1 DEF TypeOK, ListTypeOK
<1> HIDE DEF g
<1>4. \A h : Stored(h)' <=> Stored(h) /\ h # g
  BY <1>1, <1>2, DeleteGroupProperties DEF TypeOK, RealmTypeOK, StoreIsWellFormed
<1>5. InBook = Range(items) /\ InBook' = InBook \ {g}
  BY <1>2, <1>4 DEF InBook, Underway, Stored
<1>6. \A h \in InBook \ {g} : Len(contents'[h]) = Len(contents[h])
  <2>1. \A h \in InBook : h \in GroupIds
    BY <1>1, <1>5, LenProperties DEF TypeOK, RealmTypeOK, Range
  <2> QED
    BY <1>1, <1>2, <2>1 DEF DeleteGroup, TypeOK, RealmTypeOK
<1>7. CASE g \in InBook
  <2>1. SavedBook' = [h \in InBook \ {g} |-> SavedBook[h]]
    BY <1>5, <1>6 DEF SavedBook, InBook
  <2>2. Book!Remove(g)
    BY <1>2, <1>7, <2>1, BookHas DEF Book!Remove
  <2> QED
    BY <1>3, <2>2 DEF BookStep, Book!BookNext
<1>8. CASE g \notin InBook
  <2>1. SavedBook' = SavedBook
    BY <1>5, <1>6, <1>8, BookIsSame
  <2> QED
    BY <1>2, <2>1 DEF BookStep
<1> QED
  BY <1>7, <1>8

\* An update adds the columns that are on screen and not stored yet.
LEMMA UpdateBookStep ==
    ASSUME IInv, SaveUpdates
    PROVE  BookStep
<1> DEFINE m == Len(contents[groupId])
<1>1. TypeOK /\ StoreIsWellFormed
  BY InvariantParts
<1>2. /\ screen = "editor" /\ Stored(groupId) /\ HasTwoColumns(groupId)
      /\ contents' = [contents EXCEPT ![groupId] = UpdatedColumns(@, colNum)]
      /\ UNCHANGED <<items, faults, kills>> /\ pc = "idle" /\ pc' = "idle"
      /\ groupId' = groupId
  BY DEF SaveUpdates, SaveUpdateWorks, InEditor, EditorIdle, RealmWorks, FinishSave
<1>3. /\ groupId \in GroupIds /\ colNum \in 2..MaxCols /\ colNum \in 2..5
      /\ m \in 2..colNum /\ contents[groupId] = Columns(m)
  <2>1. m >= 2
    BY <1>2, TwoColumns
  <2> QED
    BY <1>2, <2>1, EditedGroup
<1> HIDE DEF m
<1>4. UpdatedColumns(contents[groupId], colNum) = Columns(colNum)
  BY <1>3, UpdatedColumnsFill
<1>5. /\ \A h \in GroupIds : h # groupId => contents'[h] = contents[h]
      /\ contents'[groupId] = Columns(colNum)
  BY <1>1, <1>2, <1>3, <1>4 DEF TypeOK, RealmTypeOK
<1>6. Len(contents'[groupId]) = colNum
  <2>1. colNum \in 0..5
    BY <1>3
  <2> QED
    BY <1>5, <2>1, ColumnsType
<1>7. groupId \in InBook /\ InBook' = InBook /\ \A h \in InBook : h \in GroupIds
  BY <1>1, <1>2, LenProperties DEF InBook, Underway, Stored, TypeOK, RealmTypeOK, Range
<1>8. SavedBook' = Book!Put(groupId, colNum)
  BY <1>5, <1>6, <1>7, BookGets
<1>9. CASE m = colNum
  <2>1. SavedBook' = SavedBook
    BY <1>5, <1>6, <1>7, <1>9, BookIsSame DEF m
  <2> QED
    BY <1>2, <2>1 DEF BookStep
<1>10. CASE m < colNum
  <2>1. Book!Grow(groupId, colNum)
    BY <1>2, <1>3, <1>7, <1>8, <1>10, BookHas DEF Book!Grow, m
  <2> QED
    BY <1>3, <2>1 DEF BookStep, Book!BookNext
<1> QED
  BY <1>3, <1>9, <1>10

\* The item of a new group is not in the notebook before its columns are.
LEMMA InsertBookStep ==
    ASSUME IInv, SaveInserts
    PROVE  BookStep
<1>1. /\ items' = Append(items, groupId) /\ ~Stored(groupId)
      /\ UNCHANGED <<contents, faults, kills, groupId>>
      /\ pc = "idle" /\ pc' = "insert" /\ screen = "editor"
  BY DEF SaveInserts, SaveInsertItem, InEditor, EditorIdle, RealmWorks, AddItem
<1>2. items \in Seq(GroupIds) /\ groupId \in GroupIds
  BY <1>1, InvariantParts, EditedGroup DEF TypeOK, RealmTypeOK
<1>3. Range(items') = Range(items) \cup {groupId}
  <2> DEFINE n == Len(items)
  <2>1. /\ n \in Nat /\ DOMAIN items = 1..n /\ DOMAIN items' = 1..(n + 1)
        /\ \A k \in 1..(n + 1) : items'[k] = IF k <= n THEN items[k] ELSE groupId
    BY <1>1, <1>2, AppendProperties, LenProperties
  <2> HIDE DEF n
  <2>2. ASSUME NEW h \in Range(items') PROVE h \in Range(items) \cup {groupId}
    BY <2>1 DEF Range
  <2>3. ASSUME NEW h \in Range(items) PROVE h \in Range(items')
    <3>1. PICK k \in 1..n : items[k] = h
      BY <2>1 DEF Range
    <3>2. k \in DOMAIN items' /\ items'[k] = h
      BY <2>1, <3>1
    <3> QED
      BY <3>2 DEF Range
  <2>4. groupId \in Range(items')
    <3>1. n + 1 \in DOMAIN items' /\ items'[n + 1] = groupId
      BY <2>1
    <3> QED
      BY <3>1 DEF Range
  <2> QED
    BY <2>2, <2>3, <2>4
<1>4. InBook' = InBook
  BY <1>1, <1>3 DEF InBook, Underway, Stored
<1>5. SavedBook' = SavedBook
  BY <1>1, <1>4, BookIsSame
<1> QED
  BY <1>1, <1>5 DEF BookStep

\* The last column of an insertion puts the group into the notebook, whole.
LEMMA ColumnBookStep ==
    ASSUME IInv, SaveInsertsColumn
    PROVE  BookStep
<1>1. /\ screen = "editor" /\ pc = "insert"
      /\ contents' = [contents EXCEPT ![groupId] = Append(@, nextCol)]
      /\ UNCHANGED <<items, faults, kills, groupId>>
      /\ \/ nextCol + 1 < colNum /\ pc' = "insert"
         \/ ~(nextCol + 1 < colNum) /\ pc' = "idle"
  BY DEF SaveInsertsColumn, SaveInsertColumn, InEditor, RealmWorks, AddColumn, FinishSave
<1>2. TypeOK
  BY InvariantParts
<1>3. /\ groupId \in GroupIds /\ Stored(groupId)
      /\ nextCol \in 0..4 /\ nextCol < colNum /\ colNum \in 2..MaxCols
      /\ contents[groupId] = Columns(nextCol)
  BY <1>1, InsertionState
<1>4. /\ \A h \in GroupIds : h # groupId => contents'[h] = contents[h]
      /\ contents'[groupId] = Columns(nextCol + 1)
  BY <1>1, <1>2, <1>3, ColumnsAppend DEF TypeOK, RealmTypeOK
<1>5. groupId \notin InBook /\ \A h \in InBook : h \in GroupIds
  BY <1>1, <1>2, LenProperties DEF InBook, Underway, TypeOK, RealmTypeOK, Range
<1>6. CASE nextCol + 1 < colNum /\ pc' = "insert"
  <2>1. InBook' = InBook
    BY <1>1, <1>6 DEF InBook, Underway
  <2>2. SavedBook' = SavedBook
    BY <1>4, <1>5, <2>1, BookIsSame
  <2> QED
    BY <1>1, <2>2 DEF BookStep
<1>7. CASE ~(nextCol + 1 < colNum) /\ pc' = "idle"
  <2>1. nextCol + 1 = colNum /\ nextCol + 1 \in 0..5
    BY <1>3, <1>7, MaxColsAssumption
  <2>2. Len(contents'[groupId]) = colNum
    BY <1>4, <2>1, ColumnsType
  <2>3. InBook' = InBook \cup {groupId}
    BY <1>1, <1>3, <1>7 DEF InBook, Underway, Stored
  <2>4. SavedBook' = Book!Put(groupId, colNum)
    BY <1>4, <1>5, <2>2, <2>3, BookGets
  <2>5. Book!Create(groupId, colNum)
    BY <1>1, <1>5, <2>4, BookHas DEF Book!Create
  <2> QED
    BY <1>3, <2>5 DEF BookStep, Book!BookNext
<1> QED
  BY <1>1, <1>6, <1>7

\* An insertion that fails leaves the columns it has stored so far.
LEMMA InsertFailsBookStep ==
    ASSUME IInv, SaveInsertFails
    PROVE  BookStep
<1>1. faults \in Nat /\ kills \in Nat
  BY InvariantParts DEF TypeOK, RealmTypeOK
<1>2. /\ UNCHANGED <<items, contents, kills>> /\ faults' = faults + 1 /\ pc' = "idle"
  BY DEF SaveInsertFails, SaveInsertColumnThrows, InEditor, RealmThrows, FinishSave
<1> QED
  BY <1>1, <1>2, IncidentStep

\* Every step of the app is a step of the notebook or none.
LEMMA NextBookStep == IInv /\ [Next]_vars => BookStep
<1> SUFFICES ASSUME IInv, [Next]_vars PROVE BookStep
  OBVIOUS
<1>1. CASE \/ Launch \/ AddNewFails \/ SelectFails \/ DeleteTapped \/ DeleteRefused
           \/ DeleteFails \/ ListAlertDismissed \/ HowToUseBtnDidTap \/ CloseBtnDidTap
           \/ AddNewHikakuBtnDidTap \/ DidSelectRow
           \/ NameAdded \/ ItemAdded \/ SaveFails \/ SaveCrashes
           \/ AdReady \/ AdClosed \/ BackTapped \/ BackConfirmed \/ DialogDismissed
  BY <1>1, ReadingSteps
<1>2. CASE Kill \/ DeleteConfirmed
  BY <1>2, KillBookStep, DeletionBookStep
<1>3. CASE SaveUpdates \/ SaveInserts \/ InsertStep
  BY <1>3, UpdateBookStep, InsertBookStep, ColumnBookStep, InsertFailsBookStep
     DEF InsertStep
<1>4. CASE UNCHANGED vars
  <2>1. InBook' = InBook
    BY <1>4 DEF vars, realmVars, editorVars, InBook, Underway
  <2>2. SavedBook' = SavedBook
    BY <1>4, <2>1, BookIsSame DEF vars, realmVars
  <2> QED
    BY <1>4, <2>2 DEF BookStep, vars, realmVars
<1> QED
  BY <1>1, <1>2, <1>3, <1>4 DEF Next, ListNext, EditorNext

\* The notebook starts empty.
LEMMA InitBook == Init => Book!BookInit
<1> SUFFICES ASSUME Init PROVE Book!BookInit
  OBVIOUS
<1>1. Range(items) = {}
  BY EmptySeq DEF Init, RealmInit, Range
<1>2. SavedBook = [g \in {} |-> 0]
  BY <1>1 DEF SavedBook
<1> QED
  BY <1>2 DEF Init, RealmInit, Book!BookInit

\* Saved groups appear whole, only grow, and go only when the user deletes them; only an
\* incident leaves an incomplete one: saveData's transactions and yesAction's, with any
\* number of failures and kills between them, implement the notebook.
THEOREM AppImplementsNotebook == Spec => ImplementsNotebook
<1>1. Init => Book!BookInit
  BY InitBook
<1>2. IInv /\ [Next]_vars => [Book!BookNext]_<<SavedBook, faults + kills>>
  BY NextBookStep DEF BookStep
<1> QED
  BY <1>1, <1>2, InvariantHolds, PTL DEF Spec, ImplementsNotebook, Book!BookSpec

-----------------------------------------------------------------------------
(***************************************************************************)
(* What the user is told.                                                  *)
(***************************************************************************)

\* A message that appears is that of the save, unless an ad was in front.
TellsTheTruth ==
    presented # presented' /\ presented # "ad"
    => /\ presented' = "saved" => lastSave' = "ok"
       /\ presented' = "saveError" => lastSave' = "failed"

\* The end of a save presents one message, its own, or leaves the ad.
LEMMA FinishSaveTells ==
    ASSUME NEW p \in {"none", "ad"}, NEW ok \in BOOLEAN, FinishSave(p, ok)
    PROVE  TellsTheTruth
BY AfterMessagesType DEF FinishSave, TellsTheTruth

\* Every step tells the truth.
LEMMA NextTells == IInv /\ [Next]_vars => TellsTheTruth
<1> SUFFICES ASSUME IInv, [Next]_vars PROVE TellsTheTruth
  OBVIOUS
<1>1. CASE UNCHANGED editorVars
  BY <1>1 DEF TellsTheTruth, editorVars
<1>2. CASE presented' \in {"none", "ad", "resetWarning", "loadError", presented}
  BY <1>2 DEF TellsTheTruth
<1>3. CASE Launch \/ ListNext \/ CloseBtnDidTap \/ Kill \/ UNCHANGED vars
  <2>1. UNCHANGED editorVars \/ presented' = "none"
    BY <1>3 DEF Launch, ListNext, CloseBtnDidTap, Kill, vars, Die, EditorReleased, OnList,
       AddNewHikakuBtnDidTap, AddNewFails, DidSelectRow, SelectFails, DeleteTapped,
       DeleteRefused, DeleteConfirmed, DeleteFails, ListAlertDismissed, HowToUseBtnDidTap,
       PresentEditor, OpenEditor, Trap
  <2> QED
    BY <2>1, <1>1, <1>2
<1>4. CASE NameAdded \/ ItemAdded \/ SaveInserts \/ SaveCrashes \/ AdReady \/ BackTapped
           \/ BackConfirmed \/ DialogDismissed
  <2>1. presented' \in {"none", "ad", "resetWarning", "loadError", presented}
    BY <1>4 DEF NameAdded, ItemAdded, AddNewName, AddNewItem, Rebuild, EditorIdle,
       PresentFromViewDidLoad, Present, SaveInserts, SaveInsertItem, AfterDisplayAd,
       SaveCrashes, Trap, Die, EditorReleased, AdReady, AdLoaded, BackTapped, BackTap,
       BackConfirmed, DialogDismissed, DismissDialog, InEditor
  <2> QED
    BY <2>1, <1>2
<1>5. CASE AdClosed
  BY <1>5 DEF AdClosed, AdDismissed, TellsTheTruth
<1>6. CASE SaveUpdates \/ SaveFails
  <2>1. AfterDisplayAd \in {"none", "ad"}
    BY <1>6 DEF SaveUpdates, SaveUpdateWorks, SaveFails, SaveThrows, EditorIdle,
       AfterDisplayAd
  <2>2. FinishSave(AfterDisplayAd, TRUE) \/ FinishSave(AfterDisplayAd, FALSE)
    BY <1>6 DEF SaveUpdates, SaveUpdateWorks, SaveFails, SaveThrows
  <2> QED
    BY <2>1, <2>2, FinishSaveTells
<1>7. CASE InsertStep
  <2>1. screen = "editor" /\ pc = "insert"
    BY <1>7 DEF InsertStep, SaveInsertsColumn, SaveInsertFails, InEditor, SaveInsertColumn,
       SaveInsertColumnThrows
  <2>2. presented \in {"none", "ad"}
    BY <2>1, InsertionState
  <2>3. \/ UNCHANGED presented
        \/ FinishSave(presented, TRUE) \/ FinishSave(presented, FALSE)
    BY <1>7 DEF InsertStep, SaveInsertsColumn, SaveInsertFails, SaveInsertColumn,
       SaveInsertColumnThrows
  <2> QED
    BY <2>2, <2>3, <1>2, FinishSaveTells
<1> QED
  BY <1>3, <1>4, <1>5, <1>6, <1>7 DEF Next, EditorNext

\* However many messages a save presents, the one that is seen tells its outcome, but for
\* the one that follows an ad.
THEOREM AnswersAreTrue == Spec => AnswersWithoutAdAreTrue
<1>1. IInv /\ [Next]_vars =>
        [presented # presented' /\ presented # "ad"
         => /\ presented' = "saved" => lastSave' = "ok"
            /\ presented' = "saveError" => lastSave' = "failed"]_vars
  BY NextTells DEF TellsTheTruth
<1> QED
  BY <1>1, InvariantHolds, PTL DEF Spec, AnswersWithoutAdAreTrue
=============================================================================
