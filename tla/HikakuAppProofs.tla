-------------------------- MODULE HikakuAppProofs ---------------------------
(***************************************************************************)
(* The invariants of HikakuApp, for every number of groups, failures and   *)
(* kills and both column limits.                                           *)
(***************************************************************************)
EXTENDS HikakuApp, SequenceTheorems, WellFoundedInduction, TLAPS

USE MaxGroupIdAssumption, MaxColsAssumption, MaxFaultsAssumption,
    MaxKillsAssumption

-----------------------------------------------------------------------------
(***************************************************************************)
(* The sequences that stand for the rows of the database.                  *)
(***************************************************************************)

\* What removing one row leaves: the rows before it, and those after it one
\* place up (the swiped row of the table, the deleted item).
LEMMA RemoveAtProperties ==
    ASSUME NEW S, NEW s \in Seq(S), NEW i \in 1..Len(s)
    PROVE  /\ RemoveAt(s, i) \in Seq(S)
           /\ Len(RemoveAt(s, i)) = Len(s) - 1
           /\ \A k \in 1..(Len(s) - 1) :
                 RemoveAt(s, i)[k] = IF k < i THEN s[k] ELSE s[k + 1]
<1> DEFINE a == SubSeq(s, 1, i - 1)
           b == SubSeq(s, i + 1, Len(s))
<1>1. a \in Seq(S) /\ Len(a) = i - 1 /\ \A k \in 1..(i - 1) : a[k] = s[k]
  OBVIOUS
<1>2. /\ b \in Seq(S)
      /\ Len(b) = Len(s) - i
      /\ \A k \in 1..(Len(s) - i) : b[k] = s[i + k]
  OBVIOUS
<1> HIDE DEF a, b
<1>3. /\ a \o b \in Seq(S)
      /\ Len(a \o b) = Len(s) - 1
      /\ \A k \in 1..(Len(s) - 1) :
            (a \o b)[k] = IF k < i THEN s[k] ELSE s[k + 1]
  <2>1. /\ a \o b \in Seq(S)
        /\ Len(a \o b) = Len(a) + Len(b)
        /\ \A k \in 1..(Len(a) + Len(b)) :
              (a \o b)[k] = IF k <= Len(a) THEN a[k] ELSE b[k - Len(a)]
    BY <1>1, <1>2, ConcatProperties
  <2> QED
    BY <2>1, <1>1, <1>2
<1> QED
  BY <1>3 DEF RemoveAt, a, b

\* A new group's id is above every stored one: getMaxGroupId finds a maximum.
LEMMA MaxGroupIdProperties ==
    ASSUME items \in Seq(GroupIds)
    PROVE  /\ getMaxGroupId \in 0..MaxGroupId
           /\ \A i \in DOMAIN items : items[i] <= getMaxGroupId
<1>1. CASE items = <<>>
  BY <1>1, MaxGroupIdAssumption DEF getMaxGroupId
<1>2. CASE items # <<>>
  <2> DEFINE S == Range(items)
             U == {m \in Nat : \A x \in S : x <= m}
  <2>1. S \subseteq GroupIds /\ S # {}
    <3>1. DOMAIN items = 1..Len(items) /\ Len(items) # 0
      BY <1>2, EmptySeq, LenProperties
    <3>2. \A k \in 1..Len(items) : items[k] \in GroupIds
      BY ElementOfSeq
    <3> QED
      BY <3>1, <3>2, LenProperties DEF Range
  <2>2. MaxGroupId \in U
    BY <2>1, MaxGroupIdAssumption DEF GroupIds
  <2>u. U \subseteq Nat
    OBVIOUS
  <2> DEFINE R == OpToRel(<, Nat)
  <2>r. R = {ss \in Nat \X Nat : ss[1] < ss[2]}
    BY Zenon DEF OpToRel
  <2>w. IsWellFoundedOn(R, Nat)
    BY NatLessThanWellFounded, Zenon
  <2> HIDE DEF R
  <2>3. PICK m \in U : \A n \in U : <<n, m>> \notin R
    BY <2>2, <2>w, WFMin
  <2>4. \A n \in U : m <= n
    <3> HIDE DEF U
    <3>1. SUFFICES ASSUME NEW n \in U, ~(m <= n) PROVE FALSE
      OBVIOUS
    <3>2. <<n, m>> \in Nat \X Nat
      BY <2>u
    <3>3. <<n, m>>[1] < <<n, m>>[2]
      BY <3>1, <2>u
    <3>4. <<n, m>> \in R
      BY <2>r, <3>2, <3>3, Zenon
    <3> QED
      BY <2>3, <3>4, Zenon
  <2>5. m \in S
    <3>1. SUFFICES ASSUME m \notin S PROVE FALSE
      OBVIOUS
    <3>2. m >= 1 /\ \A x \in S : x <= m - 1
      BY <2>1, <3>1 DEF GroupIds
    <3> QED
      BY <3>2, <2>4
  <2>6. \E x \in S : \A y \in S : x >= y
    BY <2>1, <2>5 DEF GroupIds
  <2> DEFINE M == Max(S)
  <2>7. M \in S /\ \A y \in S : M >= y
    BY <2>6 DEF Max
  <2> HIDE DEF S, M
  <2>8. getMaxGroupId = M
    BY <1>2 DEF getMaxGroupId, S, M
  <2>9. \A i \in DOMAIN items : items[i] \in S
    BY DEF Range, S
  <2>10. getMaxGroupId \in GroupIds
    BY <2>1, <2>7, <2>8
  <2>11. \A i \in DOMAIN items : items[i] <= getMaxGroupId
    BY <2>1, <2>7, <2>8, <2>9 DEF GroupIds
  <2> QED
    BY <2>10, <2>11 DEF GroupIds
<1> QED
  BY <1>1, <1>2

-----------------------------------------------------------------------------
(***************************************************************************)
(* The columns 0, 1, ..., n - 1 under what the editor does with them.      *)
(***************************************************************************)

\* A prefix of the columns is a sequence of column ids.
LEMMA ColumnsType ==
    ASSUME NEW n \in 0..5
    PROVE  /\ Columns(n) \in Seq(ColumnIds)
           /\ Len(Columns(n)) = n
           /\ \A k \in 1..n : Columns(n)[k] = k - 1
BY DEF Columns, ColumnIds

\* Inserting the next column (realm.add with id col) extends the prefix.
LEMMA ColumnsAppend ==
    ASSUME NEW n \in 0..4
    PROVE  Append(Columns(n), n) = Columns(n + 1)
<1>0. n \in 0..5 /\ n + 1 \in 0..5 /\ n \in ColumnIds
  BY DEF ColumnIds
<1>1. /\ Columns(n) \in Seq(ColumnIds) /\ Len(Columns(n)) = n
      /\ Columns(n + 1) \in Seq(ColumnIds) /\ Len(Columns(n + 1)) = n + 1
      /\ \A k \in 1..n : Columns(n)[k] = k - 1
      /\ \A k \in 1..(n + 1) : Columns(n + 1)[k] = k - 1
  BY <1>0, ColumnsType
<1>2. /\ Append(Columns(n), n) \in Seq(ColumnIds)
      /\ Len(Append(Columns(n), n)) = n + 1
      /\ \A k \in 1..(n + 1) :
            Append(Columns(n), n)[k] = IF k <= n THEN Columns(n)[k] ELSE n
  BY <1>0, <1>1, AppendProperties
<1>3. \A k \in 1..(n + 1) : Append(Columns(n), n)[k] = Columns(n + 1)[k]
  BY <1>1, <1>2
<1> QED
  BY <1>1, <1>2, <1>3, SeqEqual

\* The ids in a prefix are those below its length.
LEMMA ColumnsRange ==
    ASSUME NEW n \in 0..5, NEW id \in Nat
    PROVE  id \in Range(Columns(n)) <=> id < n
<1>1. DOMAIN Columns(n) = 1..n /\ \A k \in 1..n : Columns(n)[k] = k - 1
  BY DEF Columns
<1>2. ASSUME id < n PROVE id \in Range(Columns(n))
  <2>1. id + 1 \in DOMAIN Columns(n) /\ Columns(n)[id + 1] = id
    BY <1>1, <1>2
  <2> QED
    BY <2>1 DEF Range
<1>3. ASSUME id \in Range(Columns(n)) PROVE id < n
  BY <1>1, <1>3 DEF Range
<1> QED
  BY <1>2, <1>3

\* saveData's update fills the columns up to those on screen.
LEMMA UpdatedColumnsFill ==
    ASSUME NEW n \in 2..5, NEW m \in 2..n
    PROVE  UpdatedColumns(Columns(m), n) = Columns(n)
<1>1. ASSUME NEW l \in 2..5, NEW id \in 2..4, n > id => id <= l
      PROVE  AddMissing(Columns(l), id, n)
                = Columns(IF n > id /\ l = id THEN id + 1 ELSE l)
  <2>1. id \in Range(Columns(l)) <=> id < l
    BY ColumnsRange
  <2>2. Append(Columns(id), id) = Columns(id + 1)
    BY ColumnsAppend
  <2>3. CASE n > id /\ l = id
    <3>1. id \notin Range(Columns(l))
      BY <2>1, <2>3
    <3>2. AddMissing(Columns(l), id, n) = Append(Columns(l), id)
      BY <2>3, <3>1, Zenon DEF AddMissing
    <3> QED
      BY <2>2, <2>3, <3>2
  <2>4. CASE ~(n > id /\ l = id)
    <3>1. ~(n > id /\ ~(id < l))
      BY <1>1, <2>4
    <3> QED
      BY <2>1, <2>4, <3>1 DEF AddMissing
  <2> QED
    BY <2>3, <2>4
<1> DEFINE p == IF n > 2 /\ m = 2 THEN 3 ELSE m
           q == IF n > 3 /\ p = 3 THEN 4 ELSE p
           r == IF n > 4 /\ q = 4 THEN 5 ELSE q
<1>2. /\ p \in 2..5 /\ (n > 3 => 3 <= p)
      /\ q \in 2..5 /\ (n > 4 => 4 <= q)
      /\ r = n
  OBVIOUS
<1>3. AddMissing(Columns(m), 2, n) = Columns(p)
  BY <1>1
<1> HIDE DEF p
<1>4. AddMissing(Columns(p), 3, n) = Columns(q)
  BY <1>1, <1>2
<1> HIDE DEF q
<1>5. AddMissing(Columns(q), 4, n) = Columns(r)
  BY <1>1, <1>2
<1> QED
  BY <1>2, <1>3, <1>4, <1>5 DEF UpdatedColumns

\* viewDidLoad shows the stored columns, and never fewer than it had.
LEMMA LoadedColNumOfColumns ==
    ASSUME NEW n \in 2..5, NEW m \in 0..5
    PROVE  LoadedColNum(n, Columns(m)) = IF m > n THEN m ELSE n
<1>1. Len(Columns(m)) = m
  BY ColumnsType
<1>2. CASE m > 1
  <2>1. Columns(m)[m] = m - 1
    <3>1. m \in 1..m
      BY <1>2
    <3> QED
      BY <3>1, ColumnsType
  <2> QED
    BY <1>1, <2>1 DEF LoadedColNum, Last
<1>3. CASE ~(m > 1)
  BY <1>1, <1>3 DEF LoadedColNum
<1> QED
  BY <1>2, <1>3

-----------------------------------------------------------------------------
(***************************************************************************)
(* The inductive invariant, in three parts: what it says of the database,  *)
(* of the editor, and of the list.                                         *)
(***************************************************************************)
EditorInv ==
    /\ EditorOpen
    /\ EditorShowsAllColumns
    /\ InsertionProgress
    /\ TornOnlyAfterIncidents
    /\ TrapsOnlyAfterIncidents
    /\ SavedMeansComplete
    /\ AnswerPendingUnderAd

\* The parts make up the invariant.
LEMMA InvariantParts ==
    IInv <=> TypeOK /\ StoreIsWellFormed /\ EditorInv /\ ListIsFaithful
BY DEF IInv, StoreIsWellFormed, EditorInv, ListIsFaithful

\* The app starts with an empty database and no screen.
LEMMA InitInvariant == Init => IInv
<1> SUFFICES ASSUME Init PROVE IInv
  OBVIOUS
<1> USE DEF Init, RealmInit, ListGone, EditorGone
<1>1. TypeOK
  BY DEF TypeOK, RealmTypeOK, ListTypeOK, EditorTypeOK, GroupIds, ColumnIds,
         ListAlerts, Dialogs
<1>2. StoreIsWellFormed
  <2>1. Columns(0) = <<>>
    BY ColumnsType, EmptySeq
  <2> QED
    BY <2>1 DEF StoreIsWellFormed, UniqueGroups, ColumnsArePrefix, NoOrphanColumns
<1>3. EditorInv
  BY DEF EditorInv, EditorOpen, EditorShowsAllColumns, InsertionProgress,
         TornOnlyAfterIncidents, TrapsOnlyAfterIncidents, SavedMeansComplete,
         AnswerPendingUnderAd, Stored, Range
<1>4. ListIsFaithful
  BY DEF ListIsFaithful, RowsIndexBothArrays, FreshListShowsStore
<1> QED
  BY <1>1, <1>2, <1>3, <1>4, InvariantParts

\* A step that writes nothing to the database keeps its part.
LEMMA DatabaseUntouched ==
    ASSUME StoreIsWellFormed, UNCHANGED <<items, contents>>
    PROVE  StoreIsWellFormed'
BY DEF StoreIsWellFormed, UniqueGroups, ColumnsArePrefix, NoOrphanColumns, Stored,
       Columns

\* The counters of incidents are numbers, before and after a step.
LEMMA CountersType ==
    ASSUME TypeOK, TypeOK'
    PROVE  faults \in Nat /\ kills \in Nat /\ faults' \in Nat /\ kills' \in Nat
BY DEF TypeOK, RealmTypeOK

\* A step on the list that leaves the rows, the database and the editor alone
\* keeps the editor's part, whether a database call fails in it or not.
LEMMA EditorUntouched ==
    ASSUME TypeOK, TypeOK', EditorInv,
           UNCHANGED <<items, contents, editorVars, kills>>,
           faults' >= faults,
           screen' = "editor" => screen = "editor",
           screen = "editor" => screen' = "editor",
           exit' \in {exit, "none"}
    PROVE  EditorInv'
<1>1. EditorOpen' /\ EditorShowsAllColumns'
  BY DEF EditorInv, EditorOpen, EditorShowsAllColumns, editorVars
<1>2. InsertionProgress' /\ SavedMeansComplete'
  BY DEF EditorInv, InsertionProgress, SavedMeansComplete, editorVars, Stored,
         Columns
<1>3. TornOnlyAfterIncidents' /\ TrapsOnlyAfterIncidents'
  <2>1. faults + kills > 0 => faults' + kills' > 0
    BY CountersType
  <2>2. Underway' = Underway
    BY DEF Underway, editorVars
  <2>3. TornOnlyAfterIncidents /\ TrapsOnlyAfterIncidents
    BY DEF EditorInv
  <2> QED
    BY <2>1, <2>2, <2>3 DEF TornOnlyAfterIncidents, TrapsOnlyAfterIncidents,
                            Stored
<1>4. AnswerPendingUnderAd'
  BY DEF EditorInv, AnswerPendingUnderAd, editorVars
<1> QED
  BY <1>1, <1>2, <1>3, <1>4 DEF EditorInv

\* A step that releases the editor (back, a kill, a trap) leaves no save under
\* way: an interrupted one is an incident.
LEMMA EditorClosed ==
    ASSUME TypeOK, TypeOK', EditorInv, EditorReleased,
           UNCHANGED <<items, contents>>,
           faults' + kills' >= faults + kills,
           screen' # "editor",
           pc = "insert" => faults' + kills' > 0,
           exit' = "trapped" => faults' + kills' > 0
    PROVE  EditorInv'
<1> USE DEF EditorReleased
<1>1. EditorOpen' /\ EditorShowsAllColumns' /\ InsertionProgress'
  BY DEF EditorOpen, EditorShowsAllColumns, InsertionProgress
<1>2. TornOnlyAfterIncidents'
  <2>1. SUFFICES ASSUME NEW g \in GroupIds,
                        Stored(g)', Len(contents[g])' < 2
                 PROVE  faults' + kills' > 0
    BY DEF TornOnlyAfterIncidents
  <2>2. CASE g \in Underway
    BY <2>2 DEF Underway
  <2>3. CASE g \notin Underway
    <3>1. faults + kills > 0
      BY <2>1, <2>3 DEF EditorInv, TornOnlyAfterIncidents, Stored
    <3> QED
      BY <3>1, CountersType
  <2> QED
    BY <2>2, <2>3
<1>3. TrapsOnlyAfterIncidents' /\ SavedMeansComplete'
  BY DEF TrapsOnlyAfterIncidents, SavedMeansComplete
<1>4. AnswerPendingUnderAd'
  BY DEF AnswerPendingUnderAd
<1> QED
  BY <1>1, <1>2, <1>3, <1>4 DEF EditorInv

-----------------------------------------------------------------------------
(***************************************************************************)
(* The steps on the list.                                                  *)
(***************************************************************************)

\* What is left to show of a step that only concerns the list.
LEMMA QuietListStep ==
    ASSUME IInv, TypeOK', ListIsFaithful',
           UNCHANGED <<items, contents, editorVars, kills>>,
           faults' >= faults,
           screen' = "editor" <=> screen = "editor",
           exit' \in {exit, "none"}
    PROVE  IInv'
<1>1. TypeOK /\ StoreIsWellFormed /\ EditorInv
  BY InvariantParts
<1>2. StoreIsWellFormed'
  BY <1>1, DatabaseUntouched
<1>3. EditorInv'
  BY <1>1, EditorUntouched
<1> QED
  BY <1>2, <1>3 DEF IInv, StoreIsWellFormed, EditorInv, ListIsFaithful

\* A call that works or throws never decreases the failures.
LEMMA FaultsGrow ==
    ASSUME TypeOK, RealmWorks \/ RealmThrows
    PROVE  faults' \in 0..MaxFaults /\ faults' >= faults
BY DEF TypeOK, RealmTypeOK, RealmWorks, RealmThrows

\* Alerts that come and go over the list, and the how-to screen.
LEMMA AlertSteps ==
    ASSUME IInv,
           \/ AddNewFails \/ SelectFails \/ DeleteTapped \/ DeleteRefused
           \/ ListAlertDismissed \/ HowToUseBtnDidTap \/ CloseBtnDidTap
    PROVE  IInv'
<1> USE DEF ListIdle, OnList, Present
<1>1. TypeOK /\ ListIsFaithful
  BY InvariantParts
<1>2. /\ UNCHANGED <<items, contents, editorVars, kills, exit>>
      /\ UNCHANGED <<displayList, groupIdList>>
      /\ screen \in {"list", "howto"} /\ screen' \in {"list", "howto"}
  BY DEF AddNewFails, SelectFails, DeleteTapped, DeleteRefused,
         ListAlertDismissed, HowToUseBtnDidTap, CloseBtnDidTap, AddNewThrows,
         SelectThrows, DeleteTap, DeleteNo, DismissListAlert, listVars, realmVars
<1>3. faults' \in 0..MaxFaults /\ faults' >= faults
  <2>1. RealmWorks \/ RealmThrows
    BY DEF AddNewFails, SelectFails, DeleteTapped, DeleteRefused,
           ListAlertDismissed, HowToUseBtnDidTap, CloseBtnDidTap, AddNewThrows,
           SelectThrows, DeleteTap, DeleteNo, DismissListAlert, realmVars,
           RealmWorks
  <2> QED
    BY <1>1, <2>1, FaultsGrow
<1>4. /\ listAlert' \in ListAlerts /\ deleteRow' \in Nat
      /\ listAlert' = "deleteConfirm" => deleteRow' \in DOMAIN displayList
  <2>1. DOMAIN displayList \subseteq Nat
    BY <1>1 DEF TypeOK, ListTypeOK
  <2>2. listAlert \in ListAlerts /\ deleteRow \in Nat
    BY <1>1 DEF TypeOK, ListTypeOK
  <2>3. listAlert = "deleteConfirm" => deleteRow \in DOMAIN displayList
    BY <1>1 DEF ListIsFaithful, RowsIndexBothArrays
  <2>4. CASE AddNewFails \/ SelectFails \/ ListAlertDismissed \/ DeleteRefused
    BY <2>2, <2>4 DEF AddNewFails, SelectFails, ListAlertDismissed, DeleteNo,
          DeleteRefused, AddNewThrows, SelectThrows, DismissListAlert, ListAlerts
  <2>5. CASE DeleteTapped
    BY <2>1, <2>5 DEF DeleteTapped, DeleteTap, ListAlerts
  <2>6. CASE HowToUseBtnDidTap \/ CloseBtnDidTap
    BY <2>2, <2>3, <2>6 DEF HowToUseBtnDidTap, CloseBtnDidTap, listVars
  <2> QED
    BY <2>4, <2>5, <2>6
<1>5. TypeOK'
  BY <1>1, <1>2, <1>3, <1>4 DEF TypeOK, RealmTypeOK, ListTypeOK, EditorTypeOK,
                                editorVars
<1>6. ListIsFaithful'
  BY <1>1, <1>2, <1>4 DEF ListIsFaithful, RowsIndexBothArrays, FreshListShowsStore
<1> QED
  BY <1>2, <1>3, <1>5, <1>6, QuietListStep

\* Removing a row shortens displayList only.
LEMMA RemoveRowShortens ==
    ASSUME TypeOK, ListIsFaithful, listAlert = "deleteConfirm", RemoveRow
    PROVE  /\ displayList' \in Seq(GroupIds)
           /\ Len(displayList') < Len(groupIdList)
           /\ groupIdList' = groupIdList
           /\ deleteRow' = 0
           /\ deleteRow \in DOMAIN groupIdList
<1>1. /\ displayList \in Seq(GroupIds) /\ groupIdList \in Seq(GroupIds)
      /\ deleteRow \in 1..Len(displayList)
      /\ Len(displayList) <= Len(groupIdList)
  BY DEF TypeOK, ListTypeOK, ListIsFaithful, RowsIndexBothArrays
<1>2. /\ displayList' \in Seq(GroupIds)
      /\ Len(displayList') = Len(displayList) - 1
  BY <1>1, RemoveAtProperties DEF RemoveRow
<1>3. deleteRow \in DOMAIN groupIdList
  BY <1>1, LenProperties
<1> QED
  BY <1>1, <1>2, <1>3, LenProperties DEF RemoveRow

\* Deletion fails: the row is gone from the screen, the group is not.
LEMMA DeleteFailsStep ==
    ASSUME IInv, DeleteFails
    PROVE  IInv'
<1> USE DEF DeleteFails, OnList, DeleteYesThrows
<1>1. TypeOK /\ ListIsFaithful
  BY InvariantParts
<1>2. /\ displayList' \in Seq(GroupIds)
      /\ Len(displayList') < Len(groupIdList)
      /\ groupIdList' = groupIdList /\ deleteRow' = 0
  BY <1>1, RemoveRowShortens
<1>3. faults' \in 0..MaxFaults /\ faults' >= faults
  BY <1>1, FaultsGrow
<1>4. TypeOK'
  BY <1>1, <1>2, <1>3 DEF TypeOK, RealmTypeOK, ListTypeOK, EditorTypeOK,
                          ListAlerts, editorVars
<1>5. Len(displayList') \in Nat /\ Len(groupIdList) \in Nat
  BY <1>1, <1>2, LenProperties DEF TypeOK, ListTypeOK
<1>6. ListIsFaithful'
  BY <1>2, <1>5 DEF ListIsFaithful, RowsIndexBothArrays, FreshListShowsStore
<1> QED
  BY <1>3, <1>4, <1>6, QuietListStep

\* Deleting a group removes its item and no other.
LEMMA DeleteGroupProperties ==
    ASSUME items \in Seq(GroupIds), UniqueGroups, NEW g, DeleteGroup(g)
    PROVE  /\ items' \in Seq(GroupIds)
           /\ UniqueGroups'
           /\ \A h : Stored(h)' <=> Stored(h) /\ h # g
<1>1. CASE ~Stored(g)
  BY <1>1 DEF DeleteGroup, UniqueGroups, Stored
<1>2. CASE Stored(g)
  <2> DEFINE i == CHOOSE k \in DOMAIN items : items[k] = g
             n == Len(items)
  <2>1. i \in DOMAIN items /\ items[i] = g
    BY <1>2 DEF Stored, Range
  <2>2. DOMAIN items = 1..n /\ n \in Nat
    BY LenProperties
  <2>3. items' = RemoveAt(items, i)
    BY <1>2 DEF DeleteGroup
  <2> HIDE DEF i
  <2>4. /\ items' \in Seq(GroupIds)
        /\ Len(items') = n - 1
        /\ \A k \in 1..(n - 1) : items'[k] = IF k < i THEN items[k] ELSE items[k + 1]
    BY <2>1, <2>2, <2>3, RemoveAtProperties
  <2>5. DOMAIN items' = 1..(n - 1)
    BY <2>4, LenProperties
  <2>6. \A k, l \in 1..n : items[k] = items[l] => k = l
    BY <2>2 DEF UniqueGroups
  <2>7. UniqueGroups'
    BY <2>1, <2>2, <2>4, <2>5, <2>6 DEF UniqueGroups
  <2>8. ASSUME NEW h, Stored(h)' PROVE Stored(h) /\ h # g
    <3>1. PICK k \in 1..(n - 1) : items'[k] = h
      BY <2>5, <2>8 DEF Stored, Range
    <3>2. CASE k < i
      BY <2>1, <2>2, <2>4, <2>6, <3>1, <3>2 DEF Stored, Range
    <3>3. CASE ~(k < i)
      <4>1. k + 1 \in 1..n /\ k + 1 # i /\ items[k + 1] = h
        BY <2>1, <2>2, <2>4, <3>1, <3>3
      <4> QED
        BY <2>1, <2>2, <2>6, <4>1 DEF Stored, Range
    <3> QED
      BY <3>2, <3>3
  <2>9. ASSUME NEW h, Stored(h), h # g PROVE Stored(h)'
    <3>1. PICK k \in 1..n : items[k] = h
      BY <2>2, <2>9 DEF Stored, Range
    <3>2. CASE k < i
      <4>1. k \in 1..(n - 1) /\ items'[k] = h
        BY <2>1, <2>2, <2>4, <3>1, <3>2
      <4> QED
        BY <2>5, <4>1 DEF Stored, Range
    <3>3. CASE k > i
      <4>1. k - 1 \in 1..(n - 1) /\ items'[k - 1] = h
        BY <2>1, <2>2, <2>4, <3>1, <3>3
      <4> QED
        BY <2>5, <4>1 DEF Stored, Range
    <3> QED
      BY <2>1, <2>2, <2>9, <3>1, <3>2, <3>3
  <2> QED
    BY <2>4, <2>7, <2>8, <2>9
<1> QED
  BY <1>1, <1>2

\* A confirmed deletion takes the item and the columns of one group together.
LEMMA DeleteConfirmedStep ==
    ASSUME IInv, DeleteConfirmed
    PROVE  IInv'
<1> USE DEF DeleteConfirmed, OnList, DeleteYesWorks, RealmWorks
<1> DEFINE g == groupIdList[deleteRow]
<1>1. TypeOK /\ StoreIsWellFormed /\ EditorInv /\ ListIsFaithful
  BY InvariantParts
<1>2. /\ displayList' \in Seq(GroupIds)
      /\ Len(displayList') < Len(groupIdList)
      /\ groupIdList' = groupIdList /\ deleteRow' = 0
      /\ deleteRow \in DOMAIN groupIdList
  BY <1>1, RemoveRowShortens
<1>3. g \in GroupIds
  BY <1>1, <1>2, ElementOfSeq, LenProperties DEF TypeOK, ListTypeOK
<1>4. contents' = [contents EXCEPT ![g] = <<>>]
  BY DEF DeleteGroup
<1>5. /\ items' \in Seq(GroupIds) /\ UniqueGroups'
      /\ \A h : Stored(h)' <=> Stored(h) /\ h # g
  BY <1>1, DeleteGroupProperties DEF TypeOK, RealmTypeOK, StoreIsWellFormed
<1> HIDE DEF g
<1>6. /\ contents \in [GroupIds -> Seq(ColumnIds)]
      /\ contents' \in [GroupIds -> Seq(ColumnIds)]
      /\ \A h \in GroupIds : contents'[h] = IF h = g THEN <<>> ELSE contents[h]
  <2>1. contents \in [GroupIds -> Seq(ColumnIds)] /\ <<>> \in Seq(ColumnIds)
    BY <1>1, EmptySeq DEF TypeOK, RealmTypeOK
  <2> QED
    BY <1>3, <1>4, <2>1
<1>7. TypeOK'
  BY <1>1, <1>2, <1>5, <1>6 DEF TypeOK, RealmTypeOK, ListTypeOK, EditorTypeOK,
                                ListAlerts, editorVars
<1>8. ColumnsArePrefix'
  <2>1. Columns(0) = <<>> /\ Len(<<>>) = 0
    BY ColumnsType, EmptySeq
  <2> QED
    BY <1>1, <1>6, <2>1 DEF StoreIsWellFormed, ColumnsArePrefix
<1>9. NoOrphanColumns'
  BY <1>1, <1>5, <1>6 DEF StoreIsWellFormed, NoOrphanColumns
<1>10. pc = "idle" /\ screen = "list"
  BY <1>1 DEF EditorInv, EditorOpen, TypeOK, EditorTypeOK
<1>11. TornOnlyAfterIncidents'
  <2>1. Underway = {} /\ Underway' = {}
    BY <1>10 DEF Underway, editorVars
  <2> QED
    BY <1>1, <1>5, <1>6, <2>1 DEF EditorInv, TornOnlyAfterIncidents
<1>12. EditorInv'
  BY <1>1, <1>10, <1>11 DEF EditorInv, EditorOpen, EditorShowsAllColumns,
         InsertionProgress, TrapsOnlyAfterIncidents, SavedMeansComplete,
         AnswerPendingUnderAd, editorVars
<1>13. ListIsFaithful'
  <2>1. Len(displayList') \in Nat /\ Len(groupIdList) \in Nat
    BY <1>1, <1>2, LenProperties DEF TypeOK, ListTypeOK
  <2> QED
    BY <1>2, <2>1 DEF ListIsFaithful, RowsIndexBothArrays, FreshListShowsStore
<1> QED
  BY <1>5, <1>7, <1>8, <1>9, <1>12, <1>13
  DEF IInv, EditorInv, StoreIsWellFormed

-----------------------------------------------------------------------------
(***************************************************************************)
(* The steps that change the screen.                                       *)
(***************************************************************************)

\* The values of a released editor are of their types.
LEMMA ReleasedEditorType ==
    ASSUME EditorReleased
    PROVE  EditorTypeOK' /\ pc' = "idle"
BY DEF EditorReleased, EditorTypeOK, Dialogs, ColumnIds

\* What is left to show of a step that leaves the editor, or the list without
\* an editor, for a list that is reloaded or gone.
LEMMA LeavingStep ==
    ASSUME IInv, TypeOK', ListIsFaithful', EditorReleased,
           UNCHANGED <<items, contents>>,
           faults' + kills' >= faults + kills,
           screen' # "editor",
           pc = "insert" => faults' + kills' > 0,
           exit' = "trapped" => faults' + kills' > 0
    PROVE  IInv'
<1>1. TypeOK /\ StoreIsWellFormed /\ EditorInv
  BY InvariantParts
<1>2. StoreIsWellFormed'
  BY <1>1, DatabaseUntouched
<1>3. EditorInv'
  BY <1>1, EditorClosed
<1> QED
  BY <1>2, <1>3 DEF IInv, StoreIsWellFormed, EditorInv, ListIsFaithful

\* A reload shows the stored groups, or nothing.
LEMMA ReloadShowsStore ==
    ASSUME TypeOK, UNCHANGED <<items, contents>>, Reload
    PROVE  /\ ListTypeOK'
           /\ ListIsFaithful'
           /\ faults' \in 0..MaxFaults /\ faults' >= faults
<1>1. items \in Seq(GroupIds) /\ Len(items) \in Nat
  BY LenProperties DEF TypeOK, RealmTypeOK
<1>2. <<>> \in Seq(GroupIds) /\ Len(<<>>) = 0
  BY EmptySeq
<1>3. CASE ReloadWorks
  BY <1>1, <1>3, FaultsGrow DEF ReloadWorks, ListTypeOK, ListAlerts, ListIsFaithful,
     RowsIndexBothArrays, FreshListShowsStore
<1>4. CASE ReloadThrows
  <2>1. listAlert' \in {"none", "loadError"}
    BY <1>4 DEF ReloadThrows, PresentFromViewDidLoad, Present
  <2> QED
    BY <1>2, <1>4, <2>1, FaultsGrow DEF ReloadThrows, ListTypeOK, ListAlerts,
       ListIsFaithful, RowsIndexBothArrays, FreshListShowsStore
<1> QED
  BY <1>3, <1>4 DEF Reload

\* A process that is gone shows no rows.
LEMMA ReleasedList ==
    ASSUME ListReleased
    PROVE  ListTypeOK' /\ ListIsFaithful'
BY EmptySeq DEF ListReleased, ListTypeOK, ListAlerts, ListIsFaithful,
   RowsIndexBothArrays, FreshListShowsStore

\* A launch finds the editor closed and reads the list.
LEMMA LaunchStep ==
    ASSUME IInv, Launch
    PROVE  IInv'
<1> USE DEF Launch
<1>1. TypeOK /\ EditorInv
  BY InvariantParts
<1>2. ListTypeOK' /\ ListIsFaithful' /\ faults' \in 0..MaxFaults /\ faults' >= faults
  BY <1>1, ReloadShowsStore
<1>3. TypeOK'
  BY <1>1, <1>2 DEF TypeOK, RealmTypeOK, EditorTypeOK, editorVars
<1> QED
  BY <1>2, <1>3, QuietListStep

\* The way back from the editor.
LEMMA BackStep ==
    ASSUME IInv, BackConfirmed
    PROVE  IInv'
<1> USE DEF BackConfirmed
<1>1. TypeOK
  BY InvariantParts
<1>2. ListTypeOK' /\ ListIsFaithful' /\ faults' \in 0..MaxFaults /\ faults' >= faults
  BY <1>1, ReloadShowsStore
<1>3. TypeOK'
  BY <1>1, <1>2, ReleasedEditorType DEF TypeOK, RealmTypeOK
<1>4. faults' + kills' >= faults + kills /\ (exit' = "trapped" => faults' + kills' > 0)
  <2>1. exit = "trapped" => faults + kills > 0
    BY InvariantParts DEF EditorInv, TrapsOnlyAfterIncidents
  <2> QED
    BY <1>1, <1>2, <1>3, <2>1, CountersType
<1> QED
  BY <1>2, <1>3, <1>4, LeavingStep

\* The process dies: only the database is left.
LEMMA DieStep ==
    ASSUME IInv, NEW how \in {"killed", "trapped"}, Die(how),
           UNCHANGED <<items, contents>>,
           faults' \in 0..MaxFaults, kills' \in 0..MaxKills,
           faults' + kills' >= faults + kills,
           pc = "insert" \/ how = "trapped" => faults' + kills' > 0
    PROVE  IInv'
<1> USE DEF Die
<1>1. TypeOK
  BY InvariantParts
<1>2. ListTypeOK' /\ ListIsFaithful'
  BY ReleasedList
<1>3. TypeOK'
  BY <1>1, <1>2, ReleasedEditorType DEF TypeOK, RealmTypeOK
<1> QED
  BY <1>2, <1>3, LeavingStep

\* A kill is an incident.
LEMMA KillStep ==
    ASSUME IInv, Kill
    PROVE  IInv'
<1> USE DEF Kill
<1>1. TypeOK
  BY InvariantParts
<1>2. /\ faults \in Nat /\ kills \in Nat /\ kills' = kills + 1 /\ faults' = faults
      /\ faults' \in 0..MaxFaults /\ kills' \in 0..MaxKills
      /\ UNCHANGED <<items, contents>>
  BY <1>1 DEF TypeOK, RealmTypeOK, realmVars
<1>3. faults' + kills' > 0 /\ faults' + kills' >= faults + kills
  BY <1>2
<1> QED
  BY <1>2, <1>3, DieStep

\* What a stored group looks like: some first columns, at most MaxCols.
LEMMA StoredColumns ==
    ASSUME TypeOK, StoreIsWellFormed, NEW g \in GroupIds
    PROVE  /\ Len(contents[g]) \in 0..MaxCols
           /\ Len(contents[g]) \in 0..5
           /\ MaxCols \in 4..5
           /\ contents[g] = Columns(Len(contents[g]))
           /\ contents[g] \in Seq(ColumnIds)
<1>1. contents[g] \in Seq(ColumnIds)
  BY DEF TypeOK, RealmTypeOK
<1>2. Len(contents[g]) \in Nat
  BY <1>1, LenProperties
<1>3. /\ Len(contents[g]) <= MaxCols
      /\ contents[g] = Columns(Len(contents[g]))
  BY DEF StoreIsWellFormed, ColumnsArePrefix
<1>4. MaxCols \in 4..5
  OBVIOUS
<1>5. \A n \in Nat : n <= MaxCols => n \in 0..MaxCols /\ n \in 0..5
  BY <1>4
<1>6. Len(contents[g]) \in 0..MaxCols /\ Len(contents[g]) \in 0..5
  BY <1>2, <1>3, <1>5
<1> QED
  BY <1>1, <1>3, <1>4, <1>6

\* viewDidLoad's unwrapping of column 1 never fails on a stored group.
LEMMA LoadNeverTraps ==
    ASSUME TypeOK, StoreIsWellFormed, NEW g \in GroupIds
    PROVE  ~LoadTraps(contents[g])
<1>1. /\ Len(contents[g]) \in 0..5
      /\ contents[g] = Columns(Len(contents[g]))
  BY StoredColumns
<1>2. 1 \in Range(Columns(Len(contents[g]))) <=> 1 < Len(contents[g])
  BY <1>1, ColumnsRange
<1> QED
  BY <1>1, <1>2 DEF LoadTraps

\* An editor opens with all columns of its group on screen; when its queries
\* throw, the process dies of it.
LEMMA PresentEditorStep ==
    ASSUME IInv, screen = "list", NEW g \in GroupIds, PresentEditor(g)
    PROVE  IInv'
<1>1. TypeOK /\ StoreIsWellFormed /\ EditorInv /\ ListIsFaithful
  BY InvariantParts
<1>2. pc = "idle"
  BY <1>1 DEF EditorInv, EditorOpen, TypeOK, EditorTypeOK
<1>3. CASE RealmThrows /\ Trap
  <2>1. /\ faults \in Nat /\ kills \in Nat /\ faults' = faults + 1 /\ kills' = kills
        /\ faults' \in 0..MaxFaults /\ kills' \in 0..MaxKills
    BY <1>1, <1>3 DEF TypeOK, RealmTypeOK, RealmThrows, Trap
  <2> QED
    BY <1>3, <2>1, DieStep DEF Trap
<1>4. CASE ~(RealmThrows /\ Trap)
  <2>1. /\ OpenEditor(g) /\ screen' = "editor" /\ faults' = faults
        /\ UNCHANGED <<items, contents, listVars, kills, exit>>
    BY <1>1, <1>4, LoadNeverTraps DEF PresentEditor, RealmWorks
  <2> DEFINE n == Len(contents[g])
  <2>2. n \in 0..MaxCols /\ MaxCols \in 4..5 /\ contents[g] = Columns(n)
    BY <1>1, StoredColumns
  <2> HIDE DEF n
  <2>3. groupId' = g /\ colNum' = IF n > 2 THEN n ELSE 2
    BY <2>1, <2>2, LoadedColNumOfColumns DEF OpenEditor
  <2>4. TypeOK'
    BY <1>1, <2>1, <2>2, <2>3 DEF TypeOK, RealmTypeOK, ListTypeOK, EditorTypeOK,
       OpenEditor, listVars, Dialogs, ColumnIds
  <2>5. StoreIsWellFormed'
    BY <1>1, <2>1, DatabaseUntouched
  <2>6. ListIsFaithful'
    BY <1>1, <2>1 DEF ListIsFaithful, RowsIndexBothArrays, FreshListShowsStore, listVars
  <2>7. EditorShowsAllColumns'
    BY <2>1, <2>2, <2>3 DEF EditorShowsAllColumns, n
  <2>8. TornOnlyAfterIncidents'
    <3>1. Underway = {} /\ Underway' = {}
      BY <1>2, <2>1 DEF Underway, OpenEditor
    <3> QED
      BY <1>1, <2>1, <3>1 DEF EditorInv, TornOnlyAfterIncidents, Stored
  <2>9. EditorInv'
    BY <1>1, <2>1, <2>3, <2>7, <2>8 DEF EditorInv, EditorOpen, OpenEditor,
       InsertionProgress, TrapsOnlyAfterIncidents, SavedMeansComplete,
       AnswerPendingUnderAd
  <2> QED
    BY <2>4, <2>5, <2>6, <2>9 DEF IInv, StoreIsWellFormed, EditorInv, ListIsFaithful
<1> QED
  BY <1>3, <1>4

\* Both ways to open an editor give it a group id in range.
LEMMA OpenSteps ==
    ASSUME IInv, AddNewHikakuBtnDidTap \/ DidSelectRow
    PROVE  IInv'
<1>1. TypeOK /\ ListIsFaithful
  BY InvariantParts
<1>2. CASE AddNewHikakuBtnDidTap
  <2>1. NewGroupId \in GroupIds
    BY <1>1, <1>2, MaxGroupIdProperties
    DEF AddNewHikakuBtnDidTap, NewGroupId, GroupIds, TypeOK, RealmTypeOK
  <2> QED
    BY <1>2, <2>1, PresentEditorStep DEF AddNewHikakuBtnDidTap
<1>3. CASE DidSelectRow
  <2>1. PICK row \in DOMAIN displayList : PresentEditor(SelectedGroupId(row))
    BY <1>3 DEF DidSelectRow
  <2>2. row \in 1..Len(groupIdList) /\ groupIdList \in Seq(GroupIds)
    BY <1>1, LenProperties DEF TypeOK, ListTypeOK, ListIsFaithful, RowsIndexBothArrays
  <2>3. SelectedGroupId(row) \in GroupIds
    BY <2>2, ElementOfSeq DEF SelectedGroupId
  <2> QED
    BY <1>3, <2>1, <2>3, PresentEditorStep DEF DidSelectRow
<1> QED
  BY <1>2, <1>3

-----------------------------------------------------------------------------
(***************************************************************************)
(* The steps in the editor.                                                *)
(***************************************************************************)

\* What is left to show of a step in the editor.
LEMMA InEditorStep ==
    ASSUME IInv, InEditor, TypeOK', StoreIsWellFormed',
           faults' >= faults, groupId' = groupId,
           EditorShowsAllColumns', InsertionProgress', TornOnlyAfterIncidents',
           SavedMeansComplete', AnswerPendingUnderAd'
    PROVE  IInv'
<1> USE DEF InEditor
<1>1. TypeOK /\ EditorInv /\ ListIsFaithful
  BY InvariantParts
<1>2. EditorOpen' /\ ListIsFaithful'
  BY <1>1 DEF EditorInv, EditorOpen, ListIsFaithful, RowsIndexBothArrays,
              FreshListShowsStore, listVars
<1>3. TrapsOnlyAfterIncidents'
  BY <1>1, CountersType DEF EditorInv, TrapsOnlyAfterIncidents
<1> QED
  BY <1>2, <1>3 DEF IInv, StoreIsWellFormed, ListIsFaithful

\* Steps that neither save nor change the group: they may add columns to the
\* screen, and present or dismiss things.
LEMMA QuietEditorStep ==
    ASSUME IInv, InEditor,
           UNCHANGED <<items, contents, groupId>>, nextCol' \in ColumnIds,
           RealmWorks \/ RealmThrows,
           pc = "idle", pc' = "idle",
           colNum' \in colNum..MaxCols,
           interstitial' \in {"none", "loading", "ready", "spent"},
           presented' \in Dialogs,
           lastSave' \in {"none", "ok", "failed"},
           answered' \in BOOLEAN,
           SavedMeansComplete', AnswerPendingUnderAd'
    PROVE  IInv'
<1>1. TypeOK /\ StoreIsWellFormed /\ EditorInv
  BY InvariantParts
<1>2. faults' \in 0..MaxFaults /\ faults' >= faults
  BY <1>1, FaultsGrow
<1>3. colNum \in 2..MaxCols /\ colNum' \in 2..MaxCols /\ colNum' >= colNum
  BY <1>1 DEF TypeOK, EditorTypeOK
<1>4. TypeOK'
  BY <1>1, <1>2, <1>3 DEF TypeOK, RealmTypeOK, ListTypeOK, EditorTypeOK,
                          InEditor, listVars
<1>5. StoreIsWellFormed'
  BY <1>1, DatabaseUntouched
<1>6. EditorShowsAllColumns'
  <2>1. groupId \in GroupIds /\ Len(contents[groupId]) <= colNum
    BY <1>1 DEF EditorInv, EditorOpen, EditorShowsAllColumns, InEditor
  <2>2. Len(contents[groupId]) \in Nat
    BY <1>1, <2>1, StoredColumns
  <2> QED
    BY <1>3, <2>1, <2>2 DEF EditorShowsAllColumns
<1>7. InsertionProgress'
  BY DEF InsertionProgress
<1>8. TornOnlyAfterIncidents'
  <2>1. faults + kills > 0 => faults' + kills' > 0
    BY <1>1, <1>2, <1>4, CountersType DEF InEditor
  <2>2. Underway = {} /\ Underway' = {}
    BY DEF Underway
  <2> QED
    BY <1>1, <2>1, <2>2 DEF EditorInv, TornOnlyAfterIncidents, Stored
<1> QED
  BY <1>2, <1>4, <1>5, <1>6, <1>7, <1>8, InEditorStep

\* Ads, dialogs and the back button.
LEMMA DialogSteps ==
    ASSUME IInv, AdReady \/ AdClosed \/ BackTapped \/ DialogDismissed
    PROVE  IInv'
<1> USE DEF AdReady, AdClosed, BackTapped, DialogDismissed, AdLoaded,
            AdDismissed, BackTap, DismissDialog, EditorIdle, Present
<1>1. TypeOK /\ EditorInv
  BY InvariantParts
<1>2. /\ InEditor
      /\ UNCHANGED <<items, contents, groupId, nextCol, colNum, lastSave>>
      /\ RealmWorks
      /\ pc = "idle" /\ pc' = "idle"
  BY DEF realmVars, RealmWorks
<1>3. /\ colNum' \in colNum..MaxCols /\ lastSave' \in {"none", "ok", "failed"}
      /\ nextCol' \in ColumnIds
  BY <1>1, <1>2 DEF TypeOK, EditorTypeOK
<1>4. /\ interstitial' \in {"none", "loading", "ready", "spent"}
      /\ presented' \in Dialogs
      /\ answered' \in BOOLEAN
  BY <1>1 DEF TypeOK, EditorTypeOK, Dialogs
<1>5. SavedMeansComplete'
  <2>1. presented' \in {"saved", "ad"} => presented \in {"saved", "ad"}
    OBVIOUS
  <2>2. SavedMeansComplete
    BY <1>1 DEF EditorInv
  <2> QED
    BY <1>2, <2>1, <2>2 DEF SavedMeansComplete, Stored, Columns, InEditor
<1>6. AnswerPendingUnderAd'
  <2>1. AnswerPendingUnderAd
    BY <1>1 DEF EditorInv
  <2>3. ~answered' => presented' = "ad"
    BY <1>2, <2>1 DEF AnswerPendingUnderAd
  <2> QED
    BY <2>3 DEF AnswerPendingUnderAd
<1> QED
  BY <1>2, <1>3, <1>4, <1>5, <1>6, QuietEditorStep

\* Adding a column or a row rebuilds the view.
LEMMA RebuildSteps ==
    ASSUME IInv, NameAdded \/ ItemAdded
    PROVE  IInv'
<1>1. TypeOK /\ StoreIsWellFormed /\ EditorInv
  BY InvariantParts
<1>2. PICK cols \in {colNum, colNum + 1} :
         InEditor /\ cols <= MaxCols /\ Rebuild(cols)
  <2>1. colNum \in 2..MaxCols
    BY <1>1 DEF TypeOK, EditorTypeOK
  <2>2. CASE NameAdded
    BY <2>1, <2>2 DEF NameAdded, AddNewName
  <2>3. CASE ItemAdded
    BY <2>1, <2>3 DEF ItemAdded, AddNewItem
  <2> QED
    BY <2>2, <2>3
<1>3. /\ UNCHANGED <<items, contents, groupId, nextCol, lastSave, answered>>
      /\ pc = "idle" /\ pc' = "idle" /\ presented = "none"
      /\ interstitial' = "loading"
      /\ RealmWorks \/ RealmThrows
      /\ presented' \in {"none", "loadError"}
      /\ colNum' \in {cols, LoadedColNum(cols, contents[groupId])}
  BY <1>2 DEF Rebuild, EditorIdle, PresentFromViewDidLoad, Present
<1>4. colNum' \in colNum..MaxCols
  <2> DEFINE n == Len(contents[groupId])
  <2>1. groupId \in GroupIds
    BY <1>1, <1>2 DEF EditorInv, EditorOpen, InEditor
  <2>2. n \in 0..MaxCols /\ n \in 0..5 /\ contents[groupId] = Columns(n)
        /\ MaxCols \in 4..5
    BY <1>1, <2>1, StoredColumns
  <2>3. colNum \in 2..MaxCols
    BY <1>1 DEF TypeOK, EditorTypeOK
  <2> HIDE DEF n
  <2>4. cols \in 2..5
    BY <1>2, <2>2, <2>3
  <2>5. LoadedColNum(cols, contents[groupId]) = IF n > cols THEN n ELSE cols
    BY <2>2, <2>4, LoadedColNumOfColumns
  <2> QED
    BY <1>2, <1>3, <2>2, <2>3, <2>5
<1>5. /\ lastSave' \in {"none", "ok", "failed"} /\ answered' \in BOOLEAN
      /\ presented' \in Dialogs /\ nextCol' \in ColumnIds
  BY <1>1, <1>3 DEF TypeOK, EditorTypeOK, Dialogs
<1>6. SavedMeansComplete' /\ AnswerPendingUnderAd'
  BY <1>1, <1>3 DEF EditorInv, SavedMeansComplete, AnswerPendingUnderAd
<1> QED
  BY <1>2, <1>3, <1>4, <1>5, <1>6, QuietEditorStep

\* What the messages at the end of a save leave presented.
LEMMA AfterMessagesType ==
    ASSUME NEW p \in {"none", "ad"}, NEW ok \in BOOLEAN
    PROVE  AfterMessages(p, ok) = IF p = "ad" THEN "ad"
                                  ELSE IF ok THEN "saved" ELSE "saveError"
BY DEF AfterMessages, Present

\* What is left to show of a step that ends a save: of the columns it leaves in
\* the database the screen shows all, and the same if it says it saved them.
LEMMA FinishSaveStep ==
    ASSUME IInv, InEditor,
           NEW p \in {"none", "ad"}, NEW ok \in BOOLEAN, FinishSave(p, ok),
           items' \in Seq(GroupIds),
           contents' \in [GroupIds -> Seq(ColumnIds)],
           RealmWorks \/ RealmThrows,
           StoreIsWellFormed',
           NEW m \in 0..5, contents'[groupId] = Columns(m),
           m <= colNum, ok => m = colNum /\ Stored(groupId)',
           TornOnlyAfterIncidents'
    PROVE  IInv'
<1> USE DEF FinishSave
<1>1. TypeOK /\ EditorInv
  BY InvariantParts
<1>2. presented' = IF p = "ad" THEN "ad" ELSE IF ok THEN "saved" ELSE "saveError"
  BY AfterMessagesType
<1>3. colNum \in 2..MaxCols /\ colNum \in 2..5
  BY <1>1 DEF TypeOK, EditorTypeOK
<1>4. colNum' = colNum
  BY <1>3, LoadedColNumOfColumns
<1>5. faults' \in 0..MaxFaults /\ faults' >= faults
  BY <1>1, FaultsGrow
<1>6. TypeOK'
  BY <1>1, <1>2, <1>4, <1>5 DEF TypeOK, RealmTypeOK, ListTypeOK, EditorTypeOK,
     InEditor, listVars, Dialogs, ColumnIds
<1>7. EditorShowsAllColumns'
  <2>1. Len(Columns(m)) = m
    BY ColumnsType
  <2> QED
    BY <1>4, <2>1 DEF EditorShowsAllColumns
<1>8. SavedMeansComplete'
  BY <1>4 DEF SavedMeansComplete, Stored, Columns
<1>9. InsertionProgress' /\ AnswerPendingUnderAd'
  BY DEF InsertionProgress, AnswerPendingUnderAd
<1> QED
  BY <1>5, <1>6, <1>7, <1>8, <1>9, InEditorStep

\* The group in the editor: its columns are on screen.
LEMMA EditedGroup ==
    ASSUME IInv, screen = "editor"
    PROVE  /\ groupId \in GroupIds
           /\ colNum \in 2..MaxCols /\ colNum \in 2..5
           /\ Len(contents[groupId]) \in 0..colNum
           /\ contents[groupId] = Columns(Len(contents[groupId]))
<1>1. TypeOK /\ StoreIsWellFormed /\ EditorInv
  BY InvariantParts
<1>2. groupId \in GroupIds /\ Len(contents[groupId]) <= colNum
  BY <1>1 DEF EditorInv, EditorOpen, EditorShowsAllColumns
<1>3. colNum \in 2..MaxCols /\ colNum \in 2..5
  BY <1>1 DEF TypeOK, EditorTypeOK
<1>4. /\ Len(contents[groupId]) \in 0..5
      /\ contents[groupId] = Columns(Len(contents[groupId]))
  BY <1>1, <1>2, StoredColumns
<1> QED
  BY <1>2, <1>3, <1>4

\* A save that throws before anything is written.
LEMMA SaveFailsStep ==
    ASSUME IInv, SaveFails
    PROVE  IInv'
<1> USE DEF SaveFails, SaveThrows, EditorIdle
<1>1. TypeOK /\ StoreIsWellFormed /\ EditorInv
  BY InvariantParts
<1>2. AfterDisplayAd \in {"none", "ad"} /\ FinishSave(AfterDisplayAd, FALSE)
  BY DEF AfterDisplayAd
<1>3. /\ items' \in Seq(GroupIds)
      /\ contents' \in [GroupIds -> Seq(ColumnIds)]
  BY <1>1 DEF TypeOK, RealmTypeOK
<1>4. StoreIsWellFormed'
  BY <1>1, DatabaseUntouched
<1>5. TornOnlyAfterIncidents'
  <2>1. faults' + kills' > 0
    BY <1>1 DEF RealmThrows, TypeOK, RealmTypeOK, InEditor
  <2> QED
    BY <2>1 DEF TornOnlyAfterIncidents
<1> DEFINE m == Len(contents[groupId])
<1>6. m \in 0..5 /\ m <= colNum /\ contents'[groupId] = Columns(m)
  <2>1. /\ m \in 0..colNum /\ colNum \in 2..5
        /\ contents[groupId] = Columns(m)
    BY EditedGroup DEF InEditor
  <2> HIDE DEF m
  <2> QED
    BY <2>1
<1> HIDE DEF m
<1> QED
  BY <1>2, <1>3, <1>4, <1>5, <1>6, FinishSaveStep

\* A database whose group g got all its columns up to n is as good as before.
LEMMA ColumnsWritten ==
    ASSUME TypeOK, StoreIsWellFormed, NEW g \in GroupIds, NEW n \in 0..MaxCols,
           Stored(g), UNCHANGED items,
           contents' = [contents EXCEPT ![g] = Columns(n)]
    PROVE  /\ contents' \in [GroupIds -> Seq(ColumnIds)]
           /\ \A h \in GroupIds :
                 contents'[h] = IF h = g THEN Columns(n) ELSE contents[h]
           /\ StoreIsWellFormed'
<1>0. n \in 0..5
  OBVIOUS
<1>1. /\ n \in 0..5 /\ Columns(n) \in Seq(ColumnIds) /\ Len(Columns(n)) = n
  BY <1>0, ColumnsType
<1>2. contents \in [GroupIds -> Seq(ColumnIds)]
  BY DEF TypeOK, RealmTypeOK
<1>3. /\ contents' \in [GroupIds -> Seq(ColumnIds)]
      /\ \A h \in GroupIds :
            contents'[h] = IF h = g THEN Columns(n) ELSE contents[h]
  BY <1>1, <1>2
<1>4. ColumnsArePrefix'
  BY <1>1, <1>3 DEF StoreIsWellFormed, ColumnsArePrefix
<1>5. NoOrphanColumns' /\ UniqueGroups'
  BY <1>3 DEF StoreIsWellFormed, NoOrphanColumns, UniqueGroups, Stored
<1> QED
  BY <1>3, <1>4, <1>5 DEF StoreIsWellFormed

\* A group with two columns has column 1, which saveData unwraps.
LEMMA TwoColumns ==
    ASSUME IInv, screen = "editor"
    PROVE  HasTwoColumns(groupId) <=> Len(contents[groupId]) >= 2
<1> DEFINE m == Len(contents[groupId])
<1>1. m \in 0..5 /\ contents[groupId] = Columns(m)
  <2>1. /\ m \in 0..colNum /\ colNum \in 2..5
        /\ contents[groupId] = Columns(m)
    BY EditedGroup
  <2> HIDE DEF m
  <2> QED
    BY <2>1
<1> HIDE DEF m
<1>2. 0 \in Range(Columns(m)) <=> 0 < m
  BY <1>1, ColumnsRange
<1>3. 1 \in Range(Columns(m)) <=> 1 < m
  BY <1>1, ColumnsRange
<1>4. HasTwoColumns(groupId) <=> m >= 2
  BY <1>1, <1>2, <1>3 DEF HasTwoColumns
<1> QED
  BY <1>4 DEF m

\* A save of a stored group leaves exactly the columns on screen.
LEMMA SaveUpdatesStep ==
    ASSUME IInv, SaveUpdates
    PROVE  IInv'
<1> USE DEF SaveUpdates, SaveUpdateWorks, InEditor, EditorIdle
<1>1. TypeOK /\ StoreIsWellFormed /\ EditorInv
  BY InvariantParts
<1>2. AfterDisplayAd \in {"none", "ad"} /\ FinishSave(AfterDisplayAd, TRUE)
  BY DEF AfterDisplayAd
<1> DEFINE m == Len(contents[groupId])
<1>3. /\ groupId \in GroupIds
      /\ m \in 0..colNum /\ colNum \in 2..5 /\ colNum \in 2..MaxCols
      /\ contents[groupId] = Columns(m)
      /\ m >= 2
  BY EditedGroup, TwoColumns
<1> HIDE DEF m
<1>4. UpdatedColumns(contents[groupId], colNum) = Columns(colNum)
  <2>1. m \in 2..colNum
    BY <1>3
  <2> QED
    BY <1>3, <2>1, UpdatedColumnsFill
<1>5. contents' = [contents EXCEPT ![groupId] = Columns(colNum)]
  BY <1>4
<1>6. /\ contents' \in [GroupIds -> Seq(ColumnIds)]
      /\ \A h \in GroupIds :
            contents'[h] = IF h = groupId THEN Columns(colNum) ELSE contents[h]
      /\ StoreIsWellFormed'
  <2>1. colNum \in 0..MaxCols
    BY <1>3
  <2> QED
    BY <1>1, <1>3, <1>5, <2>1, ColumnsWritten
<1>7. items' \in Seq(GroupIds) /\ Stored(groupId)'
  <2>1. items' = items /\ groupId' = groupId /\ Stored(groupId)
    BY <1>2 DEF FinishSave
  <2> QED
    BY <1>1, <2>1 DEF TypeOK, RealmTypeOK, Stored
<1>8. TornOnlyAfterIncidents'
  <2>1. Underway = {} /\ Underway' = {}
    BY <1>2 DEF Underway, FinishSave
  <2>2. Len(Columns(colNum)) = colNum
    <3>1. colNum \in 0..5
      BY <1>3
    <3> QED
      BY <3>1, ColumnsType
  <2>3. faults' = faults /\ kills' = kills
    BY DEF RealmWorks
  <2> QED
    BY <1>1, <1>3, <1>6, <2>1, <2>2, <2>3
    DEF EditorInv, TornOnlyAfterIncidents, Stored
<1>9. colNum \in 0..5 /\ contents'[groupId] = Columns(colNum) /\ colNum <= colNum
  BY <1>3, <1>6
<1> QED
  BY <1>2, <1>6, <1>7, <1>8, <1>9, FinishSaveStep

\* The trap of saveData happens to groups that an incident has left behind.
LEMMA SaveCrashesStep ==
    ASSUME IInv, SaveCrashes
    PROVE  IInv'
<1> USE DEF SaveCrashes, SaveTraps, EditorIdle, Trap, RealmWorks
<1>1. TypeOK /\ StoreIsWellFormed /\ EditorInv
  BY InvariantParts
<1>2. groupId \in GroupIds /\ Len(contents[groupId]) < 2
  <2>1. Len(contents[groupId]) \in 0..colNum /\ colNum \in 2..5
    BY EditedGroup
  <2> QED
    BY <2>1, TwoColumns, EditedGroup
<1>3. faults + kills > 0
  <2>1. Underway = {}
    BY DEF Underway
  <2> QED
    BY <1>1, <1>2, <2>1 DEF EditorInv, TornOnlyAfterIncidents
<1>4. /\ faults' = faults /\ kills' = kills
      /\ faults' \in 0..MaxFaults /\ kills' \in 0..MaxKills
      /\ faults' + kills' >= faults + kills
  BY <1>1 DEF TypeOK, RealmTypeOK
<1> QED
  BY <1>3, <1>4, DieStep

\* The first transaction of an insertion: the item, below which no column of
\* an earlier group has been left.
LEMMA SaveInsertsStep ==
    ASSUME IInv, SaveInserts
    PROVE  IInv'
<1> USE DEF SaveInserts, SaveInsertItem, InEditor, EditorIdle, AddItem
<1>1. TypeOK /\ StoreIsWellFormed /\ EditorInv /\ ListIsFaithful
  BY InvariantParts
<1>2. /\ groupId \in GroupIds /\ colNum \in 2..5
      /\ contents[groupId] = <<>> /\ Columns(0) = <<>>
  <2>1. Columns(0) = <<>>
    BY ColumnsType, EmptySeq
  <2> QED
    BY <1>1, <2>1, EditedGroup DEF StoreIsWellFormed, NoOrphanColumns
<1> DEFINE n == Len(items)
<1>3. /\ items \in Seq(GroupIds) /\ n \in Nat /\ DOMAIN items = 1..n
      /\ items' \in Seq(GroupIds) /\ Len(items') = n + 1
      /\ DOMAIN items' = 1..(n + 1)
      /\ \A k \in 1..(n + 1) : items'[k] = IF k <= n THEN items[k] ELSE groupId
  <2>1. items \in Seq(GroupIds)
    BY <1>1 DEF TypeOK, RealmTypeOK
  <2> QED
    BY <1>2, <2>1, AppendProperties, LenProperties
<1> HIDE DEF n
<1>4. \A k \in 1..n : items[k] # groupId
  BY <1>3 DEF Stored, Range
<1>5. UniqueGroups'
  <2>1. \A k, l \in 1..n : items[k] = items[l] => k = l
    BY <1>1, <1>3 DEF StoreIsWellFormed, UniqueGroups
  <2> QED
    BY <1>3, <1>4, <2>1 DEF UniqueGroups
<1>6. \A h : Stored(h)' <=> Stored(h) \/ h = groupId
  <2>1. ASSUME NEW h, Stored(h) PROVE Stored(h)'
    <3>1. PICK k \in 1..n : items[k] = h
      BY <1>3, <2>1 DEF Stored, Range
    <3>2. k \in 1..(n + 1) /\ items'[k] = h
      BY <1>3, <3>1
    <3> QED
      BY <1>3, <3>2 DEF Stored, Range
  <2>2. ASSUME NEW h, Stored(h)', h # groupId PROVE Stored(h)
    <3>1. PICK k \in 1..(n + 1) : items'[k] = h
      BY <1>3, <2>2 DEF Stored, Range
    <3>2. k \in 1..n /\ items[k] = h
      BY <1>3, <2>2, <3>1
    <3> QED
      BY <1>3, <3>2 DEF Stored, Range
  <2>3. groupId \in Range(items')
    <3>1. n + 1 \in DOMAIN items' /\ items'[n + 1] = groupId
      BY <1>3
    <3> QED
      BY <3>1 DEF Range
  <2> QED
    BY <2>1, <2>2, <2>3 DEF Stored
<1>7. StoreIsWellFormed'
  BY <1>1, <1>2, <1>5, <1>6 DEF StoreIsWellFormed, ColumnsArePrefix, NoOrphanColumns,
                                Columns
<1>8. faults' \in 0..MaxFaults /\ faults' >= faults
  BY <1>1, FaultsGrow
<1>9. TypeOK'
  <2>1. presented' \in Dialogs
    BY DEF Dialogs, AfterDisplayAd
  <2>2. interstitial' \in {"none", "loading", "ready", "spent"}
    BY <1>1 DEF TypeOK, EditorTypeOK
  <2>3. nextCol' \in ColumnIds /\ pc' \in {"idle", "insert"}
    BY DEF ColumnIds
  <2>4. UNCHANGED <<groupId, colNum, lastSave>> /\ answered' \in BOOLEAN
    OBVIOUS
  <2>5. EditorTypeOK'
    BY <1>1, <2>1, <2>2, <2>3, <2>4, Zenon DEF TypeOK, EditorTypeOK
  <2> QED
    BY <1>1, <1>3, <1>8, <2>5 DEF TypeOK, RealmTypeOK, ListTypeOK, listVars
<1>10. EditorShowsAllColumns'
  BY <1>1 DEF EditorInv, EditorShowsAllColumns
<1>11. InsertionProgress'
  <2>1. nextCol' < colNum' /\ groupId' = groupId /\ nextCol' = 0
    BY <1>2
  <2>2. Stored(groupId)'
    BY <1>6, <2>1 DEF Stored
  <2>3. presented' \in {"none", "ad"}
    BY DEF AfterDisplayAd
  <2> QED
    BY <1>2, <2>1, <2>2, <2>3 DEF InsertionProgress, Columns
<1>12. TornOnlyAfterIncidents'
  <2>1. Underway = {} /\ Underway' = {groupId}
    BY DEF Underway
  <2> QED
    BY <1>1, <1>6, <2>1 DEF EditorInv, TornOnlyAfterIncidents, RealmWorks
<1>13. SavedMeansComplete' /\ AnswerPendingUnderAd'
  BY DEF SavedMeansComplete, AnswerPendingUnderAd
<1> QED
  BY <1>7, <1>8, <1>9, <1>10, <1>11, <1>12, <1>13, InEditorStep

\* What a save under way has stored, and what it may still do.
LEMMA InsertionState ==
    ASSUME IInv, screen = "editor", pc = "insert"
    PROVE  /\ groupId \in GroupIds /\ Stored(groupId)
           /\ nextCol \in 0..4 /\ nextCol < colNum
           /\ colNum \in 2..5 /\ colNum \in 2..MaxCols
           /\ contents[groupId] = Columns(nextCol)
           /\ presented \in {"none", "ad"}
<1>1. TypeOK /\ EditorInv
  BY InvariantParts
<1> QED
  BY <1>1, EditedGroup DEF EditorInv, InsertionProgress, TypeOK, EditorTypeOK,
                           ColumnIds

\* A transaction of the insertion loop: the next column, without a gap.
LEMMA SaveInsertsColumnStep ==
    ASSUME IInv, SaveInsertsColumn
    PROVE  IInv'
<1> USE DEF SaveInsertsColumn, SaveInsertColumn, InEditor, AddColumn
<1>1. TypeOK /\ StoreIsWellFormed /\ EditorInv /\ ListIsFaithful
  BY InvariantParts
<1>2. /\ groupId \in GroupIds /\ Stored(groupId)
      /\ nextCol \in 0..4 /\ nextCol < colNum
      /\ colNum \in 2..5 /\ colNum \in 2..MaxCols
      /\ contents[groupId] = Columns(nextCol)
      /\ presented \in {"none", "ad"}
  BY InsertionState
<1> DEFINE n == nextCol + 1
<1>3. n \in 0..5 /\ n \in 0..MaxCols /\ n \in 1..colNum
  BY <1>2
<1>4. contents' = [contents EXCEPT ![groupId] = Columns(n)]
  BY <1>2, ColumnsAppend
<1> HIDE DEF n
<1>5. /\ contents' \in [GroupIds -> Seq(ColumnIds)]
      /\ \A h \in GroupIds :
            contents'[h] = IF h = groupId THEN Columns(n) ELSE contents[h]
      /\ StoreIsWellFormed'
  BY <1>1, <1>2, <1>3, <1>4, ColumnsWritten
<1>6. Len(Columns(n)) = n
  BY <1>3, ColumnsType
<1>7. faults' \in 0..MaxFaults /\ faults' >= faults /\ faults' = faults
  BY <1>1, FaultsGrow DEF RealmWorks
<1>8. CASE n < colNum
  <2>1. /\ nextCol' = n
        /\ UNCHANGED <<items, groupId, colNum, pc, interstitial, presented,
                       lastSave, answered>>
    BY <1>8 DEF n
  <2>2. TypeOK'
    <3>1. nextCol' \in ColumnIds
      BY <1>2, <1>3, <1>8, <2>1 DEF ColumnIds
    <3> QED
      BY <1>1, <1>5, <1>7, <2>1, <3>1 DEF TypeOK, RealmTypeOK, ListTypeOK,
                                          EditorTypeOK, listVars
  <2>3. EditorShowsAllColumns' /\ InsertionProgress'
    <3>1. contents'[groupId] = Columns(n)
      BY <1>2, <1>5
    <3>2. (contents[groupId] = Columns(nextCol))'
      BY <2>1, <3>1 DEF Columns
    <3>3. Stored(groupId)' /\ nextCol' < colNum' /\ presented' \in {"none", "ad"}
      BY <1>2, <1>8, <2>1 DEF Stored
    <3>4. Len(contents'[groupId']) = n /\ n <= colNum'
      BY <1>3, <1>6, <1>8, <2>1, <3>1
    <3>5. Len(contents'[groupId']) <= colNum'
      BY <3>4
    <3> QED
      BY <3>2, <3>3, <3>5 DEF EditorShowsAllColumns, InsertionProgress
  <2>4. TornOnlyAfterIncidents'
    <3>1. Underway = {groupId} /\ Underway' = {groupId}
      BY <2>1 DEF Underway
    <3> QED
      BY <1>1, <1>5, <1>7, <2>1, <3>1
      DEF EditorInv, TornOnlyAfterIncidents, Stored
  <2>5. SavedMeansComplete' /\ AnswerPendingUnderAd'
    BY <2>1 DEF SavedMeansComplete, AnswerPendingUnderAd
  <2> QED
    BY <1>5, <1>7, <2>1, <2>2, <2>3, <2>4, <2>5, InEditorStep
<1>9. CASE n = colNum
  <2>1. FinishSave(presented, TRUE)
    <3>1. ~(nextCol + 1 < colNum)
      BY <1>2, <1>9 DEF n
    <3> QED
      BY <3>1
  <2>2. items' = items /\ groupId' = groupId /\ pc' = "idle" /\ kills' = kills
    BY <2>1 DEF FinishSave
  <2>3. items' \in Seq(GroupIds) /\ Stored(groupId)'
    BY <1>1, <1>2, <2>2 DEF TypeOK, RealmTypeOK, Stored
  <2>4. TornOnlyAfterIncidents'
    <3>1. Underway = {groupId} /\ Underway' = {}
      BY <2>2 DEF Underway
    <3>2. contents'[groupId] = Columns(n)
      BY <1>2, <1>5
    <3>3. ~(Len(contents'[groupId]) < 2)
      BY <1>2, <1>6, <1>9, <3>2
    <3>4. SUFFICES ASSUME NEW h \in GroupIds, Stored(h)', Len(contents'[h]) < 2
                   PROVE  faults' + kills' > 0
      BY DEF TornOnlyAfterIncidents
    <3>5. h # groupId /\ contents'[h] = contents[h] /\ Stored(h)
      BY <1>5, <2>2, <3>3, <3>4 DEF Stored
    <3>6. h \in GroupIds \ Underway /\ Len(contents[h]) < 2
      BY <3>1, <3>4, <3>5
    <3>7. faults + kills > 0
      BY <1>1, <3>5, <3>6 DEF EditorInv, TornOnlyAfterIncidents
    <3> QED
      BY <1>7, <2>2, <3>7
  <2>5. contents'[groupId] = Columns(n) /\ n <= colNum /\ n \in 0..5
    <3>1. n <= colNum
      BY <1>2, <1>9
    <3> QED
      BY <1>2, <1>3, <1>5, <3>1, Zenon
  <2> QED
    BY <1>2, <1>3, <1>5, <1>9, <2>1, <2>3, <2>4, <2>5, FinishSaveStep
<1> QED
  BY <1>2, <1>3, <1>8, <1>9

\* A transaction of the loop fails: the group keeps what it has got.
LEMMA SaveInsertFailsStep ==
    ASSUME IInv, SaveInsertFails
    PROVE  IInv'
<1> USE DEF SaveInsertFails, SaveInsertColumnThrows, InEditor
<1>1. TypeOK /\ StoreIsWellFormed
  BY InvariantParts
<1>2. /\ nextCol \in 0..4 /\ nextCol < colNum /\ colNum \in 2..5
      /\ contents[groupId] = Columns(nextCol)
      /\ presented \in {"none", "ad"}
  BY InsertionState
<1>3. /\ items' \in Seq(GroupIds)
      /\ contents' \in [GroupIds -> Seq(ColumnIds)]
      /\ contents'[groupId] = Columns(nextCol)
  BY <1>1, <1>2 DEF TypeOK, RealmTypeOK
<1>4. StoreIsWellFormed'
  BY <1>1, DatabaseUntouched
<1>5. TornOnlyAfterIncidents'
  <2>1. faults' + kills' > 0
    BY <1>1 DEF RealmThrows, TypeOK, RealmTypeOK
  <2> QED
    BY <2>1 DEF TornOnlyAfterIncidents
<1>6. nextCol \in 0..5 /\ nextCol <= colNum
  BY <1>2
<1> QED
  BY <1>2, <1>3, <1>4, <1>5, <1>6, FinishSaveStep

-----------------------------------------------------------------------------
(***************************************************************************)
(* The theorems.                                                           *)
(***************************************************************************)

\* The invariant is inductive: every step of the app keeps it.
LEMMA NextInvariant == IInv /\ [Next]_vars => IInv'
<1> SUFFICES ASSUME IInv, [Next]_vars PROVE IInv'
  OBVIOUS
<1>1. CASE Launch
  BY <1>1, LaunchStep
<1>2. CASE Kill
  BY <1>2, KillStep
<1>3. CASE ListNext
  BY <1>3, OpenSteps, AlertSteps, DeleteConfirmedStep, DeleteFailsStep
  DEF ListNext
<1>4. CASE CloseBtnDidTap
  BY <1>4, AlertSteps
<1>5. CASE EditorNext
  BY <1>5, RebuildSteps, SaveUpdatesStep, SaveInsertsStep,
     SaveInsertsColumnStep, SaveInsertFailsStep, SaveFailsStep,
     SaveCrashesStep, DialogSteps, BackStep
  DEF EditorNext, InsertStep
<1>6. CASE UNCHANGED vars
  <2>1. /\ UNCHANGED <<items, contents, editorVars, kills>>
        /\ UNCHANGED <<faults, listVars, screen, exit>>
    BY <1>6 DEF vars, realmVars
  <2>2. TypeOK /\ ListIsFaithful
    BY InvariantParts
  <2>3. TypeOK'
    BY <2>1, <2>2 DEF TypeOK, RealmTypeOK, ListTypeOK, EditorTypeOK, listVars,
                      editorVars
  <2>4. ListIsFaithful'
    BY <2>1, <2>2 DEF ListIsFaithful, RowsIndexBothArrays, FreshListShowsStore, listVars
  <2>5. faults' >= faults
    BY <2>1, <2>2 DEF TypeOK, RealmTypeOK
  <2> QED
    BY <2>1, <2>3, <2>4, <2>5, QuietListStep
<1> QED
  BY <1>1, <1>2, <1>3, <1>4, <1>5, <1>6 DEF Next

\* The invariant holds in every state the app can reach.
THEOREM InvariantHolds == Spec => []IInv
BY InitInvariant, NextInvariant, PTL DEF Spec

\* Every variable stays in its type: in particular the columns of the editor
\* stay within what the device can show, for both limits.
THEOREM TypeCorrect == Spec => []TypeOK
<1>1. IInv => TypeOK
  BY DEF IInv
<1> QED
  BY <1>1, InvariantHolds, PTL

\* The database is well formed after any number of failures and kills: no
\* group twice, its columns 0, 1, ... without a gap, no column without a group.
THEOREM DatabaseWellFormed == Spec => []StoreIsWellFormed
<1>1. IInv => StoreIsWellFormed
  BY DEF IInv
<1> QED
  BY <1>1, InvariantHolds, PTL

\* What the editor saves is what the user sees: all columns are on screen, and
\* a save that says so has stored exactly them.
THEOREM SavesAreComplete == Spec => [](EditorShowsAllColumns /\ SavedMeansComplete)
<1>1. IInv => EditorShowsAllColumns /\ SavedMeansComplete
  BY DEF IInv
<1> QED
  BY <1>1, InvariantHolds, PTL

\* The editor never shows fewer columns than the group has in the database:
\* an update, which writes the columns on screen, leaves none behind.
THEOREM EditorShowsAll == Spec => []EditorShowsAllColumns
<1>1. IInv => EditorShowsAllColumns
  BY DEF IInv
<1> QED
  BY <1>1, InvariantHolds, PTL

\* Without a failed call or a kill nothing of the app unwraps nil.
THEOREM TrapsNeedIncidents == Spec => []TrapsOnlyAfterIncidents
<1>1. IInv => TrapsOnlyAfterIncidents
  BY DEF IInv
<1> QED
  BY <1>1, InvariantHolds, PTL

\* Every save is answered by the time the user can act again.
THEOREM SavesAreAnswered == Spec => []EverySaveAnswered
<1>1. IInv => EverySaveAnswered
  BY DEF IInv, AnswerPendingUnderAd, EverySaveAnswered, EditorIdle, TypeOK,
         EditorTypeOK
<1> QED
  BY <1>1, InvariantHolds, PTL

\* The rows of the list index both arrays, and until one is removed show what
\* is stored.
THEOREM ListIsConsistent == Spec => []ListIsFaithful
<1>1. IInv => ListIsFaithful
  BY DEF IInv
<1> QED
  BY <1>1, InvariantHolds, PTL
=============================================================================
