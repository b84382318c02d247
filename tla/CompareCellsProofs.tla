------------------------- MODULE CompareCellsProofs -------------------------
(***************************************************************************)
(* What happens to the texts of a comparison, for every set of texts, both *)
(* widths of the device and whatever cells are typed into, with failures   *)
(* and deaths of the process or without.                                   *)
(***************************************************************************)
EXTENDS CompareCells, TLAPS

-----------------------------------------------------------------------------
(***************************************************************************)
(* The inductive invariant.                                                *)
(***************************************************************************)

\* What may be stored: texts in columns that are there, with an item to go with them.
Stores(d) ==
    /\ d \in [item : BOOLEAN, cols : 0 .. MaxCols, text : [Cells -> Texts]]
    /\ \A cell \in Cells : d.cols < cell[2] \/ ~d.item => d.text[cell] = Empty
    /\ ~d.item => d.cols = 0

\* The fields that are not on screen are blank.
BlankOutside(f, rows, cols) == \A cell \in Cells \ Visible(rows, cols) : f[cell] = Empty

\* The rows that are not on screen have texts in the first column only.
HidesFirstColumn(d, rows) ==
    \A r \in 2 .. 7, c \in {0} \cup 2 .. 5 : rows < r => d.text[<<r, c>>] = Empty

\* The editor has all stored columns on screen, and nothing else than that is hidden.
EditorShows ==
    open => /\ db.cols <= colNum
            /\ BlankOutside(fields, rowNum, colNum)
            /\ HidesFirstColumn(db, rowNum)

IInv == CellsTypeOK /\ Stores(db) /\ EditorShows

-----------------------------------------------------------------------------
(***************************************************************************)
(* Maxima, cells and what is on screen.                                    *)
(***************************************************************************)
\* The larger of two.
LEMMA MaxOfTwo ==
    ASSUME NEW a \in Int, NEW b \in Int
    PROVE  Max({a, b}) = IF a >= b THEN a ELSE b
<1> DEFINE m == IF a >= b THEN a ELSE b
<1>1. m \in {a, b} /\ \A y \in {a, b} : m >= y
  OBVIOUS
<1>2. \A x \in {a, b} : (\A y \in {a, b} : x >= y) => x = m
  OBVIOUS
<1> QED
  BY <1>1, <1>2 DEF Max

\* The last of some rows.
LEMMA MaxOfRows ==
    ASSUME NEW S \in SUBSET (1 .. 7), 1 \in S
    PROVE  Max(S) \in S /\ \A y \in S : Max(S) >= y
<1>1. \E x \in S : \A y \in S : x >= y
  <2>1. CASE 7 \in S
    BY <2>1
  <2>2. CASE 7 \notin S /\ 6 \in S
    BY <2>2
  <2>3. CASE S \subseteq 1 .. 5 /\ 5 \in S
    BY <2>3
  <2>4. CASE S \subseteq 1 .. 4 /\ 4 \in S
    BY <2>4
  <2>5. CASE S \subseteq 1 .. 3 /\ 3 \in S
    BY <2>5
  <2>6. CASE S \subseteq 1 .. 2 /\ 2 \in S
    BY <2>6
  <2>7. CASE S \subseteq 1 .. 1
    BY <2>7
  <2> QED
    BY <2>1, <2>2, <2>3, <2>4, <2>5, <2>6, <2>7
<1> QED
  BY <1>1 DEF Max

\* Cells are pairs of a row and a column, but for one in the row of the memos.
LEMMA CellIsPair ==
    ASSUME NEW cell \in Cells
    PROVE  /\ cell[1] \in 0 .. 8 /\ cell[2] \in 0 .. 5 /\ cell = <<cell[1], cell[2]>>
           /\ cell[1] = 8 => cell[2] # 0
BY DEF Cells

\* So are the cells of the rows below the first item.
LEMMA LowerCells ==
    \A r \in 2 .. 7, c \in {0} \cup 2 .. 5 :
        <<r, c>> \in Cells /\ <<r, c>>[1] = r /\ <<r, c>>[2] = c
BY DEF Cells

\* What the editor reads is on screen then.
LEMMA ReadsAreVisible ==
    ASSUME NEW d, d.cols \in 0 .. MaxCols,
           NEW rows \in 1 .. 7, NEW cols \in 2 .. MaxCols, d.cols <= cols
    PROVE  Reads(d, rows, cols) \subseteq Visible(rows, cols)
BY WidthAssumption, CellIsPair DEF Reads, Visible

\* A view has the columns that are stored, and at least those asked for.
LEMMA LoadedColsFit ==
    ASSUME NEW d, d.cols \in 0 .. MaxCols, NEW cols \in 2 .. MaxCols
    PROVE  /\ LoadedCols(d, cols) \in 2 .. MaxCols
           /\ d.cols <= LoadedCols(d, cols) /\ cols <= LoadedCols(d, cols)
           /\ d.cols <= cols => LoadedCols(d, cols) = cols
BY WidthAssumption DEF LoadedCols

\* What HiddenTextsAreFirstColumn says follows from the invariant.
LEMMA HiddenFollows == IInv => HiddenTextsAreFirstColumn
<1> SUFFICES ASSUME IInv, open, NEW cell \in Cells, ~Shown(cell)
             PROVE  /\ fields[cell] = Empty
                    /\ \/ db.text[cell] = Empty
                       \/ /\ cell[1] \in 2 .. 7 /\ cell[2] = 1
                          /\ \A c \in {0} \cup 2 .. 5 : db.text[<<cell[1], c>>] = Empty
  BY DEF HiddenTextsAreFirstColumn
<1>1. fields[cell] = Empty /\ db.cols <= colNum /\ HidesFirstColumn(db, rowNum)
  BY DEF IInv, EditorShows, BlankOutside, Shown
<1>2. rowNum \in 1 .. 7 /\ colNum \in 2 .. 5 /\ db.cols \in 0 .. 5
  BY WidthAssumption DEF IInv, CellsTypeOK
<1>3. cell[1] \in 0 .. 8 /\ cell[2] \in 0 .. 5 /\ cell = <<cell[1], cell[2]>>
  BY CellIsPair
<1>4. colNum < cell[2] \/ (cell[1] \in 2 .. 7 /\ rowNum < cell[1])
  BY <1>2, <1>3 DEF Shown, Visible
<1>5. CASE colNum < cell[2]
  BY <1>1, <1>2, <1>3, <1>5 DEF IInv, Stores
<1>6. CASE cell[1] \in 2 .. 7 /\ rowNum < cell[1] /\ cell[2] = 1
  BY <1>1, <1>6 DEF HidesFirstColumn
<1>7. CASE cell[1] \in 2 .. 7 /\ rowNum < cell[1] /\ cell[2] # 1
  <2>1. cell[2] \in {0} \cup 2 .. 5
    BY <1>3, <1>7
  <2>2. db.text[<<cell[1], cell[2]>>] = Empty
    BY <1>1, <1>7, <2>1 DEF HidesFirstColumn
  <2> QED
    BY <1>1, <1>3, <2>2
<1> QED
  BY <1>1, <1>4, <1>5, <1>6, <1>7

-----------------------------------------------------------------------------
(***************************************************************************)
(* Every step keeps the invariant.                                         *)
(***************************************************************************)

\* A view is loaded of what is stored, into fields of which the hidden ones are blank.
LEMMA ShowStep ==
    ASSUME NEW d, Stores(d), NEW f \in [Cells -> Texts],
           NEW rows \in 1 .. 7, NEW cols \in 2 .. MaxCols,
           BlankOutside(f, rows, LoadedCols(d, cols)), HidesFirstColumn(d, rows),
           db' = d, Show(d, f, rows, cols), open' = TRUE, stale' \in BOOLEAN
    PROVE  IInv'
<1> DEFINE lc == LoadedCols(d, cols)
<1>1. lc \in 2 .. MaxCols /\ d.cols <= lc /\ d.cols \in 0 .. MaxCols
  BY LoadedColsFit DEF Stores
<1>2. /\ rowNum' = rows /\ colNum' = lc
      /\ fields' = Loaded(f, d, rows, lc)
  BY DEF Show
<1>3. Reads(d, rows, lc) \subseteq Visible(rows, lc)
  BY <1>1, ReadsAreVisible
<1> HIDE DEF lc
<1>4. fields' = [cell \in Cells |-> IF cell \in Reads(d, rows, lc) THEN d.text[cell] ELSE f[cell]]
  BY <1>2 DEF Loaded
<1>5. fields' \in [Cells -> Texts]
  BY <1>4 DEF Stores
<1>6. BlankOutside(fields', rows, lc)
  BY <1>3, <1>4 DEF BlankOutside, lc
<1>7. CellsTypeOK'
  BY <1>1, <1>2, <1>5 DEF CellsTypeOK, Stores
<1>8. Stores(db)' /\ EditorShows'
  BY <1>1, <1>2, <1>6 DEF Stores, EditorShows, BlankOutside, HidesFirstColumn
<1> QED
  BY <1>7, <1>8 DEF IInv

\* The fields of a new editor are blank.
LEMMA BlankFields ==
    /\ Blank \in [Cells -> Texts]
    /\ \A rows, cols : BlankOutside(Blank, rows, cols)
    /\ Stores(NoGroup) /\ \A rows : HidesFirstColumn(NoGroup, rows)
<1>1. Blank \in [Cells -> Texts] /\ \A rows, cols : BlankOutside(Blank, rows, cols)
  BY TextsAssumption DEF Blank, BlankOutside
<1>2. NoGroup.item = FALSE /\ NoGroup.cols = 0 /\ NoGroup.text = Blank
  BY DEF NoGroup
<1>3. Stores(NoGroup)
  <2>1. 0 \in 0 .. MaxCols /\ FALSE \in BOOLEAN
    BY WidthAssumption
  <2>2. NoGroup \in [item : BOOLEAN, cols : 0 .. MaxCols, text : [Cells -> Texts]]
    BY <1>1, <2>1 DEF NoGroup
  <2>3. \A cell \in Cells : Blank[cell] = Empty
    BY DEF Blank
  <2> QED
    BY <1>2, <2>2, <2>3 DEF Stores
<1>4. ASSUME NEW rows PROVE HidesFirstColumn(NoGroup, rows)
  <2>1. \A r \in 2 .. 7, c \in {0} \cup 2 .. 5 : <<r, c>> \in Cells
    BY LowerCells
  <2> QED
    BY <1>2, <2>1 DEF HidesFirstColumn, Blank
<1> QED
  BY <1>1, <1>3, <1>4

\* A group is opened with its rows up to the last one that RowsOf looks at.
LEMMA OpenStep ==
    ASSUME IInv, OpenNew \/ OpenRow
    PROVE  IInv'
<1>1. Stores(db) /\ stale \in BOOLEAN /\ open' = TRUE /\ UNCHANGED <<db, stale>>
  BY DEF IInv, CellsTypeOK, OpenNew, OpenRow
<1>2. 2 \in 2 .. MaxCols /\ 1 \in 1 .. 7
  BY WidthAssumption
<1>3. CASE ~db.item
  <2>1. \A rows \in Nat : HidesFirstColumn(db, rows)
    <3> SUFFICES ASSUME NEW r \in 2 .. 7, NEW c \in {0} \cup 2 .. 5
                 PROVE  db.text[<<r, c>>] = Empty
      BY DEF HidesFirstColumn
    <3>1. <<r, c>> \in Cells
      BY LowerCells
    <3> QED
      BY <1>1, <1>3, <3>1 DEF Stores
  <2>2. Show(db, Blank, 1, 2) \/ Show(db, Blank, 7, 2)
    BY <1>3 DEF OpenNew, OpenRow, RowsOf
  <2> QED
    BY <1>1, <1>2, <2>1, <2>2, BlankFields, ShowStep
<1>4. CASE db.item
  <2> DEFINE S == {1} \cup {r \in 2 .. 7 : \E c \in {0} \cup 2 .. 5 : db.text[<<r, c>>] # Empty}
  <2>1. Show(db, Blank, Max(S), 2)
    BY <1>4 DEF OpenNew, OpenRow, RowsOf
  <2>2. Max(S) \in S /\ \A y \in S : Max(S) >= y
    <3>1. S \in SUBSET (1 .. 7) /\ 1 \in S
      OBVIOUS
    <3> HIDE DEF S
    <3> QED
      BY <3>1, MaxOfRows
  <2>3. Max(S) \in 1 .. 7
    BY <2>2
  <2>4. HidesFirstColumn(db, Max(S))
    <3>1. \A r \in 2 .. 7, c \in {0} \cup 2 .. 5 : db.text[<<r, c>>] # Empty => r \in S
      OBVIOUS
    <3> HIDE DEF S
    <3>2. \A r \in 2 .. 7 : r \in S => ~(Max(S) < r)
      BY <2>2, <2>3
    <3> QED
      BY <3>1, <3>2 DEF HidesFirstColumn
  <2> HIDE DEF S
  <2> QED
    BY <1>1, <1>2, <2>1, <2>3, <2>4, BlankFields, ShowStep
<1> QED
  BY <1>3, <1>4

\* What a save that writes k columns leaves in the database.
LEMMA WrittenIsStored ==
    ASSUME IInv, open, NEW k \in 0 .. colNum
    PROVE  /\ Stores(Written(k)) /\ HidesFirstColumn(Written(k), rowNum)
           /\ Written(k).cols <= colNum
           /\ Written(k).cols = IF db.cols >= k THEN db.cols ELSE k
           /\ \A cell \in Cells :
                 Written(k).text[cell] =
                    IF cell[2] = 0 \/ cell[2] <= k THEN fields[cell] ELSE db.text[cell]
<1>1. /\ rowNum \in 1 .. 7 /\ colNum \in 2 .. MaxCols /\ MaxCols \in 4 .. 5
      /\ db \in [item : BOOLEAN, cols : 0 .. MaxCols, text : [Cells -> Texts]]
      /\ fields \in [Cells -> Texts]
  BY WidthAssumption DEF IInv, CellsTypeOK
<1>2. /\ Stores(db) /\ db.cols <= colNum /\ BlankOutside(fields, rowNum, colNum)
      /\ HidesFirstColumn(db, rowNum)
  BY DEF IInv, EditorShows
<1> DEFINE w == Written(k)
           text == [cell \in Cells |-> IF cell[2] = 0 \/ cell[2] <= k
                                       THEN fields[cell] ELSE db.text[cell]]
<1>3. Max({db.cols, k}) = IF db.cols >= k THEN db.cols ELSE k
  BY <1>1, MaxOfTwo
<1>4. w = [db EXCEPT !.item = TRUE, !.cols = Max({@, k}), !.text = text]
  BY DEF Written
<1>5. text \in [Cells -> Texts]
  BY <1>1
<1>e. \A cell \in Cells : text[cell] = IF cell[2] = 0 \/ cell[2] <= k
                                      THEN fields[cell] ELSE db.text[cell]
  OBVIOUS
<1> HIDE DEF w, text
<1>6. w.item = TRUE /\ w.cols = (IF db.cols >= k THEN db.cols ELSE k) /\ w.text = text
  BY <1>1, <1>3, <1>4
<1>7. w.cols \in 0 .. MaxCols /\ w.cols <= colNum
  BY <1>1, <1>2, <1>6
<1>8. Stores(w)
  <2>1. ASSUME NEW cell \in Cells, w.cols < cell[2] PROVE text[cell] = Empty
    <3>1. cell[2] \in 0 .. 5 /\ db.cols \in Nat /\ k \in Nat
      BY <1>1, CellIsPair
    <3>2. db.cols < cell[2] /\ k < cell[2] /\ cell[2] # 0
      BY <1>6, <2>1, <3>1
    <3> QED
      BY <1>2, <1>e, <3>1, <3>2 DEF Stores
  <2>2. w \in [item : BOOLEAN, cols : 0 .. MaxCols, text : [Cells -> Texts]]
    BY <1>1, <1>4, <1>5, <1>6, <1>7
  <2> QED
    BY <1>6, <2>1, <2>2 DEF Stores
<1>9. HidesFirstColumn(w, rowNum)
  <2> SUFFICES ASSUME NEW r \in 2 .. 7, NEW c \in {0} \cup 2 .. 5, rowNum < r
               PROVE  text[<<r, c>>] = Empty
    BY <1>6 DEF HidesFirstColumn
  <2>1. <<r, c>> \in Cells /\ <<r, c>>[1] = r
    BY LowerCells
  <2>2. <<r, c>> \notin Visible(rowNum, colNum)
    BY <1>1, <2>1 DEF Visible
  <2>3. fields[<<r, c>>] = Empty /\ db.text[<<r, c>>] = Empty
    BY <1>2, <2>1, <2>2 DEF BlankOutside, HidesFirstColumn
  <2> QED
    BY <1>e, <2>1, <2>3
<1> QED
  BY <1>6, <1>7, <1>8, <1>9, <1>e DEF w

\* A save, whether it gets to its end or not, loads the view of what it has left.
LEMMA SaveStep ==
    ASSUME IInv, SaveUpdate \/ SaveInsert \/ SaveFails
    PROVE  IInv'
<1>1. /\ open /\ open' = TRUE /\ stale' \in BOOLEAN /\ Stores(db)
      /\ db.cols <= colNum /\ BlankOutside(fields, rowNum, colNum)
      /\ HidesFirstColumn(db, rowNum)
      /\ fields \in [Cells -> Texts] /\ rowNum \in 1 .. 7 /\ colNum \in 2 .. MaxCols
  BY DEF IInv, CellsTypeOK, EditorShows, SaveUpdate, SaveInsert, SaveFails
<1>2. PICK d : db' = d /\ Show(d, fields, rowNum, colNum)
               /\ (d = db \/ \E k \in 0 .. colNum : d = Written(k))
  BY <1>1, WidthAssumption DEF SaveUpdate, SaveInsert, SaveFails, HalfWritten
<1>3. Stores(d) /\ HidesFirstColumn(d, rowNum) /\ d.cols <= colNum
  BY <1>1, <1>2, WrittenIsStored
<1>4. LoadedCols(d, colNum) = colNum
  BY <1>1, <1>3, LoadedColsFit DEF Stores
<1> QED
  BY <1>1, <1>2, <1>3, <1>4, ShowStep

\* A row or a column is added: what is hidden now was hidden before.
LEMMA RebuildStep ==
    ASSUME IInv, AddName \/ AddItem
    PROVE  IInv'
<1>1. PICK rows \in rowNum .. 7, cols \in colNum .. MaxCols : RebuildFor(rows, cols)
  BY WidthAssumption DEF IInv, CellsTypeOK, AddName, AddItem
<1>2. /\ open /\ Stores(db) /\ db.cols <= colNum /\ BlankOutside(fields, rowNum, colNum)
      /\ HidesFirstColumn(db, rowNum) /\ stale \in BOOLEAN
      /\ fields \in [Cells -> Texts] /\ rowNum \in 1 .. 7 /\ colNum \in 2 .. 5
      /\ MaxCols \in 4 .. 5
  BY <1>1, WidthAssumption DEF IInv, CellsTypeOK, EditorShows, RebuildFor
<1>3. rows \in 1 .. 7 /\ cols \in 2 .. MaxCols /\ db.cols \in 0 .. MaxCols /\ db.cols <= cols
  BY <1>1, <1>2 DEF Stores
<1>4. LoadedCols(db, cols) = cols
  BY <1>3, LoadedColsFit
<1> DEFINE loaded == Loaded(fields, db, rows, cols)
<1>5. /\ rowNum' = rows /\ colNum' = cols
      /\ fields' = Restored(loaded, fields, rows)
      /\ UNCHANGED <<db, open, stale>>
  BY <1>1, <1>4 DEF RebuildFor
<1>6. loaded \in [Cells -> Texts]
      /\ \A cell \in Cells \ Reads(db, rows, cols) : loaded[cell] = fields[cell]
  BY <1>2 DEF Loaded, Stores
<1> HIDE DEF loaded
<1>7. fields' \in [Cells -> Texts]
      /\ \A cell \in Cells : fields'[cell] = fields[cell] \/ fields'[cell] = loaded[cell]
  BY <1>2, <1>5, <1>6 DEF Restored
<1>8. BlankOutside(fields', rows, cols)
  <2>1. Visible(rowNum, colNum) \subseteq Visible(rows, cols)
    BY <1>1, <1>2, <1>3, CellIsPair DEF Visible
  <2>2. Reads(db, rows, cols) \subseteq Visible(rows, cols)
    BY <1>3, ReadsAreVisible
  <2> QED
    BY <1>2, <1>6, <1>7, <2>1, <2>2 DEF BlankOutside
<1>9. HidesFirstColumn(db, rows)
  BY <1>1, <1>2, <1>3 DEF HidesFirstColumn
<1>10. CellsTypeOK' /\ Stores(db)'
  BY <1>2, <1>3, <1>5, <1>7 DEF CellsTypeOK, Stores
<1>11. EditorShows'
  BY <1>3, <1>5, <1>8, <1>9 DEF EditorShows, BlankOutside, HidesFirstColumn
<1> QED
  BY <1>10, <1>11 DEF IInv

\* What is typed is on screen.
LEMMA EditStep ==
    ASSUME IInv, Edit
    PROVE  IInv'
<1>1. PICK cell \in EditedCells \cap Visible(rowNum, colNum), t \in Texts :
          fields' = [fields EXCEPT ![cell] = t]
  BY DEF Edit
<1>2. UNCHANGED <<db, rowNum, colNum, open, stale>>
  BY DEF Edit
<1>3. fields' \in [Cells -> Texts]
      /\ \A e \in Cells : e # cell => fields'[e] = fields[e]
  BY <1>1 DEF IInv, CellsTypeOK
<1>4. CellsTypeOK' /\ Stores(db)'
  BY <1>2, <1>3 DEF IInv, CellsTypeOK, Stores
<1>5. EditorShows'
  BY <1>1, <1>2, <1>3 DEF IInv, EditorShows, BlankOutside, HidesFirstColumn
<1> QED
  BY <1>4, <1>5 DEF IInv

\* The editor is left, or the list is in front.
LEMMA ListStep ==
    ASSUME IInv, Back \/ ProcessDies \/ Delete \/ ListReloads
    PROVE  IInv'
<1>1. Stores(db) /\ CellsTypeOK
  BY DEF IInv
<1>2. Stores(db')
  <2>1. CASE Back \/ ListReloads
    BY <1>1, <2>1 DEF Back, ListReloads
  <2>2. CASE Delete
    BY <2>2, BlankFields DEF Delete
  <2>3. CASE ProcessDies
    <3>1. open /\ (db' = db \/ \E k \in 0 .. colNum : db' = Written(k))
      BY <1>1, <2>3, WidthAssumption DEF ProcessDies, HalfWritten, CellsTypeOK
    <3> QED
      BY <1>1, <3>1, WrittenIsStored
  <2> QED
    BY <2>1, <2>2, <2>3
<1>3. open' = FALSE /\ stale' \in BOOLEAN
  BY DEF Back, ProcessDies, Delete, ListReloads, Close, IInv, CellsTypeOK
<1>4. fields' \in [Cells -> Texts] /\ rowNum' \in 1 .. 7 /\ colNum' \in 2 .. MaxCols
  BY <1>1, BlankFields, WidthAssumption
     DEF Back, ProcessDies, Delete, ListReloads, Close, CellsTypeOK
<1> QED
  BY <1>2, <1>3, <1>4 DEF IInv, CellsTypeOK, Stores, EditorShows

-----------------------------------------------------------------------------
(***************************************************************************)
(* The theorems about states.                                              *)
(***************************************************************************)

\* The invariant holds at first ...
LEMMA InitInvariant == CellsInit => IInv
<1> SUFFICES ASSUME CellsInit PROVE IInv
  OBVIOUS
<1>1. Stores(db) /\ open = FALSE /\ stale = FALSE
  BY BlankFields DEF CellsInit
<1>2. fields \in [Cells -> Texts] /\ rowNum \in 1 .. 7 /\ colNum \in 2 .. MaxCols
  BY BlankFields, WidthAssumption DEF CellsInit
<1> QED
  BY <1>1, <1>2 DEF IInv, CellsTypeOK, Stores, EditorShows

\* ... and after every step.
LEMMA NextInvariant == IInv /\ [CellsNext]_cellVars => IInv'
<1> SUFFICES ASSUME IInv, [CellsNext]_cellVars PROVE IInv'
  OBVIOUS
<1>1. CASE CellsNext
  BY <1>1, OpenStep, SaveStep, RebuildStep, EditStep, ListStep DEF CellsNext
<1>2. CASE UNCHANGED cellVars
  BY <1>2 DEF cellVars, IInv, CellsTypeOK, Stores, EditorShows, BlankOutside,
     HidesFirstColumn
<1> QED
  BY <1>1, <1>2

\* The inductive invariant holds in every reachable state.
THEOREM InvariantHolds == CellsSpec => []IInv
BY InitInvariant, NextInvariant, PTL DEF CellsSpec

\* Texts, rows and columns stay what the code takes them for.
THEOREM TypeCorrect == CellsSpec => []CellsTypeOK
<1>1. IInv => CellsTypeOK
  BY DEF IInv
<1> QED
  BY <1>1, InvariantHolds, PTL

\* Whatever is opened, added, typed or saved, the only stored texts that the editor does not
\* show, and that a save therefore blanks, are in the first column of rows that didSelectRowAt
\* takes for empty.
THEOREM OnlyFirstColumnHides == CellsSpec => []HiddenTextsAreFirstColumn
BY HiddenFollows, InvariantHolds, PTL

-----------------------------------------------------------------------------
(***************************************************************************)
(* The theorems about steps.                                               *)
(***************************************************************************)

\* A save that works stores what is on screen, and shows it again.
LEMMA NextKeepsTexts ==
    IInv /\ [CellsNext]_cellVars =>
        (SaveUpdate \/ SaveInsert
         => \A cell \in Visible(rowNum, colNum) :
                /\ db'.text[cell] = fields[cell]
                /\ fields'[cell] = fields[cell])
<1> SUFFICES ASSUME IInv, SaveUpdate \/ SaveInsert, NEW cell \in Visible(rowNum, colNum)
             PROVE  db'.text[cell] = fields[cell] /\ fields'[cell] = fields[cell]
  OBVIOUS
<1>1. /\ open /\ db' = Written(colNum) /\ colNum \in 0 .. colNum
      /\ fields' = Loaded(fields, db', rowNum, LoadedCols(db', colNum))
  BY WidthAssumption DEF SaveUpdate, SaveInsert, Show, IInv, CellsTypeOK
<1>2. cell \in Cells /\ cell[2] <= colNum
  BY CellIsPair, WidthAssumption DEF Visible, IInv, CellsTypeOK
<1>3. db'.text[cell] = fields[cell]
  BY <1>1, <1>2, WrittenIsStored
<1>4. fields'[cell] = db'.text[cell] \/ fields'[cell] = fields[cell]
  BY <1>1, <1>2 DEF Loaded
<1> QED
  BY <1>3, <1>4

\* A save stores what the user sees, and the view that it loads afterwards shows the same,
\* although it reads some cells on conditions only.
THEOREM SavedTextsAreShown == CellsSpec => SaveKeepsTexts
<1> DEFINE A == SaveUpdate \/ SaveInsert
                => \A cell \in Visible(rowNum, colNum) :
                       /\ db'.text[cell] = fields[cell]
                       /\ fields'[cell] = fields[cell]
<1>1. IInv /\ [CellsNext]_cellVars => [A]_cellVars
  BY NextKeepsTexts
<1>2. CellsSpec => [][A]_cellVars
  BY <1>1, InvariantHolds, PTL DEF CellsSpec
<1> QED
  BY <1>2 DEF SaveKeepsTexts

\* The columns that a view reads although they have not been stored: row 1 and the memos.
LEMMA MissingColumnsRead ==
    ASSUME NEW d, d.cols \in 0 .. MaxCols, NEW rows \in 1 .. 7, NEW cols \in 2 .. MaxCols,
           NEW cell \in Reads(d, rows, cols), d.cols < cell[2]
    PROVE  cell[1] \in {1, 8}
<1>1. /\ cell \in Cells /\ cell[1] \in 0 .. 8 /\ cell[2] \in 0 .. 5 /\ d.cols \in Nat
      /\ cols \in Nat /\ rows \in Nat
  BY CellIsPair, WidthAssumption DEF Reads
<1>2. ~(cell[2] <= d.cols) /\ cell[2] # 0 /\ cell[2] \notin 1 .. d.cols
  BY <1>1
<1>3. cell[1] # 0 /\ ~(cell[1] \in 2 .. rows)
  BY <1>1, <1>2 DEF Reads
<1> QED
  BY <1>1, <1>2, <1>3 DEF Reads

\* What a failed save leaves of the texts on screen.
Fails ==
    \A cell \in Visible(rowNum, colNum) :
        \/ fields'[cell] = fields[cell]
        \/ db.item /\ cell[2] <= db.cols /\ fields'[cell] = db.text[cell]
        \/ cell[1] \in {1, 8} /\ cell[2] > db'.cols /\ fields'[cell] = Empty

\* A failed save reads back what was stored before or by the columns it still wrote.
LEMMA NextFails == IInv /\ [CellsNext]_cellVars => (SaveFails => Fails)
<1> SUFFICES ASSUME IInv, SaveFails, NEW cell \in Visible(rowNum, colNum)
             PROVE  \/ fields'[cell] = fields[cell]
                    \/ db.item /\ cell[2] <= db.cols /\ fields'[cell] = db.text[cell]
                    \/ cell[1] \in {1, 8} /\ cell[2] > db'.cols /\ fields'[cell] = Empty
  BY DEF Fails
<1>1. PICK d \in HalfWritten : db' = d /\ Show(d, fields, rowNum, colNum)
  BY DEF SaveFails
<1>2. /\ open /\ Stores(db) /\ db.cols <= colNum
      /\ rowNum \in 1 .. 7 /\ colNum \in 2 .. MaxCols
  BY DEF SaveFails, IInv, EditorShows, CellsTypeOK
<1>3. d = db \/ (~db.item /\ \E k \in 0 .. colNum : d = Written(k))
  BY <1>2, WidthAssumption DEF HalfWritten
<1>4. Stores(d) /\ d.cols <= colNum /\ d.cols \in 0 .. MaxCols
  BY <1>2, <1>3, WrittenIsStored DEF Stores
<1>5. fields' = Loaded(fields, d, rowNum, colNum)
  BY <1>1, <1>2, <1>4, LoadedColsFit DEF Show
<1>6. /\ cell \in Cells /\ cell[2] \in 0 .. 5 /\ d.cols \in Int
      /\ fields'[cell] = IF cell \in Reads(d, rowNum, colNum) THEN d.text[cell] ELSE fields[cell]
  BY <1>4, <1>5, CellIsPair, WidthAssumption DEF Visible, Loaded
<1> SUFFICES ASSUME cell \in Reads(d, rowNum, colNum)
             PROVE  \/ d.text[cell] = fields[cell]
                    \/ db.item /\ cell[2] <= db.cols /\ d.text[cell] = db.text[cell]
                    \/ cell[1] \in {1, 8} /\ cell[2] > d.cols /\ d.text[cell] = Empty
  BY <1>1, <1>6
<1>7. CASE d.cols < cell[2]
  <2>1. cell[1] \in {1, 8}
    BY <1>2, <1>4, <1>7, MissingColumnsRead
  <2>2. d.text[cell] = Empty
    BY <1>4, <1>6, <1>7 DEF Stores
  <2> QED
    BY <1>6, <1>7, <2>1, <2>2
<1>8. CASE ~(d.cols < cell[2]) /\ db.item
  BY <1>3, <1>6, <1>8
<1>9. CASE ~(d.cols < cell[2]) /\ ~db.item /\ d = db
  <2>1. cell[2] = 0
    BY <1>2, <1>6, <1>9 DEF Stores
  <2>2. d.item
    \* Nothing of column 0 is read without an item: row 1 needs one too.
    BY <1>6, <1>9, <2>1 DEF Reads, Stores
  <2> QED
    BY <1>9, <2>2
<1>10. CASE ~(d.cols < cell[2]) /\ ~db.item /\ \E k \in 0 .. colNum : d = Written(k)
  <2>1. PICK k \in 0 .. colNum : d = Written(k)
    BY <1>10
  <2>2. db.cols = 0
    BY <1>2, <1>10 DEF Stores
  <2>3. k \in Nat /\ d.cols = k
    BY <1>2, <2>1, <2>2, WrittenIsStored, WidthAssumption
  <2>4. cell[2] <= k
    BY <1>6, <1>10, <2>3
  <2>5. d.text[cell] = fields[cell]
    BY <1>2, <1>6, <2>1, <2>4, WrittenIsStored
  <2> QED
    BY <2>5
<1> QED
  BY <1>3, <1>7, <1>8, <1>9, <1>10

\* However far a save gets that fails: of a group that was stored it brings the old texts
\* back, and of columns that are not stored it blanks row 1 and the memos; the rest of what
\* has been typed stays and can be saved again.
THEOREM FailedSavesLose == CellsSpec => FailedSavesLoseKnownTexts
<1>1. IInv /\ [CellsNext]_cellVars => [SaveFails => Fails]_cellVars
  BY NextFails
<1>2. CellsSpec => [][SaveFails => Fails]_cellVars
  BY <1>1, InvariantHolds, PTL DEF CellsSpec
<1> QED
  BY <1>2 DEF FailedSavesLoseKnownTexts, Fails

\* restoreData puts every row back but the last one, when that is the fifth or a later one.
LEMMA RowsRestored ==
    ASSUME NEW rows \in 1 .. 7, NEW r \in 0 .. rows \cup {8}, r # rows \/ r < 5
    PROVE  r \in RestoredRows(rows)
<1>1. BackupCount(rows) = 5 + IF rows >= 2 THEN rows - 2 ELSE 0
  <2>1. rows - 2 \in Int /\ 0 \in Int
    OBVIOUS
  <2>2. Max({0, rows - 2}) = IF 0 >= rows - 2 THEN 0 ELSE rows - 2
    BY <2>1, MaxOfTwo
  <2> QED
    BY <2>2 DEF BackupCount
<1>2. CASE r \in {0, 1, 2, 8}
  BY <1>2 DEF RestoredRows
<1>3. CASE r \in 3 .. 4 /\ r <= rows
  <2>1. BackupCount(rows) >= r + 3
    BY <1>1, <1>3
  <2> QED
    BY <1>3, <2>1 DEF RestoredRows
<1>4. CASE r \in 5 .. 7 /\ r < rows
  <2>1. BackupCount(rows) >= r + 4
    BY <1>1, <1>4
  <2> QED
    BY <1>4, <2>1 DEF RestoredRows
<1> QED
  BY <1>2, <1>3, <1>4

\* Adding restores what is on screen, but for that row.
LEMMA NextAdds ==
    IInv /\ [CellsNext]_cellVars =>
        (AddName \/ AddItem
         => \A cell \in Visible(rowNum, colNum) :
                \/ fields'[cell] = fields[cell]
                \/ cell[1] \in 5 .. 7 /\ cell[1] = rowNum')
<1> SUFFICES ASSUME IInv, AddName \/ AddItem, NEW cell \in Visible(rowNum, colNum),
                    ~(cell[1] \in 5 .. 7 /\ cell[1] = rowNum')
             PROVE  fields'[cell] = fields[cell]
  OBVIOUS
<1>1. PICK rows \in rowNum .. 7, cols \in Int : RebuildFor(rows, cols)
  BY WidthAssumption DEF IInv, CellsTypeOK, AddName, AddItem
<1>2. PICK loaded : fields' = Restored(loaded, fields, rows)
  BY <1>1 DEF RebuildFor
<1>3. rowNum \in 1 .. 7 /\ rows \in 1 .. 7 /\ rowNum <= rows /\ rowNum' = rows
  BY <1>1 DEF RebuildFor, IInv, CellsTypeOK
<1>4. cell \in Cells /\ cell[1] \in 0 .. rowNum \cup {8}
  BY DEF Visible
<1>5. cell[1] \in 0 .. rows \cup {8} /\ (cell[1] # rows \/ cell[1] < 5)
  BY <1>3, <1>4
<1>6. cell[1] \in RestoredRows(rows)
  BY <1>3, <1>5, RowsRestored
<1> QED
  BY <1>2, <1>4, <1>6 DEF Restored

\* Adding a row or a column keeps what has been typed, but for the one row that restoreData
\* miscounts.
THEOREM AddingLosesOneRow == CellsSpec => AddingKeepsTexts
<1> DEFINE A == AddName \/ AddItem
                => \A cell \in Visible(rowNum, colNum) :
                       \/ fields'[cell] = fields[cell]
                       \/ cell[1] \in 5 .. 7 /\ cell[1] = rowNum'
<1>1. IInv /\ [CellsNext]_cellVars => [A]_cellVars
  BY NextAdds
<1>2. CellsSpec => [][A]_cellVars
  BY <1>1, InvariantHolds, PTL DEF CellsSpec
<1> QED
  BY <1>2 DEF AddingKeepsTexts

\* What is not shown of a group that is opened.
Opens ==
    \A cell \in Cells :
        \/ db.text[cell] = Empty
        \/ Shown(cell)' /\ fields'[cell] = db.text[cell]
        \/ cell \in {<<1, 1>>, <<1, 2>>} /\ db.text[<<1, 0>>] = Empty
        \/ cell[1] \in 2 .. 7 /\ cell[2] = 1 /\ ~Shown(cell)'

\* Opening a row reads the rest.
LEMMA NextOpens == IInv /\ [CellsNext]_cellVars => (OpenRow => Opens)
<1> SUFFICES ASSUME IInv, OpenRow, NEW cell \in Cells, db.text[cell] # Empty
             PROVE  \/ Shown(cell)' /\ fields'[cell] = db.text[cell]
                    \/ cell \in {<<1, 1>>, <<1, 2>>} /\ db.text[<<1, 0>>] = Empty
                    \/ cell[1] \in 2 .. 7 /\ cell[2] = 1 /\ ~Shown(cell)'
  BY DEF Opens
<1> DEFINE rows == RowsOf(db)
           cols == LoadedCols(db, 2)
<1>1. Stores(db) /\ db.item /\ cell[2] <= db.cols
  <2>1. Stores(db)
    BY DEF IInv
  <2>2. cell[2] \in 0 .. 5 /\ db.cols \in Int
    BY <2>1, CellIsPair, WidthAssumption DEF Stores
  <2> QED
    BY <2>1, <2>2 DEF Stores
<1>2. cols \in 2 .. 5 /\ db.cols <= cols /\ db.cols \in Nat
  BY <1>1, LoadedColsFit, WidthAssumption DEF Stores
<1>3. rows \in 1 .. 7 /\ \A r \in 2 .. 7 :
          (\E c \in {0} \cup 2 .. 5 : db.text[<<r, c>>] # Empty) => r <= rows
  <2> DEFINE S == {1} \cup {r \in 2 .. 7 : \E c \in {0} \cup 2 .. 5 : db.text[<<r, c>>] # Empty}
  <2>1. S \in SUBSET (1 .. 7) /\ 1 \in S
    OBVIOUS
  <2>2. rows = Max(S)
    BY <1>1 DEF RowsOf
  <2>3. \A r \in 2 .. 7 :
          (\E c \in {0} \cup 2 .. 5 : db.text[<<r, c>>] # Empty) => r \in S
    OBVIOUS
  <2> HIDE DEF S, rows
  <2>4. rows \in S /\ \A y \in S : rows >= y
    BY <2>1, <2>2, MaxOfRows
  <2> QED
    BY <2>1, <2>3, <2>4
<1>4. rowNum' = rows /\ colNum' = cols /\ fields' = Loaded(Blank, db, rows, cols)
  BY DEF OpenRow, Show
<1>5. cell[1] \in 0 .. 8 /\ cell[2] \in 0 .. 5 /\ cell = <<cell[1], cell[2]>>
      /\ (cell[1] = 8 => cell[2] # 0)
  BY CellIsPair
<1> HIDE DEF rows, cols
<1>6. cell \in Reads(db, rows, cols) => fields'[cell] = db.text[cell]
  BY <1>4 DEF Loaded
<1>7. Shown(cell)' <=> cell[1] \in 0 .. rows \cup {8} /\ cell[2] \in 0 .. cols
  BY <1>4 DEF Shown, Visible
<1>8. cell[2] \in 0 .. cols
  BY <1>1, <1>2, <1>5
<1>9. CASE cell[1] = 0
  <2>1. cell \in Reads(db, rows, cols)
    BY <1>1, <1>2, <1>5, <1>9 DEF Reads
  <2> QED
    BY <1>3, <1>6, <1>7, <1>8, <1>9, <2>1
<1>10. CASE cell[1] = 1
  <2>1. CASE cell[2] = 0 \/ cell[2] >= 3 \/ db.text[<<1, 0>>] # Empty
    <3>1. cell \in Reads(db, rows, cols)
      BY <1>1, <1>5, <1>8, <1>10, <2>1 DEF Reads
    <3> QED
      BY <1>3, <1>6, <1>7, <1>8, <1>10, <3>1
  <2>2. CASE cell[2] \in 1 .. 2 /\ db.text[<<1, 0>>] = Empty
    BY <1>5, <1>10, <2>2
  <2> QED
    BY <1>5, <2>1, <2>2
<1>11. CASE cell[1] \in 2 .. 7
  <2>1. cell[2] # 1 => cell[1] <= rows
    <3>1. cell[2] # 1 => cell[2] \in {0} \cup 2 .. 5
      BY <1>5
    <3> QED
      BY <1>3, <1>5, <1>11, <3>1
  <2>2. CASE cell[1] <= rows
    <3>1. cell[1] \in 2 .. rows /\ (cell[2] = 0 \/ cell[2] \in 1 .. db.cols)
      BY <1>1, <1>2, <1>3, <1>5, <1>11, <2>2
    <3>2. cell \in Reads(db, rows, cols)
      BY <1>1, <3>1 DEF Reads
    <3> QED
      BY <1>3, <1>6, <1>7, <1>8, <1>11, <2>2, <3>2
  <2>3. CASE cell[2] = 1 /\ ~(cell[1] <= rows)
    BY <1>3, <1>7, <1>11, <2>3
  <2> QED
    BY <2>1, <2>2, <2>3
<1>12. CASE cell[1] = 8
  <2>1. cell \in Reads(db, rows, cols)
    BY <1>5, <1>8, <1>12 DEF Reads
  <2> QED
    BY <1>6, <1>7, <1>8, <1>12, <2>1
<1> QED
  BY <1>5, <1>9, <1>10, <1>11, <1>12

\* Opening a group shows all its texts but for two kinds: those of row 1 without an item
\* name, and those of the first column below the last row that counts.
THEOREM MostTextsAreShown == CellsSpec => OpeningShowsMostTexts
<1>1. IInv /\ [CellsNext]_cellVars => [OpenRow => Opens]_cellVars
  BY NextOpens
<1>2. CellsSpec => [][OpenRow => Opens]_cellVars
  BY <1>1, InvariantHolds, PTL DEF CellsSpec
<1> QED
  BY <1>2 DEF OpeningShowsMostTexts, Opens
=============================================================================
