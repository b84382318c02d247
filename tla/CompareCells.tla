---------------------------- MODULE CompareCells ----------------------------
(***************************************************************************)
(* The texts of one comparison, in the database and in the text fields of  *)
(* its editor (CompareMainVC): which stored texts the editor reads, which  *)
(* fields it keeps when a row or a column is added, and what saving writes *)
(* back.  The fields belong to the editor object and outlive a rebuild of  *)
(* its view; what is not on screen is saved all the same.                  *)
(*                                                                         *)
(* A cell is <<row, column>>.  Row 0 is the title (column 0) and the names *)
(* of the compared things, rows 1 to 7 are the items (column 0: the item's *)
(* name, column c: its text for thing c, stored with id c - 1), row 8 has  *)
(* the memos.  Ads and messages are in CompareMain; a save that inserts is *)
(* one step here, with every way in which it can stop half way.            *)
(***************************************************************************)
EXTENDS Integers, FiniteSetsExt

CONSTANTS
    Texts,        \* what can be typed into a field
    Empty,        \* the empty text, also what a nil text reads as
    MaxCols,      \* columns the device can show: 5 if wide, else 4
    EditedCells,  \* bound: the cells the user types into
    Incidents     \* bound: whether transactions fail and the process dies

Cells == (0..8) \X (0..5) \ {<<8, 0>>}

ASSUME TextsAssumption == Empty \in Texts
ASSUME WidthAssumption == MaxCols \in {4, 5}
ASSUME EditedCellsAssumption == EditedCells \subseteq Cells
ASSUME IncidentsAssumption == Incidents \in BOOLEAN

VARIABLES
    db,       \* the group: its item is stored, its columns, their texts
    fields,   \* the texts of the fields (all blank without an editor)
    rowNum,   \* item rows on screen
    colNum,   \* columns on screen
    open,     \* the editor is in front, otherwise the list
    stale     \* the list has an id of the group though it has been deleted

cellVars == <<db, fields, rowNum, colNum, open, stale>>

Blank == [cell \in Cells |-> Empty]
NoGroup == [item |-> FALSE, cols |-> 0, text |-> Blank]

CellsTypeOK ==
    /\ db \in [item : BOOLEAN, cols : 0..MaxCols, text : [Cells -> Texts]]
    /\ fields \in [Cells -> Texts]
    /\ rowNum \in 1..7
    /\ colNum \in 2..MaxCols
    /\ open \in BOOLEAN
    /\ stale \in BOOLEAN

CellsInit ==
    /\ db = NoGroup
    /\ fields = Blank
    /\ rowNum = 1
    /\ colNum = 2
    /\ open = FALSE
    /\ stale = FALSE

\* What is on screen: the title, and the rows and columns there are.
Visible(rows, cols) ==
    {cell \in Cells : /\ cell[1] \in 0..rows \cup {8}
                      /\ cell[2] \in 0..cols}

-----------------------------------------------------------------------------
\* viewDidLoad.

\* The fields it sets to the stored text (a missing column reads as empty).
\* Names 1 and 2 and row 1 keep what they have where an empty text is stored.
Reads(d, rows, cols) ==
    {cell \in Cells :
        LET r == cell[1]
            c == cell[2]
        IN  \/ r = 0 /\ c = 0 /\ d.item
            \/ r = 0 /\ c \in 1..2 /\ c <= d.cols /\ d.text[cell] # Empty
            \/ r = 0 /\ c \in 3..cols /\ c <= d.cols
            \/ r = 1 /\ c \in 0..2 /\ d.item /\ d.text[<<1, 0>>] # Empty
            \/ r = 1 /\ c \in 3..cols
            \/ r \in 2..rows /\ c = 0 /\ d.item
            \/ r \in 2..rows /\ c \in 1..d.cols
            \/ r = 8 /\ c \in 1..cols}

\* Mutant: the last row is not read.
LoadedButLastRow(f, d, rows, cols) ==
    LET read == Reads(d, rows - 1, cols)
    IN  [cell \in Cells |-> IF cell \in read THEN d.text[cell] ELSE f[cell]]

\* Mutant: rows 2 to 7 are read column by column as row 1 is, stored or not.
LoadedWithMissingColumns(f, d, rows, cols) ==
    LET read == Reads(d, rows, cols) \cup (2..rows) \X (3..cols)
    IN  [cell \in Cells |-> IF cell \in read THEN d.text[cell] ELSE f[cell]]

Loaded(f, d, rows, cols) ==
    LET read == Reads(d, rows, cols)
    IN  [cell \in Cells |-> IF cell \in read THEN d.text[cell] ELSE f[cell]]

LoadedCols(d, cols) == IF d.cols > 1 /\ d.cols > cols THEN d.cols ELSE cols

\* The view shows d: rows, columns and fields follow.
Show(d, f, rows, cols) ==
    /\ rowNum' = rows
    /\ colNum' = LoadedCols(d, cols)
    /\ fields' = Loaded(f, d, rows, LoadedCols(d, cols))

-----------------------------------------------------------------------------
\* Opening and leaving the editor.

\* Mutant: the column with id 2 does not count.
RowsWithoutId2(d) ==
    IF ~d.item
    THEN 7
    ELSE Max({1} \cup {r \in 2..7 :
                 \E c \in {0, 2, 4, 5} : d.text[<<r, c>>] # Empty})

\* didSelectRowAt counts the rows: the last one with an item name, or with a
\* text in a column but the first.  Without an item every name is nil, which
\* is not "".
RowsOf(d) ==
    IF ~d.item
    THEN 7
    ELSE Max({1} \cup {r \in 2..7 :
                 \E c \in {0} \cup 2..5 : d.text[<<r, c>>] # Empty})

OpenNew ==
    /\ ~open
    /\ ~db.item
    /\ open' = TRUE
    /\ Show(db, Blank, 1, 2)
    /\ UNCHANGED <<db, stale>>

OpenRow ==
    /\ ~open
    /\ db.item \/ stale
    /\ open' = TRUE
    /\ Show(db, Blank, RowsOf(db), 2)
    /\ UNCHANGED <<db, stale>>

\* The editor object goes, and the list is built anew.
Close ==
    /\ open' = FALSE
    /\ fields' = Blank
    /\ rowNum' = 1
    /\ colNum' = 2
    /\ stale' = FALSE

Back == open /\ Close /\ UNCHANGED db

Delete ==
    /\ ~open
    /\ db.item
    /\ db' = NoGroup
    /\ stale' = TRUE
    /\ UNCHANGED <<fields, rowNum, colNum, open>>

\* Another group's editor is closed, or the process dies behind the list.
ListReloads ==
    /\ ~open
    /\ stale' = FALSE
    /\ UNCHANGED <<db, fields, rowNum, colNum, open>>

-----------------------------------------------------------------------------
\* Editing.

Edit ==
    /\ open
    /\ \E cell \in EditedCells \cap Visible(rowNum, colNum), t \in Texts :
           fields' = [fields EXCEPT ![cell] = t]
    /\ UNCHANGED <<db, rowNum, colNum, open, stale>>

\* backupData: the title, names, memos, rows 1 and 2, then one entry for each
\* further row.  restoreData decides by the number of entries.
BackupCount(rows) == 5 + Max({0, rows - 2})

\* Mutant: the memos are not restored.
RestoredRowsWithoutMemos(rows) ==
    {0, 1, 2} \cup {r \in 3..4 : BackupCount(rows) >= r + 3}
              \cup {r \in 5..7 : BackupCount(rows) >= r + 4}

RestoredRows(rows) ==
    {0, 1, 2, 8} \cup {r \in 3..4 : BackupCount(rows) >= r + 3}
                 \cup {r \in 5..7 : BackupCount(rows) >= r + 4}

Restored(new, backup, rows) ==
    [cell \in Cells |-> IF cell[1] \in RestoredRows(rows)
                        THEN backup[cell]
                        ELSE new[cell]]

\* addNewNameBtnDidTap, addNewItemBtnDidTap: count, back up, load, restore.
RebuildFor(rows, cols) ==
    /\ open
    /\ rowNum' = rows
    /\ colNum' = LoadedCols(db, cols)
    /\ fields' = Restored(Loaded(fields, db, rows, LoadedCols(db, cols)),
                          fields, rows)
    /\ UNCHANGED <<db, open, stale>>

\* Mutant: the button for a new column never goes away.
AddNameWithoutLimit == RebuildFor(rowNum, colNum + 1)

AddName == colNum < MaxCols /\ RebuildFor(rowNum, colNum + 1)
AddItem == rowNum <= 6 /\ RebuildFor(rowNum + 1, colNum)

-----------------------------------------------------------------------------
\* Saving: all fields of the item, and of every column on screen.

\* Mutant: the memos are not written.
WrittenWithoutMemos(cols) ==
    [db EXCEPT !.item = TRUE,
               !.cols = Max({@, cols}),
               !.text = [cell \in Cells |->
                            IF cell[1] < 8 /\ (cell[2] = 0 \/ cell[2] <= cols)
                            THEN fields[cell]
                            ELSE @[cell]]]

Written(cols) ==
    [db EXCEPT !.item = TRUE,
               !.cols = Max({@, cols}),
               !.text = [cell \in Cells |-> IF cell[2] = 0 \/ cell[2] <= cols
                                            THEN fields[cell]
                                            ELSE @[cell]]]

SaveUpdate ==
    /\ open
    /\ db.item
    /\ db.cols >= 2
    /\ db' = Written(colNum)
    /\ Show(db', fields, rowNum, colNum)
    /\ UNCHANGED <<open, stale>>

SaveInsert ==
    /\ open
    /\ ~db.item
    /\ db' = Written(colNum)
    /\ Show(db', fields, rowNum, colNum)
    /\ UNCHANGED <<open, stale>>

\* What an insertion leaves that stops before its last transaction.
HalfWritten == IF db.item THEN {db}
               ELSE {db} \cup {Written(k) : k \in 0..(colNum - 1)}

\* A transaction fails: the editor stays, and its view is loaded again.
SaveFails ==
    /\ Incidents
    /\ open
    /\ \E d \in HalfWritten : db' = d /\ Show(d, fields, rowNum, colNum)
    /\ UNCHANGED <<open, stale>>

\* The process dies while the editor is in front, of the missing columns of
\* a half written group or because the system kills it.
ProcessDies ==
    /\ Incidents
    /\ open
    /\ Close
    /\ db' \in HalfWritten

-----------------------------------------------------------------------------
CellsNext ==
    \/ OpenNew \/ OpenRow \/ Back \/ Delete \/ ListReloads
    \/ Edit \/ AddName \/ AddItem
    \/ SaveUpdate \/ SaveInsert \/ SaveFails
    \/ ProcessDies

CellsSpec == CellsInit /\ [][CellsNext]_cellVars

-----------------------------------------------------------------------------
(***************************************************************************)
(* Properties.                                                             *)
(***************************************************************************)

Shown(cell) == cell \in Visible(rowNum, colNum)

\* A save that works stores what the user sees, and the view it then loads
\* shows the user the same texts again, though it reads some cells only on
\* conditions.
SaveKeepsTexts ==
    [][SaveUpdate \/ SaveInsert
       => \A cell \in Visible(rowNum, colNum) :
              /\ db'.text[cell] = fields[cell]
              /\ fields'[cell] = fields[cell]]_cellVars

\* A save that fails loads the view again, and what was typed is lost in two
\* ways only: a cell of a group that was stored shows its old text again, and
\* the memos and row 1 of columns that have not been stored are blanked.
\* Everything else, however far an insertion got, is there to be saved again.
FailedSavesLoseKnownTexts ==
    [][SaveFails
       => \A cell \in Visible(rowNum, colNum) :
              \/ fields'[cell] = fields[cell]
              \/ db.item /\ cell[2] <= db.cols /\ fields'[cell] = db.text[cell]
              \/ cell[1] \in {1, 8} /\ cell[2] > db'.cols /\ fields'[cell] = Empty]_cellVars

\* Adding a row or a column keeps the unsaved texts on screen, those of the
\* last row excepted when it is the fifth or a later one.
AddingKeepsTexts ==
    [][AddName \/ AddItem
       => \A cell \in Visible(rowNum, colNum) :
              \/ fields'[cell] = fields[cell]
              \/ cell[1] \in 5..7 /\ cell[1] = rowNum']_cellVars

\* Opening a stored group shows every stored text, but for the two places
\* where the reading code looks at something else: row 1 goes by its item
\* name, and the number of rows does not go by the first column.
OpeningShowsMostTexts ==
    [][OpenRow
       => \A cell \in Cells :
              \/ db.text[cell] = Empty
              \/ Shown(cell)' /\ fields'[cell] = db.text[cell]
              \/ cell \in {<<1, 1>>, <<1, 2>>} /\ db.text[<<1, 0>>] = Empty
              \/ cell[1] \in 2..7 /\ cell[2] = 1 /\ ~Shown(cell)']_cellVars

\* A save overwrites the cells that are not on screen with blanks: texts that
\* it destroys this way are in the first column, in a row whose other
\* columns are empty.  All other stored texts are on screen.
HiddenTextsAreFirstColumn ==
    open => \A cell \in Cells :
                \/ Shown(cell)
                \/ fields[cell] = Empty /\ db.text[cell] = Empty
                \/ /\ fields[cell] = Empty
                   /\ cell[1] \in 2..7
                   /\ cell[2] = 1
                   /\ \A c \in {0} \cup 2..5 : db.text[<<cell[1], c>>] = Empty
=============================================================================
