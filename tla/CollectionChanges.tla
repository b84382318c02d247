-------------------------- MODULE CollectionChanges --------------------------
(***************************************************************************)
(* CollectionChangeBuilder: what a notifier tells its callbacks about the  *)
(* rows of a list or of the results of a query. The changes of a list are  *)
(* gathered operation by operation from the transaction log, the changes   *)
(* of results are calculated from the rows before and after, and each pass *)
(* of the notifier is merged into what has not been delivered yet.         *)
(*                                                                         *)
(* A row is a number; list rows get a new one each time one is inserted.   *)
(***************************************************************************)
EXTENDS Integers, Sequences, FiniteSets, IndexSet
Seqs == INSTANCE SequencesExt
Sets == INSTANCE FiniteSetsExt

CONSTANTS
    MaxRows, MaxSteps, MaxPasses,   \* bounds of the rows of a list, of the operations
                                    \* on it and of the passes of its notifier
    MaxKeys, MaxRuns                \* bounds of the keys of a table and of the runs of
                                    \* a query on it

ASSUME CollectionChangesAssumption ==
    {MaxRows, MaxSteps, MaxPasses, MaxKeys, MaxRuns} \subseteq Nat

VARIABLES
    kind,       \* "list", "sorted" results, or results in "table" order
    start,      \* the rows when the callback was last called
    middle,     \* the rows when the notifier last ran
    rows,       \* the rows now
    touched,    \* rows that have been modified since the callback was last called
    whole,      \* accumulated_changes of the callback
    pass,       \* m_change of the notifier: the changes of the pass
    steps, passes,
    stranded    \* the list was changed and deleted in one pass

vars == <<kind, start, middle, rows, touched, whole, pass, steps, passes, stranded>>

Keys == 1 .. MaxKeys
Nothing == [deletions |-> {}, insertions |-> {}, modifications |-> {}, moves |-> <<>>]

Positions(list) == 0 .. Len(list) - 1
At(list, i) == list[i + 1]
Elements(list) == {list[i] : i \in DOMAIN list}
\* Erases the elements at the positions.
Without(list, positions) ==
    [k \in 1 .. Len(list) - Cardinality(positions) |-> At(list, Shift(positions, k - 1))]

----------------------------------------------------------------------------
(* The operations of a list, from the transaction log.                      *)

InsertRow(c, index) ==
    [deletions |-> c.deletions,
     insertions |-> InsertAt(c.insertions, index),
     modifications |-> ShiftForInsert(c.modifications, index),
     moves |-> [k \in DOMAIN c.moves |->
                  [c.moves[k] EXCEPT !.to = IF @ >= index THEN @ + 1 ELSE @]]]

\* Takes a position out of the insertions, or tells where it was before them:
\* a deletion of an old row.
EraseRow(c, index) ==
    LET kept == Without(c.moves, {k \in Positions(c.moves) : At(c.moves, k).to = index})
    IN  [deletions |-> IF index \in c.insertions THEN c.deletions
                       ELSE c.deletions \cup {Shift(c.deletions, Unshift(c.insertions, index))},
         insertions |-> EraseAt(c.insertions, index),
         modifications |-> EraseAt(c.modifications, index),
         moves |-> [k \in DOMAIN kept |->
                      [kept[k] EXCEPT !.to = IF @ > index THEN @ - 1 ELSE @]]]

ModifyRow(c, index) == [c EXCEPT !.modifications = @ \cup {index}]

ClearRows(c, size) ==
    [Nothing EXCEPT !.deletions =
        0 .. size + Cardinality(c.deletions) - Cardinality(c.insertions) - 1]

\* Where another row is after the row at from has been put at to.
Displaced(index, from, to) ==
    IF to <= index /\ index < from THEN index + 1
    ELSE IF from < index /\ index <= to THEN index - 1
    ELSE index

MoveRow(c, from, to) ==
    LET again == \E k \in DOMAIN c.moves : c.moves[k].to = from
        fresh == from \in c.insertions
        old == Shift(c.deletions, Unshift(c.insertions, from))
        others == [k \in DOMAIN c.moves |->
                     [c.moves[k] EXCEPT !.to = IF @ = from THEN to ELSE Displaced(@, from, to)]]
        known == again \/ fresh     \* no deletion or move of a row that was inserted
    IN  [deletions |-> IF known THEN c.deletions ELSE c.deletions \cup {old},
         insertions |-> InsertAt(EraseAt(c.insertions, from), to),
         modifications |->
            LET rest == ShiftForInsert(EraseAt(c.modifications, from), to)
            IN  IF from \in c.modifications THEN rest \cup {to} ELSE rest,
         moves |-> IF known THEN others ELSE Append(others, [from |-> old, to |-> to])]

SwapRows(c, i, j) ==
    LET first == MoveRow(c, i, j) IN IF i + 1 = j THEN first ELSE MoveRow(first, j - 1, i)

\* A mutant of CleanUpStaleMoves: what no longer moves anything is told all the same.
KeepStaleMoves(c) == c

\* A move that no longer moves anything is dropped with its deletion and insertion.
IsStale(b, m) == m.from - Count(b.deletions, 0, m.from) = m.to - Count(b.insertions, 0, m.to)
KeepUnlessStale(b, m) ==
    IF IsStale(b, m)
    THEN [b EXCEPT !.deletions = @ \ {m.from}, !.insertions = @ \ {m.to}]
    ELSE [b EXCEPT !.moves = Append(@, m)]
CleanUpStaleMoves(c) ==
    LET cleaned[k \in 0 .. Len(c.moves)] ==
            IF k = 0 THEN [c EXCEPT !.moves = <<>>]
            ELSE KeepUnlessStale(cleaned[k - 1], c.moves[k])
    IN  cleaned[Len(c.moves)]

----------------------------------------------------------------------------
(* The changes of a pass are added to those that are waiting.               *)

\* An old move whose row is moved again goes on to where the row went; one whose
\* row is deleted is dropped; the others follow the insertions and deletions.
UpdateOldMove(b, c, acc, m) ==
    LET again == {k \in DOMAIN acc.new : acc.new[k].from = m.to}
        next == Sets!Min(again)
        n == acc.new[next]
    IN  IF again # {}
        THEN [old |-> Append(acc.old, [m EXCEPT !.to = n.to]),
              new |-> Seqs!Front([acc.new EXCEPT ![next] = acc.new[Len(acc.new)]]),
              modified |-> acc.modified \cup IF n.from \in b.modifications THEN {n.to} ELSE {}]
        ELSE IF m.to \in c.deletions THEN acc
        ELSE [acc EXCEPT !.old =
                Append(@, [m EXCEPT !.to = Shift(c.insertions, Unshift(c.deletions, @))])]
UpdateOldMoves(b, c) ==
    LET updated[k \in 0 .. Len(b.moves)] ==
            IF k = 0 THEN [old |-> <<>>, new |-> c.moves, modified |-> c.modifications]
            ELSE UpdateOldMove(b, c, updated[k - 1], b.moves[k])
    IN  updated[Len(b.moves)]

MergeBuilders(b, c) ==
    LET updated == UpdateOldMoves(b, c)
        ofOldRows == Without(updated.new, {k \in Positions(updated.new) :
                                             At(updated.new, k).from \in b.insertions})
        modified == updated.modified \cup
                    {m.to : m \in {n \in Elements(ofOldRows) : n.from \in b.modifications}}
        moves == [k \in DOMAIN ofOldRows |->
                    [ofOldRows[k] EXCEPT !.from = Shift(b.deletions, Unshift(b.insertions, @))]]
        cleaned == CleanUpStaleMoves(
            [deletions |-> AddShiftedBy(b.deletions, b.insertions, c.deletions),
             insertions |-> InsertAll(EraseAll(b.insertions, c.deletions), c.insertions),
             modifications |-> b.modifications,
             moves |-> updated.old \o moves])
    IN  [cleaned EXCEPT !.modifications =
            ShiftForInsertAll(EraseAll(@, c.deletions), c.insertions) \cup modified]

Merge(b, c) == IF c = Nothing THEN b ELSE IF b = Nothing THEN c ELSE MergeBuilders(b, c)

\* What the callback is given: a row that was inserted is not modified, and the
\* rows that were modified are told by where they were and by where they are.
Finalize(b) ==
    [deletions |-> b.deletions, insertions |-> b.insertions, moves |-> b.moves,
     modifications |-> ShiftForInsertAll(EraseAll(b.modifications, b.insertions), b.deletions),
     modificationsNew |-> b.modifications \ b.insertions]

----------------------------------------------------------------------------
(* The changes between the rows of two runs of a query.                     *)

\* A window is two ranges of positions, begin1 .. end1 - 1 of the rows before and
\* begin2 .. end2 - 1 of the rows after.
Windows(n) == [begin1 : 0 .. n, end1 : 0 .. n, begin2 : 0 .. n, end2 : 0 .. n]

\* How long the block is that ends at a[i] = b[j] in the window.
BlockSize(a, b, w, i, j) ==
    Sets!Max({n \in 1 .. i - w.begin1 + 1 :
             /\ n <= j - w.begin2 + 1
             /\ \A k \in 0 .. n - 1 : At(a, i - k) = At(b, j - k)})

\* The longest block a[i] .. = b[j] .. in the window, the first one found
\* unless another of the same length is thought to have fewer modified rows.
\* best.j is where the block begins and is counted back from all the same.
BetterMatch(a, b, modified, w, best, i) ==
    LET js == {j \in w.begin2 .. w.end2 - 1 : At(b, j) = At(a, i)}
        j == CHOOSE x \in js : TRUE
        size == BlockSize(a, b, w, i, j)
        count == Count(modified, j - size + 1, j + 1)
        fewest == IF best.counted THEN best.modified
                  ELSE Count(modified, best.j - size + 1, best.j + 1)
        found == [i |-> i - size + 1, j |-> j - size + 1, size |-> size,
                  counted |-> FALSE, modified |-> 0]
    IN  IF js = {} \/ size < best.size THEN best
        ELSE IF size > best.size THEN found
        ELSE [(IF count < fewest THEN found ELSE best)
                EXCEPT !.counted = TRUE, !.modified = IF count < fewest THEN count ELSE fewest]
LongestMatch(a, b, modified, w) ==
    LET best[k \in 0 .. w.end1] ==
            IF k <= w.begin1
            THEN [i |-> w.begin1, j |-> w.begin2, size |-> 0, counted |-> TRUE, modified |-> 0]
            ELSE BetterMatch(a, b, modified, w, best[k - 1], k - 1)
    IN  best[w.end1]

\* The longest block of the window, after the matches before it and before those
\* after it.
MatchesAround(a, b, modified, matches, w) ==
    LET m == LongestMatch(a, b, modified, w)
        after1 == m.i + m.size
        after2 == m.j + m.size
    IN  IF m.size = 0 THEN <<>>
        ELSE (IF m.i > w.begin1 /\ m.j > w.begin2
              THEN matches[[w EXCEPT !.end1 = m.i, !.end2 = m.j]] ELSE <<>>)
             \o <<m>>
             \o (IF after1 < w.end2 /\ after2 < w.end2
                 THEN matches[[w EXCEPT !.begin1 = after1, !.begin2 = after2]] ELSE <<>>)
LongestMatches(a, b, modified) ==
    LET matches[w \in Windows(Len(a))] == MatchesAround(a, b, modified, matches, w)
    IN  matches

\* Rows of both results that are in no match are reported as deleted where they
\* were and inserted where they are.
AlignSorted(c, old, new) ==
    LET a == Without(old, c.deletions)
        b == Without(new, c.insertions)
        first == Sets!Min({i \in Positions(a) : At(a, i) # At(b, i)})
        matches == LongestMatches(a, b, c.modifications)
                       [[begin1 |-> first, end1 |-> Len(a), begin2 |-> first, end2 |-> Len(b)]]
        aligned == {At(a, i) : i \in 0 .. first - 1} \cup
                   UNION {{At(a, m.i + k) : k \in 0 .. m.size - 1} : m \in Elements(matches)}
        moved == Elements(a) \ aligned
    IN  IF a = b THEN c
        ELSE [c EXCEPT !.deletions = @ \cup {i \in Positions(old) : At(old, i) \in moved},
                       !.insertions = @ \cup {i \in Positions(new) : At(new, i) \in moved}]

Calculate(old, new, changed, inTableOrder) ==
    LET c == [Nothing EXCEPT
                !.deletions = {i \in Positions(old) : At(old, i) \notin Elements(new)},
                !.insertions = {i \in Positions(new) : At(new, i) \notin Elements(old)},
                !.modifications = {i \in Positions(new) :
                                     At(new, i) \in Elements(old) \cap changed}]
    IN  IF inTableOrder THEN c ELSE AlignSorted(c, old, new)

----------------------------------------------------------------------------
(* The list and its notifier, the query and its notifier.                   *)

FreshRow == Sets!Max({0} \cup Elements(start) \cup Elements(middle) \cup Elements(rows) \cup touched) + 1

Operation(c, list) ==
    /\ kind = "list" /\ steps < MaxSteps /\ passes < MaxPasses
    /\ pass' = c /\ rows' = list /\ steps' = steps + 1
    /\ UNCHANGED <<kind, start, middle, whole, passes, stranded>>

Insert(index) ==
    /\ Len(rows) < MaxRows
    /\ Operation(InsertRow(pass, index), Seqs!InsertAt(rows, index + 1, FreshRow))
    /\ UNCHANGED touched

Erase(index) ==
    /\ Operation(EraseRow(pass, index), Seqs!RemoveAt(rows, index + 1))
    /\ UNCHANGED touched

Move(from, to) ==
    /\ from # to
    /\ Operation(MoveRow(pass, from, to),
                 Seqs!InsertAt(Seqs!RemoveAt(rows, from + 1), to + 1, At(rows, from)))
    /\ UNCHANGED touched

Swap(i, j) ==
    /\ i < j
    /\ Operation(SwapRows(pass, i, j),
                 [rows EXCEPT ![i + 1] = At(rows, j), ![j + 1] = At(rows, i)])
    /\ UNCHANGED touched

Set(index) ==
    /\ Operation(ModifyRow(pass, index), rows)
    /\ touched' = touched \cup {At(rows, index)}

Clear ==
    /\ Operation(ClearRows(pass, Len(rows)), <<>>)
    /\ UNCHANGED touched

EndPass(c, list) ==
    /\ passes < IF kind = "list" THEN MaxPasses ELSE MaxRuns
    /\ passes' = passes + 1
    /\ whole' = Merge(whole, c) /\ pass' = Nothing
    /\ middle' = list /\ rows' = list
    /\ UNCHANGED <<start, steps>>

\* The log has been read. A row whose object has changed is modified as well: the
\* same as if it had been set last.
RunList ==
    /\ kind = "list"
    /\ EndPass(CleanUpStaleMoves(pass), rows)
    /\ UNCHANGED <<kind, touched, stranded>>

\* The object that holds the list is deleted: what the log told of the list before
\* stays in the changes, cleaned up unless the log tells of the object as well.
DeleteList(told) ==
    /\ kind = "list" /\ kind' = "deleted"
    /\ EndPass(IF middle # <<>> THEN [told EXCEPT !.deletions = Positions(middle)] ELSE Nothing,
               <<>>)
    /\ stranded' = (middle # <<>> /\ told # Nothing)
    /\ UNCHANGED touched

RunQuery(list, changed) ==
    /\ kind \in {"sorted", "table"}
    /\ EndPass(Calculate(rows, list, changed, kind = "table"), list)
    /\ touched' = touched \cup changed
    /\ UNCHANGED <<kind, stranded>>

DeleteTable ==
    /\ kind \in {"sorted", "table"} /\ kind' = "deleted"
    /\ EndPass([Nothing EXCEPT !.deletions = Positions(rows)], <<>>)
    /\ UNCHANGED <<touched, stranded>>

Sorted == UNION {{list \in [1 .. n -> Keys] : \A i, k \in 1 .. n : i # k => list[i] # list[k]} :
                  n \in 0 .. MaxKeys}
Ascending == {list \in Sorted : \A i, k \in DOMAIN list : i < k => list[i] < list[k]}
AtMostOne(set) == {{}} \cup {{x} : x \in set}

\* The callback has just been called. The rows of a list and of sorted results
\* are numbered in their order.
Init ==
    /\ kind \in {"list", "sorted", "table"}
    /\ start \in IF kind = "table" THEN Ascending
                 ELSE {[i \in 1 .. n |-> i] :
                         n \in 0 .. IF kind = "list" THEN MaxRows ELSE MaxKeys}
    /\ middle = start /\ rows = start
    /\ touched = {} /\ whole = Nothing /\ pass = Nothing
    /\ steps = 0 /\ passes = 0 /\ stranded = FALSE

Next ==
    \/ \E index \in 0 .. Len(rows) : Insert(index)
    \/ \E index \in Positions(rows) : Erase(index) \/ Set(index)
    \/ \E i, j \in Positions(rows) : Move(i, j) \/ Swap(i, j)
    \/ Clear
    \/ RunList
    \/ \E told \in {pass, CleanUpStaleMoves(pass)} : DeleteList(told)
    \/ \E list \in IF kind = "table" THEN Ascending ELSE Sorted,
          changed \in AtMostOne(Keys) : RunQuery(list, changed)
    \/ DeleteTable

Spec == Init /\ [][Next]_vars

----------------------------------------------------------------------------

\* The rows that neither were deleted nor have been inserted are the same before
\* and after, in the same order.
Left(list, positions) == {At(list, i) : i \in Positions(list) \ positions}
Rebuilds(old, new, c) ==
    /\ c.deletions \subseteq Positions(old) /\ c.insertions \subseteq Positions(new)
    /\ Left(old, c.deletions) = Left(new, c.insertions)
    /\ \A i \in Positions(old) \ c.deletions, j \in Positions(new) \ c.insertions :
          At(old, i) = At(new, j) =>
              \A k \in Positions(old) \ c.deletions, l \in Positions(new) \ c.insertions :
                  At(old, k) = At(new, l) => (i < k <=> j < l)

\* Every move takes one row from a deletion to an insertion.
MovesFollowRows(old, new, c) ==
    \A m \in Elements(c.moves) :
        m.from \in c.deletions /\ m.to \in c.insertions /\ At(old, m.from) = At(new, m.to)

\* The deletions and insertions of the changes turn the rows the changes start
\* from into the rows they end with, and a move tells of one row where it was and
\* where it is: for the operations of a pass so far, and for everything that has
\* been merged since the callback was called. A list that is changed and deleted
\* in one pass is the exception: its insertions are told along with the deletion
\* of all rows.
ChangesRebuildRows ==
    /\ Rebuilds(middle, rows, pass) /\ MovesFollowRows(middle, rows, pass)
    /\ ~stranded => Rebuilds(start, middle, whole) /\ MovesFollowRows(start, middle, whole)

\* A move that could as well not be reported has moved nothing.
IsReal(old, new, c, m) ==
    ~ Rebuilds(old, new, [c EXCEPT !.deletions = @ \ {m.from}, !.insertions = @ \ {m.to}])

\* What the callback is told is true of the rows it had and has: moves really
\* move their rows, and the modifications are exactly the rows modified since
\* then that are not reported as inserted, at their old and at their new
\* positions - whatever was merged in between.
MovesAndModificationsAreTrue ==
    LET c == Finalize(whole)
    IN  ~stranded /\ pass = Nothing =>
            /\ \A m \in Elements(c.moves) : IsReal(start, middle, c, m)
            /\ c.modificationsNew = {i \in Positions(middle) :
                                       i \notin c.insertions /\ At(middle, i) \in touched}
            /\ c.modifications = {i \in Positions(start) :
                                    i \notin c.deletions /\ At(start, i) \in touched}

=============================================================================
