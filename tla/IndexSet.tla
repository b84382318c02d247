------------------------------ MODULE IndexSet ------------------------------
(***************************************************************************)
(* IndexSet of the Object Store: the positions of a collection, counted    *)
(* from 0, and what happens to them when rows are put in or taken out.     *)
(* The code keeps sorted ranges in chunks; a position is in the set or not,*)
(* so that a set of numbers is all there is to see from outside.           *)
(***************************************************************************)
LOCAL INSTANCE Naturals
LOCAL INSTANCE FiniteSets

\* How many positions of the set lie in start .. end - 1. A start that has
\* wrapped below zero is beyond every position.
Count(set, start, end) ==
    IF start < 0 THEN 0 ELSE Cardinality({i \in set : start <= i /\ i < end})

\* Where the position is once the positions of the set have been put in.
Shift(set, index) ==
    CHOOSE i \in index .. index + Cardinality(set) :
        i \notin set /\ i - Count(set, 0, i) = index

\* Where the position is once the positions of the set have been taken out.
Unshift(set, index) == index - Count(set, 0, index)

ShiftForInsert(set, index) == {IF i >= index THEN i + 1 ELSE i : i \in set}
InsertAt(set, index) == ShiftForInsert(set, index) \cup {index}
EraseAt(set, index) == {IF i > index THEN i - 1 ELSE i : i \in set \ {index}}

ShiftForInsertAll(set, positions) == {Shift(positions, i) : i \in set}
InsertAll(set, positions) == ShiftForInsertAll(set, positions) \cup positions
EraseAll(set, positions) == {Unshift(positions, i) : i \in set \ positions}

\* A mutant of AddShiftedBy: the values are not moved past what the set has.
AddUnshifted(set, shiftedBy, values) ==
    set \cup {Unshift(shiftedBy, i) : i \in values \ shiftedBy}

\* The set and the values that are not in shiftedBy: where they were before
\* shiftedBy was put in and the set was taken out.
AddShiftedBy(set, shiftedBy, values) ==
    set \cup {Shift(set, Unshift(shiftedBy, i)) : i \in values \ shiftedBy}

=============================================================================
