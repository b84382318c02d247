------------------------ MODULE CollectionChangesProofs ------------------------
(***************************************************************************)
(* The changes of a list and of the results of a query rebuild its rows,   *)
(* its moves move their rows and its modifications are those that were     *)
(* made, for every number of rows, operations, passes, keys and runs.      *)
(***************************************************************************)
EXTENDS CollectionChanges, FiniteSetTheorems, SequenceTheorems, WellFoundedInduction, TLAPS

(* Numbers: induction by the least counterexample.                         *)

\* A set of natural numbers that is not empty has a least element.
LEMMA Least ==
    ASSUME NEW T \in SUBSET Nat, T # {}
    PROVE  \E m \in T : \A n \in T : m <= n
<1> DEFINE R == OpToRel(<, Nat)
<1>r. R = {ss \in Nat \X Nat : ss[1] < ss[2]}
  BY Zenon DEF OpToRel
<1>w. IsWellFoundedOn(R, Nat)
  BY NatLessThanWellFounded, Zenon
<1> HIDE DEF R
<1>1. PICK m \in T : \A n \in T : <<n, m>> \notin R
  BY <1>w, WFMin
<1>2. ASSUME NEW n \in T, ~(m <= n) PROVE FALSE
  <2>1. <<n, m>> \in Nat \X Nat
    OBVIOUS
  <2>2. <<n, m>>[1] < <<n, m>>[2]
    BY <1>2
  <2>3. <<n, m>> \in R
    BY <1>r, <2>1, <2>2, Zenon
  <2> QED
    BY <1>1, <2>3, Zenon
<1> QED
  BY <1>2

\* A finite set of natural numbers that is not empty has a greatest element.
LEMMA Greatest ==
    ASSUME NEW T \in SUBSET Nat, T # {}, NEW b \in Nat, \A x \in T : x <= b
    PROVE  Sets!Max(T) \in T /\ \A x \in T : Sets!Max(T) >= x
<1> DEFINE U == {m \in Nat : \A x \in T : x <= m}
<1>1. U \in SUBSET Nat /\ b \in U
  OBVIOUS
<1>2. PICK m \in U : \A n \in U : m <= n
  <2> HIDE DEF U
  <2> QED
    BY <1>1, Least
<1>3. m \in T
  <2>1. SUFFICES ASSUME m \notin T PROVE FALSE
    OBVIOUS
  <2>u. \A x \in T : x \in Nat /\ x <= m
    BY <1>2
  <2>2. \A x \in T : x <= m - 1
    BY <2>1, <2>u
  <2>x. PICK x \in T : TRUE
    OBVIOUS
  <2>3. m >= 1
    BY <2>2, <2>u, <2>x
  <2> QED
    BY <1>2, <2>2, <2>3
<1>4. \E x \in T : \A y \in T : x >= y
  BY <1>2, <1>3
<1> QED
  BY <1>4 DEF Sets!Max

\* What Sets!Min finds.
LEMMA Smallest ==
    ASSUME NEW T \in SUBSET Nat, T # {}
    PROVE  Sets!Min(T) \in T /\ \A x \in T : Sets!Min(T) <= x
<1>1. \E m \in T : \A n \in T : m <= n
  BY Least
<1> QED
  BY <1>1 DEF Sets!Min

-----------------------------------------------------------------------------
(* Positions: the operators of IndexSet.                                   *)

\* The positions of the set below one.
LEMMA CountStep ==
    ASSUME NEW S \in SUBSET Nat, NEW i \in Nat
    PROVE  /\ Count(S, 0, i) \in 0 .. i
           /\ Count(S, 0, i + 1) = Count(S, 0, i) + IF i \in S THEN 1 ELSE 0
<1> DEFINE A(n) == {k \in S : 0 <= k /\ k < n}
<1>1. /\ Count(S, 0, i) = Cardinality(A(i))
      /\ Count(S, 0, i + 1) = Cardinality(A(i + 1))
  BY DEF Count
<1>2. IsFiniteSet(0 .. i - 1) /\ Cardinality(0 .. i - 1) = i
  BY FS_Interval
<1>e. \A k \in S : k \in Nat
  OBVIOUS
<1>m. \A n \in Nat : \A k : k \in A(n) <=> k \in S /\ k \in 0 .. n - 1
  <2> TAKE n \in Nat
  <2>1. A(n) \subseteq S /\ \A k \in S : k \in A(n) <=> 0 <= k /\ k < n
    OBVIOUS
  <2>2. \A k \in S : k \in 0 .. n - 1 <=> 0 <= k /\ k < n
    BY <1>e
  <2> HIDE DEF A
  <2> QED
    BY <2>1, <2>2
<1> HIDE DEF A
<1>3. A(i) \in SUBSET (0 .. i - 1)
  BY <1>m
<1>4. IsFiniteSet(A(i)) /\ Cardinality(A(i)) <= i
  BY <1>2, <1>3, FS_Subset
<1>5. Cardinality(A(i)) \in Nat
  BY <1>4, FS_CardinalityType
<1>6. CASE i \in S
  <2>1. A(i + 1) = A(i) \cup {i} /\ i \notin A(i)
    <3>1. \A k : k \in A(i + 1) <=> k \in S /\ k \in 0 .. i
      BY <1>m
    <3>2. \A k : k \in A(i + 1) <=> k \in A(i) \cup {i}
      BY <1>6, <1>m, <3>1
    <3> QED
      BY <1>m, <3>2
  <2> QED
    BY <1>1, <1>4, <1>5, <1>6, <2>1, FS_AddElement
<1>7. CASE i \notin S
  <2>1. A(i + 1) = A(i)
    <3>1. \A k : k \in A(i + 1) <=> k \in S /\ k \in 0 .. i
      BY <1>m
    <3>2. \A k : k \in A(i + 1) <=> k \in A(i)
      BY <1>7, <1>m, <3>1
    <3> QED
      BY <3>2
  <2> QED
    BY <1>1, <1>4, <1>5, <1>7, <2>1
<1> QED
  BY <1>6, <1>7

\* Positions outside the set keep their order when the set is taken out; a
\* position of the set goes where the next one outside goes.
LEMMA CountOrder ==
    ASSUME NEW S \in SUBSET Nat, NEW i \in Nat, NEW j \in Nat, i <= j
    PROVE  /\ Count(S, 0, i) <= Count(S, 0, j)
           /\ Count(S, 0, j) - Count(S, 0, i) <= j - i
           /\ i < j /\ i \notin S => i - Count(S, 0, i) < j - Count(S, 0, j)
<1> DEFINE P(n) == /\ Count(S, 0, i) <= Count(S, 0, n)
                   /\ Count(S, 0, n) - Count(S, 0, i) <= n - i
                   /\ i < n /\ i \notin S => i - Count(S, 0, i) < n - Count(S, 0, n)
           T == {n \in Nat : i <= n /\ ~P(n)}
<1>1. SUFFICES ASSUME ~P(j) PROVE FALSE
  OBVIOUS
<1>2. T \in SUBSET Nat /\ j \in T
  BY <1>1
<1>3. PICK n \in T : \A k \in T : n <= k
  <2> HIDE DEF T
  <2> QED
    BY <1>2, Least
<1>4. Count(S, 0, i) \in Nat
  BY CountStep
<1>5. n # i
  BY <1>3, <1>4
<1>6. n - 1 \in Nat /\ i <= n - 1 /\ P(n - 1)
  <2>1. n - 1 \in Nat /\ i <= n - 1 /\ n - 1 \notin T
    BY <1>3, <1>5
  <2> QED
    BY <2>1
<1>7. /\ Count(S, 0, n - 1) \in Nat
      /\ Count(S, 0, n) = Count(S, 0, n - 1) + IF n - 1 \in S THEN 1 ELSE 0
  <2>1. (n - 1) + 1 = n
    BY <1>6
  <2> QED
    BY <1>6, <2>1, CountStep
<1>8. P(n)
  BY <1>4, <1>6, <1>7
<1> QED
  BY <1>3, <1>8

\* Unshift keeps the order, and of the positions that are not in the set it maps
\* no two to one.
LEMMA UnshiftOrder ==
    ASSUME NEW S \in SUBSET Nat, NEW i \in Nat, NEW j \in Nat
    PROVE  /\ Unshift(S, i) \in 0 .. i
           /\ i <= j => Unshift(S, i) <= Unshift(S, j)
           /\ i < j /\ i \notin S => Unshift(S, i) < Unshift(S, j)
           /\ i \notin S /\ j \notin S /\ Unshift(S, i) = Unshift(S, j) => i = j
<1>1. Count(S, 0, i) \in 0 .. i /\ Count(S, 0, j) \in 0 .. j
  BY CountStep
<1>2. i <= j => /\ Count(S, 0, j) - Count(S, 0, i) <= j - i
                /\ i < j /\ i \notin S => i - Count(S, 0, i) < j - Count(S, 0, j)
  BY CountOrder
<1>3. j <= i => (j < i /\ j \notin S => j - Count(S, 0, j) < i - Count(S, 0, i))
  BY CountOrder
<1> QED
  BY <1>1, <1>2, <1>3 DEF Unshift

\* Shift finds the position outside the set that Unshift takes to the index.
LEMMA ShiftOf ==
    ASSUME NEW S \in SUBSET Nat, IsFiniteSet(S), NEW n \in Nat
    PROVE  /\ Shift(S, n) \in n .. n + Cardinality(S)
           /\ Shift(S, n) \in Nat
           /\ Shift(S, n) \notin S
           /\ Unshift(S, Shift(S, n)) = n
<1> DEFINE c == Cardinality(S)
           T == {i \in Nat : i + 1 - Count(S, 0, i + 1) > n}
<1>1. c \in Nat
  BY FS_CardinalityType
<1>2. \A i \in Nat : Count(S, 0, i) \in Nat /\ Count(S, 0, i) <= c
  <2> TAKE i \in Nat
  <2>1. {k \in S : 0 <= k /\ k < i} \in SUBSET S
    OBVIOUS
  <2>2. Count(S, 0, i) <= c
    BY <2>1, FS_Subset DEF Count
  <2> QED
    BY <2>2, CountStep
<1>3. n + c \in T
  BY <1>1, <1>2
<1>4. PICK i \in T : \A k \in T : i <= k
  <2>1. T \in SUBSET Nat
    OBVIOUS
  <2> HIDE DEF T
  <2> QED
    BY <1>3, <2>1, Least
<1>5. i - Count(S, 0, i) <= n
  <2>1. CASE i = 0
    BY <2>1, CountStep
  <2>2. CASE i # 0
    <3>1. i - 1 \in Nat /\ i - 1 \notin T /\ (i - 1) + 1 = i
      BY <1>4, <2>2
    <3> QED
      BY <1>2, <3>1
  <2> QED
    BY <2>1, <2>2
<1>6. /\ Count(S, 0, i + 1) = Count(S, 0, i) + IF i \in S THEN 1 ELSE 0
      /\ Count(S, 0, i) \in Nat /\ Count(S, 0, i) <= c
  BY <1>2, CountStep
<1>7. i \notin S /\ i - Count(S, 0, i) = n /\ i \in n .. n + c
  BY <1>1, <1>4, <1>5, <1>6
<1>8. /\ Shift(S, n) \in n .. n + c /\ Shift(S, n) \notin S
      /\ Shift(S, n) - Count(S, 0, Shift(S, n)) = n
  BY <1>7 DEF Shift
<1> QED
  BY <1>1, <1>8 DEF Unshift

\* Shift takes back what Unshift does, and keeps the order.
LEMMA ShiftBack ==
    ASSUME NEW S \in SUBSET Nat, IsFiniteSet(S), NEW i \in Nat, i \notin S
    PROVE  Shift(S, Unshift(S, i)) = i
<1>1. Unshift(S, i) \in Nat
  BY UnshiftOrder
<1> DEFINE j == Shift(S, Unshift(S, i))
<1>2. j \in Nat /\ j \notin S /\ Unshift(S, j) = Unshift(S, i)
  BY <1>1, ShiftOf
<1> HIDE DEF j
<1> QED
  BY <1>2, UnshiftOrder DEF j

\* Shift keeps the order.
LEMMA ShiftOrder ==
    ASSUME NEW S \in SUBSET Nat, IsFiniteSet(S), NEW n \in Nat, NEW m \in Nat, n < m
    PROVE  Shift(S, n) < Shift(S, m)
<1> DEFINE i == Shift(S, n)
           j == Shift(S, m)
<1>1. /\ i \in Nat /\ i \notin S /\ Unshift(S, i) = n
      /\ j \in Nat /\ j \notin S /\ Unshift(S, j) = m
  BY ShiftOf
<1> HIDE DEF i, j
<1>2. j <= i => Unshift(S, j) <= Unshift(S, i)
  BY <1>1, UnshiftOrder
<1> QED
  BY <1>1, <1>2 DEF i, j

-----------------------------------------------------------------------------
(* Rows before and after: who is left, and where.                          *)

\* No row occurs twice in a list or in results.
RowList(list) ==
    /\ list \in Seq(Nat)
    /\ \A i, k \in Positions(list) : At(list, i) = At(list, k) => i = k

\* What Rebuilds says of deletions D and insertions I.
Same(old, new, D, I) ==
    /\ D \subseteq Positions(old) /\ I \subseteq Positions(new)
    /\ Left(old, D) = Left(new, I)
    /\ \A i \in Positions(old) \ D, j \in Positions(new) \ I :
          At(old, i) = At(new, j) =>
              \A k \in Positions(old) \ D, l \in Positions(new) \ I :
                  At(old, k) = At(new, l) => (i < k <=> j < l)

\* Same is what Rebuilds says of the deletions and insertions.
LEMMA RebuildsIsSame ==
    \A old, new, c : Rebuilds(old, new, c) <=> Same(old, new, c.deletions, c.insertions)
BY DEF Rebuilds, Same

\* The positions of a list, what is at them, and how many there are.
LEMMA PositionsAre ==
    ASSUME NEW S, NEW list \in Seq(S)
    PROVE  /\ Len(list) \in Nat
           /\ Positions(list) \in SUBSET Nat
           /\ IsFiniteSet(Positions(list)) /\ Cardinality(Positions(list)) = Len(list)
           /\ \A i \in Nat : i \in Positions(list) <=> i < Len(list)
           /\ \A i \in Positions(list) : At(list, i) \in S
           /\ Elements(list) = {At(list, i) : i \in Positions(list)}
<1>1. Len(list) \in Nat /\ DOMAIN list = 1 .. Len(list)
  OBVIOUS
<1>2. IsFiniteSet(Positions(list)) /\ Cardinality(Positions(list)) = Len(list)
  <2> DEFINE n == Len(list)
  <2>1. n \in Nat /\ Positions(list) = 0 .. n - 1
    BY <1>1 DEF Positions
  <2> HIDE DEF n
  <2>2. 0 \in Int /\ n - 1 \in Int
    BY <2>1
  <2>3. /\ IsFiniteSet(0 .. n - 1)
        /\ Cardinality(0 .. n - 1) = IF 0 > n - 1 THEN 0 ELSE n - 1 - 0 + 1
    BY <2>2, FS_Interval
  <2>4. Cardinality(0 .. n - 1) = n
    BY <2>1, <2>3
  <2> QED
    BY <2>1, <2>3, <2>4 DEF n
<1>3. Elements(list) = {At(list, i) : i \in Positions(list)}
  <2>1. ASSUME NEW r \in Elements(list) PROVE r \in {At(list, i) : i \in Positions(list)}
    <3>1. PICK k \in 1 .. Len(list) : r = list[k]
      BY <1>1, <2>1 DEF Elements
    <3>2. k - 1 \in Positions(list) /\ At(list, k - 1) = r
      BY <1>1, <3>1 DEF Positions, At
    <3> QED
      BY <3>2
  <2>2. ASSUME NEW i \in Positions(list) PROVE At(list, i) \in Elements(list)
    BY <1>1 DEF Elements, At, Positions
  <2> QED
    BY <2>1, <2>2
<1> QED
  BY <1>1, <1>2, <1>3 DEF Positions, At

\* Same is symmetric, and whoever is left has a place on the other side.
LEMMA SameBack ==
    ASSUME NEW old \in Seq(Nat), NEW new \in Seq(Nat), NEW D, NEW I, Same(old, new, D, I)
    PROVE  Same(new, old, I, D)
<1> USE DEF Same
<1>1. Positions(old) \in SUBSET Nat /\ Positions(new) \in SUBSET Nat
  BY PositionsAre
<1>2. ASSUME NEW i \in Positions(new) \ I, NEW j \in Positions(old) \ D, At(new, i) = At(old, j),
             NEW k \in Positions(new) \ I, NEW l \in Positions(old) \ D, At(new, k) = At(old, l)
      PROVE  i < k <=> j < l
  BY <1>2
<1> QED
  BY <1>2

\* A row that is left before is left after.
LEMMA Remains ==
    ASSUME NEW old, NEW new, NEW D, NEW I, Same(old, new, D, I), NEW i \in Positions(old) \ D
    PROVE  \E j \in Positions(new) \ I : At(new, j) = At(old, i)
<1>1. At(old, i) \in Left(new, I)
  BY DEF Same, Left
<1> QED
  BY <1>1 DEF Left

\* How many positions below i are not in S.
LEMMA UnshiftCounts ==
    ASSUME NEW S \in SUBSET Nat, NEW i \in Nat
    PROVE  /\ IsFiniteSet({k \in 0 .. i - 1 : k \notin S})
           /\ Cardinality({k \in 0 .. i - 1 : k \notin S}) = Unshift(S, i)
<1> DEFINE A == {k \in S : 0 <= k /\ k < i}
           X == {k \in 0 .. i - 1 : k \notin S}
<1>1. IsFiniteSet(0 .. i - 1) /\ Cardinality(0 .. i - 1) = i
  BY FS_Interval
<1>2. X = (0 .. i - 1) \ S
  OBVIOUS
<1>3. (0 .. i - 1) \cap S = A
  <2>1. A \subseteq S /\ \A k \in S : k \in A <=> 0 <= k /\ k < i
    OBVIOUS
  <2>2. \A k \in S : k \in 0 .. i - 1 <=> 0 <= k /\ k < i
    <3>1. \A k \in S : k \in Nat
      OBVIOUS
    <3> QED
      BY <3>1
  <2> HIDE DEF A
  <2> QED
    BY <2>1, <2>2
<1>4. IsFiniteSet(X) /\ Cardinality(X) = i - Cardinality(A)
  <2> DEFINE N == 0 .. i - 1
  <2>1. IsFiniteSet(N) /\ Cardinality(N) = i /\ X = N \ S /\ N \cap S = A
    BY <1>1, <1>2, <1>3
  <2> HIDE DEF N, X, A
  <2>2. IsFiniteSet(N \ S) /\ Cardinality(N \ S) = Cardinality(N) - Cardinality(N \cap S)
    BY <2>1, FS_Difference
  <2> QED
    BY <2>1, <2>2
<1> QED
  BY <1>4 DEF Unshift, Count

\* A row that is left has as many rows that are left before it on both sides.
LEMMA SameRank ==
    ASSUME NEW old, RowList(old), NEW new, RowList(new), NEW D, NEW I, Same(old, new, D, I),
           NEW i \in Positions(old) \ D, NEW j \in Positions(new) \ I, At(old, i) = At(new, j)
    PROVE  Unshift(D, i) = Unshift(I, j)
<1>t. old \in Seq(Nat) /\ new \in Seq(Nat)
  BY DEF RowList
<1>p. /\ Positions(old) \in SUBSET Nat /\ Positions(new) \in SUBSET Nat
      /\ \A k \in Nat : k \in Positions(old) <=> k < Len(old)
      /\ \A k \in Nat : k \in Positions(new) <=> k < Len(new)
      /\ Len(old) \in Nat /\ Len(new) \in Nat
  BY <1>t, PositionsAre
<1>d. D \in SUBSET Nat /\ I \in SUBSET Nat /\ i \in Nat /\ j \in Nat
  BY <1>p DEF Same
<1> DEFINE X == {k \in 0 .. i - 1 : k \notin D}
           Y == {l \in 0 .. j - 1 : l \notin I}
           f == [k \in X |-> CHOOSE l \in Y : At(new, l) = At(old, k)]
<1>1. /\ IsFiniteSet(X) /\ Cardinality(X) = Unshift(D, i)
      /\ IsFiniteSet(Y) /\ Cardinality(Y) = Unshift(I, j)
  BY <1>d, UnshiftCounts
<1>2. /\ \A k : k \in X <=> k \in Positions(old) \ D /\ k < i
      /\ \A l : l \in Y <=> l \in Positions(new) \ I /\ l < j
  BY <1>p, <1>d
<1>s. Same(new, old, I, D)
  BY <1>t, SameBack
<1> HIDE DEF X, Y
<1>3. ASSUME NEW k \in X PROVE \E l \in Y : At(new, l) = At(old, k)
  <2>1. PICK l \in Positions(new) \ I : At(new, l) = At(old, k)
    BY <1>2, Remains
  <2>2. k < i => l < j
    BY <1>2, <2>1 DEF Same
  <2> QED
    BY <1>2, <2>1, <2>2
<1>4. ASSUME NEW l \in Y PROVE \E k \in X : At(new, l) = At(old, k)
  <2>1. PICK k \in Positions(old) \ D : At(old, k) = At(new, l)
    BY <1>2, <1>s, Remains
  <2>2. l < j => k < i
    BY <1>2, <1>s, <2>1 DEF Same
  <2> QED
    BY <1>2, <2>1, <2>2
<1>5. \A k \in X : f[k] \in Y /\ At(new, f[k]) = At(old, k)
  BY <1>3
<1>6. f \in [X -> Y]
  BY <1>5
<1>7. \A k, m \in X : f[k] = f[m] => k = m
  BY <1>2, <1>5 DEF RowList
<1>8. \A l \in Y : \E k \in X : f[k] = l
  <2> TAKE l \in Y
  <2>1. PICK k \in X : At(new, l) = At(old, k)
    BY <1>4
  <2>2. f[k] = l
    BY <1>2, <1>5, <2>1 DEF RowList
  <2> QED
    BY <2>2
<1> HIDE DEF f
<1>9. f \in Bijection(X, Y)
  BY <1>6, <1>7, <1>8 DEF Bijection, Injection, Surjection, IsInjective
<1>10. ExistsBijection(X, Y)
  BY <1>9 DEF ExistsBijection
<1> QED
  BY <1>1, <1>10, FS_Bijection

\* A subset of the positions of a list.
LEMMA SubsetOfPositions ==
    ASSUME NEW S, NEW list \in Seq(S), NEW D, D \subseteq Positions(list)
    PROVE  D \in SUBSET Nat /\ IsFiniteSet(D) /\ Cardinality(D) \in Nat /\ Cardinality(D) <= Len(list)
<1>1. D \in SUBSET Nat /\ IsFiniteSet(D) /\ Cardinality(D) <= Len(list)
  BY PositionsAre, FS_Subset
<1> QED
  BY <1>1, FS_CardinalityType

\* Where a row that is left is now: Shift after Unshift.
LEMMA Partner ==
    ASSUME NEW old, RowList(old), NEW new, RowList(new), NEW D, NEW I, Same(old, new, D, I),
           NEW i \in Positions(old) \ D
    PROVE  /\ Shift(I, Unshift(D, i)) \in Positions(new) \ I
           /\ At(new, Shift(I, Unshift(D, i))) = At(old, i)
<1>1. PICK j \in Positions(new) \ I : At(new, j) = At(old, i)
  BY Remains
<1>2. Unshift(D, i) = Unshift(I, j)
  BY <1>1, SameRank
<1>3. new \in Seq(Nat) /\ I \subseteq Positions(new)
  BY DEF RowList, Same
<1>4. I \in SUBSET Nat /\ IsFiniteSet(I) /\ j \in Nat
  BY <1>3, PositionsAre, SubsetOfPositions
<1>5. Shift(I, Unshift(I, j)) = j
  BY <1>1, <1>4, ShiftBack
<1> QED
  BY <1>1, <1>2, <1>5

\* The size of a set without a subset of it.
LEMMA SizeWithout ==
    ASSUME NEW P, IsFiniteSet(P), NEW D \in SUBSET P
    PROVE  IsFiniteSet(P \ D) /\ Cardinality(P \ D) = Cardinality(P) - Cardinality(D)
<1>1. P \cap D = D
  OBVIOUS
<1>2. IsFiniteSet(P \ D) /\ Cardinality(P \ D) = Cardinality(P) - Cardinality(P \cap D)
  BY FS_Difference
<1> QED
  BY <1>1, <1>2

\* As many rows are left on both sides.
LEMMA SameSize ==
    ASSUME NEW old, RowList(old), NEW new, RowList(new), NEW D, NEW I, Same(old, new, D, I)
    PROVE  Len(old) - Cardinality(D) = Len(new) - Cardinality(I)
<1>t. old \in Seq(Nat) /\ new \in Seq(Nat)
  BY DEF RowList
<1> DEFINE X == Positions(old) \ D
           Y == Positions(new) \ I
           f == [k \in X |-> CHOOSE l \in Y : At(new, l) = At(old, k)]
<1>1. /\ IsFiniteSet(X) /\ Cardinality(X) = Len(old) - Cardinality(D)
      /\ IsFiniteSet(Y) /\ Cardinality(Y) = Len(new) - Cardinality(I)
  <2>1. D \in SUBSET Positions(old) /\ I \in SUBSET Positions(new)
    BY DEF Same
  <2>2. /\ IsFiniteSet(Positions(old)) /\ Cardinality(Positions(old)) = Len(old)
        /\ IsFiniteSet(Positions(new)) /\ Cardinality(Positions(new)) = Len(new)
    BY <1>t, PositionsAre
  <2> HIDE DEF X, Y
  <2>3. /\ IsFiniteSet(Positions(old) \ D)
        /\ Cardinality(Positions(old) \ D) = Len(old) - Cardinality(D)
    BY <2>1, <2>2, SizeWithout
  <2>4. /\ IsFiniteSet(Positions(new) \ I)
        /\ Cardinality(Positions(new) \ I) = Len(new) - Cardinality(I)
    BY <2>1, <2>2, SizeWithout
  <2> QED
    BY <2>3, <2>4 DEF X, Y
<1>s. Same(new, old, I, D)
  BY <1>t, SameBack
<1>2. \A k \in X : \E l \in Y : At(new, l) = At(old, k)
  BY Remains
<1>3. \A l \in Y : \E k \in X : At(new, l) = At(old, k)
  BY <1>s, Remains
<1>4. X \subseteq Positions(old) /\ Y \subseteq Positions(new)
  OBVIOUS
<1> HIDE DEF X, Y
<1>5. \A k \in X : f[k] \in Y /\ At(new, f[k]) = At(old, k)
  BY <1>2
<1>6. f \in [X -> Y]
  BY <1>5
<1>7. \A k, m \in X : f[k] = f[m] => k = m
  BY <1>4, <1>5 DEF RowList
<1>8. \A l \in Y : \E k \in X : f[k] = l
  <2> TAKE l \in Y
  <2>1. PICK k \in X : At(new, l) = At(old, k)
    BY <1>3
  <2>2. f[k] = l
    BY <1>4, <1>5, <2>1 DEF RowList
  <2> QED
    BY <2>2
<1> HIDE DEF f
<1>9. f \in Bijection(X, Y)
  BY <1>6, <1>7, <1>8 DEF Bijection, Injection, Surjection, IsInjective
<1>10. ExistsBijection(X, Y)
  BY <1>9 DEF ExistsBijection
<1> QED
  BY <1>1, <1>10, FS_Bijection

-----------------------------------------------------------------------------
(* Rows put in and taken out.                                              *)

\* Where the rows are once one has been inserted.
LEMMA InsertedAt ==
    ASSUME NEW list \in Seq(Nat), NEW index \in 0 .. Len(list), NEW r \in Nat,
           NEW out, out = Seqs!InsertAt(list, index + 1, r)
    PROVE  /\ out \in Seq(Nat) /\ Len(out) = Len(list) + 1
           /\ \A k \in 0 .. Len(list) : /\ k < index => At(out, k) = At(list, k)
                                        /\ k = index => At(out, k) = r
                                        /\ k > index => At(out, k) = At(list, k - 1)
<1> DEFINE i == index + 1
           a == SubSeq(list, 1, i - 1)
           x == <<r>>
           b == SubSeq(list, i, Len(list))
           n == Len(list)
<1>0. n \in Nat /\ i \in 1 .. n + 1 /\ index \in Nat
  OBVIOUS
<1>e. \A k \in 1 .. n : list[k] \in Nat
  OBVIOUS
<1> HIDE DEF i, n
<1>1. a \in Seq(Nat) /\ Len(a) = i - 1 /\ \A k \in 1 .. i - 1 : a[k] = list[k]
  <2>1. \A k \in 1 .. i - 1 : list[k] \in Nat
    BY <1>0, <1>e
  <2>2. /\ SubSeq(list, 1, i - 1) \in Seq(Nat)
        /\ Len(SubSeq(list, 1, i - 1)) = IF 1 <= i - 1 THEN i - 1 - 1 + 1 ELSE 0
        /\ \A k \in 1 .. i - 1 - 1 + 1 : SubSeq(list, 1, i - 1)[k] = list[1 + k - 1]
    BY <1>0, <2>1, SubSeqProperties
  <2> QED
    BY <1>0, <2>2
<1>2. b \in Seq(Nat) /\ Len(b) = n - i + 1 /\ \A k \in 1 .. n - i + 1 : b[k] = list[i + k - 1]
  <2>1. \A k \in i .. n : list[k] \in Nat
    BY <1>0, <1>e
  <2>2. /\ SubSeq(list, i, n) \in Seq(Nat)
        /\ Len(SubSeq(list, i, n)) = IF i <= n THEN n - i + 1 ELSE 0
        /\ \A k \in 1 .. n - i + 1 : SubSeq(list, i, n)[k] = list[i + k - 1]
    BY <1>0, <2>1, SubSeqProperties
  <2> QED
    BY <1>0, <2>2 DEF n
<1>5. Seqs!InsertAt(list, i, r) = a \o x \o b
  BY Zenon DEF Seqs!InsertAt
<1>x. x \in Seq(Nat) /\ Len(x) = 1 /\ x[1] = r
  OBVIOUS
<1> HIDE DEF a, b, x
<1>3. /\ a \o x \in Seq(Nat) /\ Len(a \o x) = i
      /\ \A k \in 1 .. i : (a \o x)[k] = IF k < i THEN list[k] ELSE r
  <2>1. /\ a \o x \in Seq(Nat) /\ Len(a \o x) = Len(a) + Len(x)
        /\ \A k \in 1 .. Len(a) + Len(x) : (a \o x)[k] = IF k <= Len(a) THEN a[k] ELSE x[k - Len(a)]
    BY <1>1, <1>x, ConcatProperties
  <2>2. Len(a) + Len(x) = i
    BY <1>0, <1>1, <1>x
  <2>3. ASSUME NEW k \in 1 .. i PROVE (a \o x)[k] = IF k < i THEN list[k] ELSE r
    <3>1. CASE k < i
      BY <1>0, <1>1, <2>1, <2>2, <3>1
    <3>2. CASE ~(k < i)
      <4>1. k = i /\ ~(k <= i - 1) /\ k - (i - 1) = 1
        BY <1>0, <3>2
      <4> QED
        BY <1>1, <1>x, <2>1, <2>2, <3>2, <4>1
    <3> QED
      BY <3>1, <3>2
  <2> QED
    BY <2>1, <2>2, <2>3
<1> DEFINE ax == a \o x
<1>y. ax \in Seq(Nat)
  BY <1>3
<1>6. out = ax \o b
  BY <1>5 DEF i
<1> HIDE DEF ax
<1>4. /\ ax \o b \in Seq(Nat) /\ Len(ax \o b) = Len(ax) + Len(b)
      /\ \A k \in 1 .. Len(ax) + Len(b) : (ax \o b)[k] = IF k <= Len(ax) THEN ax[k] ELSE b[k - Len(ax)]
  BY <1>2, <1>y, ConcatProperties
<1>7. /\ out \in Seq(Nat) /\ Len(out) = n + 1
      /\ \A k \in 1 .. n + 1 : out[k] = IF k <= i THEN ax[k] ELSE b[k - i]
  <2>1. Len(ax) = i /\ Len(ax) + Len(b) = n + 1
    BY <1>0, <1>2, <1>3 DEF ax
  <2> QED
    BY <1>4, <1>6, <2>1
<1>8. ASSUME NEW k \in 0 .. n
      PROVE  /\ k < index => out[k + 1] = list[k + 1]
             /\ k = index => out[k + 1] = r
             /\ k > index => out[k + 1] = list[k]
  <2>1. k + 1 \in 1 .. n + 1
    BY <1>0
  <2> DEFINE m == k + 1
  <2>2. out[m] = IF m <= i THEN ax[m] ELSE b[m - i]
    <3>1. m \in 1 .. n + 1
      BY <2>1
    <3> HIDE DEF m
    <3> QED
      BY <1>7, <3>1, Zenon
  <2>5. CASE k < index
    <3>1. k + 1 \in 1 .. i /\ k + 1 < i /\ k + 1 <= i
      BY <1>0, <2>5 DEF i
    <3> QED
      BY <1>0, <1>3, <2>2, <2>5, <3>1 DEF ax
  <2>6. CASE k = index
    <3>1. k + 1 \in 1 .. i /\ ~(k + 1 < i) /\ k + 1 <= i /\ ~(k < index)
      BY <1>0, <2>6 DEF i
    <3> QED
      BY <1>3, <2>2, <2>6, <3>1 DEF ax
  <2>7. CASE k > index
    <3>1. ~(k + 1 <= i) /\ ~(k < index) /\ k # index /\ k + 1 - i \in 1 .. n - i + 1
          /\ i + (k + 1 - i) - 1 = k
      BY <1>0, <2>7 DEF i
    <3>2. b[k + 1 - i] = list[i + (k + 1 - i) - 1]
      BY <1>2, <3>1
    <3>3. b[k + 1 - i] = list[k]
      BY <3>1, <3>2
    <3>4. out[k + 1] = b[k + 1 - i]
      BY <1>0, <2>2, <3>1 DEF m, i
    <3> QED
      BY <3>1, <3>3, <3>4, Zenon
  <2> QED
    BY <1>0, <2>5, <2>6, <2>7
<1>9. ASSUME NEW k \in 0 .. n
      PROVE  /\ k < index => At(out, k) = At(list, k)
             /\ k = index => At(out, k) = r
             /\ k > index => At(out, k) = At(list, k - 1)
  <2>1. k - 1 + 1 = k
    BY <1>0
  <2> QED
    BY <1>8, <2>1 DEF At
<1> QED
  BY <1>7, <1>9 DEF n

\* Where the rows are once one has been removed.
LEMMA RemovedAt ==
    ASSUME NEW list \in Seq(Nat), NEW index \in Positions(list),
           NEW out, out = Seqs!RemoveAt(list, index + 1)
    PROVE  /\ out \in Seq(Nat) /\ Len(out) = Len(list) - 1
           /\ \A k \in Positions(out) :
                 /\ k < index => At(out, k) = At(list, k)
                 /\ k >= index => At(out, k) = At(list, k + 1)
<1> DEFINE i == index + 1
           a == SubSeq(list, 1, i - 1)
           b == SubSeq(list, i + 1, Len(list))
           n == Len(list)
<1>0. n \in Nat /\ i \in 1 .. n /\ index \in Nat
  BY PositionsAre DEF Positions
<1>e. \A k \in 1 .. n : list[k] \in Nat
  OBVIOUS
<1> HIDE DEF i, n
<1>1. a \in Seq(Nat) /\ Len(a) = i - 1 /\ \A k \in 1 .. i - 1 : a[k] = list[k]
  <2>1. \A k \in 1 .. i - 1 : list[k] \in Nat
    BY <1>0, <1>e
  <2>2. /\ SubSeq(list, 1, i - 1) \in Seq(Nat)
        /\ Len(SubSeq(list, 1, i - 1)) = IF 1 <= i - 1 THEN i - 1 - 1 + 1 ELSE 0
        /\ \A k \in 1 .. i - 1 - 1 + 1 : SubSeq(list, 1, i - 1)[k] = list[1 + k - 1]
    BY <1>0, <2>1, SubSeqProperties
  <2> QED
    BY <1>0, <2>2
<1>2. b \in Seq(Nat) /\ Len(b) = n - i /\ \A k \in 1 .. n - i : b[k] = list[i + k]
  <2>1. \A k \in i + 1 .. n : list[k] \in Nat
    BY <1>0, <1>e
  <2>2. /\ SubSeq(list, i + 1, n) \in Seq(Nat)
        /\ Len(SubSeq(list, i + 1, n)) = IF i + 1 <= n THEN n - (i + 1) + 1 ELSE 0
        /\ \A k \in 1 .. n - (i + 1) + 1 : SubSeq(list, i + 1, n)[k] = list[i + 1 + k - 1]
    BY <1>0, <2>1, SubSeqProperties
  <2> QED
    BY <1>0, <2>2 DEF n
<1>5. Seqs!RemoveAt(list, i) = a \o b
  BY DEF Seqs!RemoveAt
<1> HIDE DEF a, b
<1>3. /\ a \o b \in Seq(Nat) /\ Len(a \o b) = Len(a) + Len(b)
      /\ \A k \in 1 .. Len(a) + Len(b) : (a \o b)[k] = IF k <= Len(a) THEN a[k] ELSE b[k - Len(a)]
  BY <1>1, <1>2, ConcatProperties
<1>4. /\ a \o b \in Seq(Nat) /\ Len(a \o b) = n - 1
      /\ \A k \in 1 .. n - 1 : /\ k < i => (a \o b)[k] = list[k]
                               /\ ~(k < i) => (a \o b)[k] = list[k + 1]
  <2>1. Len(a \o b) = n - 1
    BY <1>0, <1>1, <1>2, <1>3
  <2>2. ASSUME NEW k \in 1 .. n - 1
        PROVE  /\ k < i => (a \o b)[k] = list[k]
               /\ ~(k < i) => (a \o b)[k] = list[k + 1]
    <3>0. Len(a) + Len(b) = n - 1 /\ Len(a) = i - 1
      BY <1>0, <1>1, <1>2
    <3>p. k \in 1 .. Len(a) + Len(b)
      BY <3>0
    <3>q. (a \o b)[k] = IF k <= Len(a) THEN a[k] ELSE b[k - Len(a)]
      BY <1>3, <3>p
    <3>1. (a \o b)[k] = IF k <= i - 1 THEN a[k] ELSE b[k - (i - 1)]
      BY <3>0, <3>q
    <3>2. CASE k < i
      BY <1>0, <1>1, <3>1, <3>2
    <3>3. CASE ~(k < i)
      <4>1. k - (i - 1) \in 1 .. n - i
        BY <1>0, <3>3
      <4>2. b[k - (i - 1)] = list[i + (k - (i - 1))]
        BY <1>2, <4>1
      <4>3. i + (k - (i - 1)) = k + 1
        BY <1>0
      <4> QED
        BY <1>0, <3>1, <3>3, <4>2, <4>3
    <3> QED
      BY <3>2, <3>3
  <2> QED
    BY <1>3, <2>1, <2>2
<1>n. out = a \o b
  BY <1>5 DEF i
<1>6. ASSUME NEW k \in Positions(out)
      PROVE  /\ k < index => At(out, k) = At(list, k)
             /\ k >= index => At(out, k) = At(list, k + 1)
  <2>1. k \in Nat /\ k + 1 \in 1 .. n - 1
    BY <1>0, <1>4, <1>n DEF Positions
  <2> DEFINE m == k + 1
  <2>2. (m < i => out[m] = list[m]) /\ (~(m < i) => out[m] = list[m + 1])
    <3>1. m \in 1 .. n - 1
      BY <2>1
    <3> HIDE DEF m
    <3> QED
      BY <1>4, <1>n, <3>1, Zenon
  <2>3. m < i <=> k < index
    BY <1>0, <2>1 DEF i
  <2>4. k < index \/ k >= index
    BY <1>0, <2>1
  <2> QED
    BY <1>0, <2>1, <2>2, <2>3, <2>4 DEF At
<1> QED
  BY <1>4, <1>n, <1>6 DEF n

-----------------------------------------------------------------------------
(* Rows that are left go on to be left when the others around them change.  *)

Up(index, i) == IF i >= index THEN i + 1 ELSE i
Down(index, i) == IF i > index THEN i - 1 ELSE i

\* The rows that are left of new are left of new2, renumbered in their order by g.
IsRenumbered(new, new2, I, J, g) ==
    /\ J \subseteq Positions(new2)
    /\ \A i \in Positions(new) \ I : g[i] \in Positions(new2) \ J /\ At(new2, g[i]) = At(new, i)
    /\ \A j \in Positions(new2) \ J : \E i \in Positions(new) \ I : g[i] = j
    /\ \A i, k \in Positions(new) \ I : i < k => g[i] < g[k]

\* The rows that are left stay the same when the rows after are renumbered.
LEMMA Renumbered ==
    ASSUME NEW old \in Seq(Nat), NEW new \in Seq(Nat), NEW new2 \in Seq(Nat),
           NEW D, NEW I, NEW J, NEW g, Same(old, new, D, I), IsRenumbered(new, new2, I, J, g)
    PROVE  Same(old, new2, D, J)
<1> USE DEF IsRenumbered
<1>p. /\ Positions(old) \in SUBSET Nat /\ Positions(new) \in SUBSET Nat
      /\ Positions(new2) \in SUBSET Nat
  BY PositionsAre
<1>1. Left(new, I) = Left(new2, J)
  <2>1. ASSUME NEW x \in Left(new, I) PROVE x \in Left(new2, J)
    <3>1. PICK i \in Positions(new) \ I : x = At(new, i)
      BY DEF Left
    <3> QED
      BY <3>1 DEF Left
  <2>2. ASSUME NEW x \in Left(new2, J) PROVE x \in Left(new, I)
    <3>1. PICK j \in Positions(new2) \ J : x = At(new2, j)
      BY DEF Left
    <3>2. PICK i \in Positions(new) \ I : g[i] = j
      BY <3>1
    <3> QED
      BY <3>1, <3>2 DEF Left
  <2> QED
    BY <2>1, <2>2
<1>2. ASSUME NEW i \in Positions(old) \ D, NEW j \in Positions(new2) \ J, At(old, i) = At(new2, j),
             NEW k \in Positions(old) \ D, NEW l \in Positions(new2) \ J, At(old, k) = At(new2, l)
      PROVE  i < k <=> j < l
  <2>1. PICK x \in Positions(new) \ I : g[x] = j
    OBVIOUS
  <2>2. PICK y \in Positions(new) \ I : g[y] = l
    OBVIOUS
  <2>3. At(old, i) = At(new, x) /\ At(old, k) = At(new, y)
    BY <1>2, <2>1, <2>2
  <2>4. i < k <=> x < y
    BY <2>3 DEF Same
  <2>5. x < y => j < l
    BY <2>1, <2>2
  <2>6. y < x => l < j
    BY <2>1, <2>2
  <2>7. x = y => j = l
    BY <2>1, <2>2
  <2>8. x \in Nat /\ y \in Nat /\ j \in Nat /\ l \in Nat
    BY <1>p
  <2> QED
    BY <2>4, <2>5, <2>6, <2>7, <2>8
<1> QED
  BY <1>1, <1>2 DEF Same

\* A pair that is left may as well be reported.
LEMMA Reported ==
    ASSUME NEW old, RowList(old), NEW new, RowList(new), NEW D, NEW I, Same(old, new, D, I),
           NEW i \in Positions(old) \ D, NEW j \in Positions(new) \ I, At(old, i) = At(new, j)
    PROVE  Same(old, new, D \cup {i}, I \cup {j})
<1>1. ASSUME NEW x \in Left(old, D \cup {i}) PROVE x \in Left(new, I \cup {j})
  <2>1. PICK k \in Positions(old) \ D : k # i /\ x = At(old, k)
    BY DEF Left
  <2>2. PICK l \in Positions(new) \ I : At(new, l) = At(old, k)
    BY Remains
  <2>3. l # j
    BY <2>1, <2>2 DEF RowList
  <2> QED
    BY <2>1, <2>2, <2>3 DEF Left
<1>2. ASSUME NEW x \in Left(new, I \cup {j}) PROVE x \in Left(old, D \cup {i})
  <2>1. PICK k \in Positions(new) \ I : k # j /\ x = At(new, k)
    BY DEF Left
  <2>s. Same(new, old, I, D)
    BY SameBack DEF RowList
  <2>2. PICK l \in Positions(old) \ D : At(old, l) = At(new, k)
    BY <2>s, Remains
  <2>3. l # i
    BY <2>1, <2>2 DEF RowList
  <2> QED
    BY <2>1, <2>2, <2>3 DEF Left
<1>3. Left(old, D \cup {i}) = Left(new, I \cup {j})
  BY <1>1, <1>2
<1> QED
  BY <1>3 DEF Same

\* A row is put in.
LEMMA PutIn ==
    ASSUME NEW old, RowList(old), NEW new, RowList(new), NEW D, NEW I, Same(old, new, D, I),
           NEW index \in 0 .. Len(new), NEW r \in Nat, r \notin Elements(new),
           NEW new2, new2 = Seqs!InsertAt(new, index + 1, r)
    PROVE  /\ RowList(new2)
           /\ Len(new2) = Len(new) + 1
           /\ Same(old, new2, D, InsertAt(I, index))
           /\ At(new2, index) = r
           /\ \A t \in I : /\ Up(index, t) \in InsertAt(I, index)
                           /\ At(new2, Up(index, t)) = At(new, t)
<1>t. old \in Seq(Nat) /\ new \in Seq(Nat)
  BY DEF RowList
<1>p. /\ Positions(old) \in SUBSET Nat /\ Positions(new) \in SUBSET Nat /\ Len(new) \in Nat
      /\ \A k \in Nat : k \in Positions(new) <=> k < Len(new)
      /\ index \in Nat /\ index \in 0 .. Len(new)
  BY <1>t, PositionsAre
<1>1. /\ new2 \in Seq(Nat) /\ Len(new2) = Len(new) + 1
      /\ \A k \in 0 .. Len(new) : /\ k < index => At(new2, k) = At(new, k)
                                  /\ k = index => At(new2, k) = r
                                  /\ k > index => At(new2, k) = At(new, k - 1)
  <2>1. new2 \in Seq(Nat) /\ Len(new2) = Len(new) + 1
    BY <1>t, InsertedAt
  <2>2. ASSUME NEW k \in 0 .. Len(new)
        PROVE  /\ k < index => At(new2, k) = At(new, k)
               /\ k = index => At(new2, k) = r
               /\ k > index => At(new2, k) = At(new, k - 1)
    <3>1. k < index => At(new2, k) = At(new, k)
      BY <1>t, InsertedAt
    <3>2. k = index => At(new2, k) = r
      BY <1>t, InsertedAt
    <3>3. k > index => At(new2, k) = At(new, k - 1)
      BY <1>t, InsertedAt
    <3> QED
      BY <3>1, <3>2, <3>3
  <2> QED
    BY <2>1, <2>2
<1> DEFINE J == InsertAt(I, index)
           g == [i \in Positions(new) |-> Up(index, i)]
<1>2. /\ Positions(new2) \in SUBSET Nat
      /\ \A k \in Nat : k \in Positions(new2) <=> k <= Len(new)
  <2>1. /\ Positions(new2) \in SUBSET Nat
        /\ \A k \in Nat : k \in Positions(new2) <=> k < Len(new2)
    BY <1>1, PositionsAre
  <2> QED
    BY <1>1, <1>p, <2>1
<1>3. I \subseteq Positions(new)
  BY DEF Same
<1>4. \A i \in Positions(new) : /\ Up(index, i) \in Positions(new2) /\ Up(index, i) # index
                                /\ At(new2, Up(index, i)) = At(new, i)
  <2> TAKE i \in Positions(new)
  <2>1. i \in Nat /\ i < Len(new)
    BY <1>p
  <2>2. CASE i >= index
    <3>1. Up(index, i) = i + 1 /\ i + 1 # index /\ i + 1 \in 0 .. Len(new) /\ ~(i + 1 < index)
          /\ i + 1 - 1 = i /\ i + 1 \in Nat /\ i + 1 <= Len(new)
      BY <1>p, <2>1, <2>2 DEF Up
    <3> DEFINE m == i + 1
    <3>2. m \in 0 .. Len(new) /\ m > index /\ m - 1 = i
      BY <1>p, <2>1, <2>2
    <3> HIDE DEF m
    <3>3. At(new2, m) = At(new, m - 1)
      BY <1>1, <3>2, Zenon
    <3>4. At(new2, m) = At(new, i)
      BY <3>2, <3>3
    <3> QED
      BY <1>2, <3>1, <3>4 DEF m
  <2>3. CASE ~(i >= index)
    <3>1. Up(index, i) = i /\ i # index /\ i \in 0 .. Len(new) /\ i < index /\ i <= Len(new)
      BY <1>p, <2>1, <2>3 DEF Up
    <3> QED
      BY <1>1, <1>2, <2>1, <3>1, Zenon
  <2> QED
    BY <2>2, <2>3
<1>5. \A j \in Positions(new2) : j # index => \E i \in Positions(new) : Up(index, i) = j
  <2> TAKE j \in Positions(new2)
  <2> HAVE j # index
  <2>1. j \in Nat /\ j <= Len(new)
    BY <1>2
  <2>2. CASE j < index
    <3>1. j \in Positions(new) /\ Up(index, j) = j
      BY <1>p, <2>1, <2>2 DEF Up
    <3> QED
      BY <3>1
  <2>3. CASE ~(j < index)
    <3>1. j - 1 \in Nat /\ j - 1 < Len(new) /\ Up(index, j - 1) = j
      BY <1>p, <2>1, <2>3 DEF Up
    <3> QED
      BY <1>p, <3>1
  <2> QED
    BY <2>2, <2>3
<1>6. \A i, k \in Positions(new) : /\ i < k => Up(index, i) < Up(index, k)
                                   /\ Up(index, i) = Up(index, k) => i = k
  BY <1>p DEF Up
<1>7. /\ J = {Up(index, i) : i \in I} \cup {index}
      /\ \A i \in Positions(new) : Up(index, i) \in J <=> i \in I
  <2>1. J = {Up(index, i) : i \in I} \cup {index}
    BY DEF InsertAt, ShiftForInsert, Up
  <2> HIDE DEF J
  <2> QED
    BY <1>3, <1>4, <1>6, <2>1
<1>8. J \subseteq Positions(new2)
  <2>1. index \in Positions(new2)
    BY <1>2
  <2> QED
    BY <1>3, <1>4, <1>7, <2>1
<1> HIDE DEF J
<1>9. Same(old, new2, D, J)
  <2>1. \A i \in Positions(new) \ I : g[i] \in Positions(new2) \ J /\ At(new2, g[i]) = At(new, i)
    BY <1>4, <1>7
  <2>2. \A j \in Positions(new2) \ J : \E i \in Positions(new) \ I : g[i] = j
    BY <1>5, <1>7
  <2>3. \A i, k \in Positions(new) \ I : i < k => g[i] < g[k]
    BY <1>6
  <2>4. IsRenumbered(new, new2, I, J, g)
    BY <1>8, <2>1, <2>2, <2>3 DEF IsRenumbered
  <2> HIDE DEF g
  <2> QED
    BY <1>t, <1>1, <2>4, Renumbered
<1>10. At(new2, index) = r
  BY <1>1, <1>p, Zenon
<1>11. RowList(new2)
  <2>1. ASSUME NEW i \in Positions(new2), NEW k \in Positions(new2), At(new2, i) = At(new2, k)
        PROVE  i = k
    <3>r. \A x \in Positions(new) : At(new, x) # r
      BY <1>t, PositionsAre
    <3>1. CASE i = index \/ k = index
      BY <1>4, <1>5, <1>10, <2>1, <3>r, <3>1
    <3>2. CASE i # index /\ k # index
      BY <1>4, <1>5, <2>1, <3>2 DEF RowList
    <3> QED
      BY <3>1, <3>2
  <2> QED
    BY <1>1, <2>1 DEF RowList
<1>12. \A t \in I : Up(index, t) \in J /\ At(new2, Up(index, t)) = At(new, t)
  BY <1>3, <1>4, <1>7
<1> QED
  BY <1>1, <1>9, <1>10, <1>11, <1>12 DEF J

\* A row that has been put in is taken out again.
LEMMA TakeOut ==
    ASSUME NEW old, RowList(old), NEW new, RowList(new), NEW D, NEW I, Same(old, new, D, I),
           NEW index \in I, NEW new2, new2 = Seqs!RemoveAt(new, index + 1)
    PROVE  /\ RowList(new2)
           /\ Len(new2) = Len(new) - 1
           /\ Same(old, new2, D, EraseAt(I, index))
           /\ At(new, index) \notin Elements(new2) /\ Elements(new2) \subseteq Elements(new)
           /\ \A t \in I : t # index => /\ Down(index, t) \in EraseAt(I, index)
                                        /\ At(new2, Down(index, t)) = At(new, t)
<1>t. old \in Seq(Nat) /\ new \in Seq(Nat)
  BY DEF RowList
<1>3. I \subseteq Positions(new)
  BY DEF Same
<1>p. /\ Positions(old) \in SUBSET Nat /\ Positions(new) \in SUBSET Nat /\ Len(new) \in Nat
      /\ \A k \in Nat : k \in Positions(new) <=> k < Len(new)
      /\ index \in Nat /\ index \in Positions(new) /\ index < Len(new)
  <2>1. /\ Positions(old) \in SUBSET Nat /\ Positions(new) \in SUBSET Nat /\ Len(new) \in Nat
        /\ \A k \in Nat : k \in Positions(new) <=> k < Len(new)
    BY <1>t, PositionsAre
  <2> QED
    BY <1>3, <2>1
<1>1. /\ new2 \in Seq(Nat) /\ Len(new2) = Len(new) - 1
      /\ \A k \in Positions(new2) : k < index => At(new2, k) = At(new, k)
      /\ \A k \in Positions(new2) : k >= index => At(new2, k) = At(new, k + 1)
  <2>1. new2 \in Seq(Nat) /\ Len(new2) = Len(new) - 1
    BY <1>t, <1>p, RemovedAt
  <2>2. \A k \in Positions(new2) : k < index => At(new2, k) = At(new, k)
    BY <1>t, <1>p, RemovedAt
  <2>3. \A k \in Positions(new2) : k >= index => At(new2, k) = At(new, k + 1)
    BY <1>t, <1>p, RemovedAt
  <2> QED
    BY <2>1, <2>2, <2>3
<1> DEFINE J == EraseAt(I, index)
           g == [i \in Positions(new) |-> Down(index, i)]
<1>2. /\ Positions(new2) \in SUBSET Nat
      /\ \A k \in Nat : k \in Positions(new2) <=> k + 1 < Len(new)
  <2>1. /\ Positions(new2) \in SUBSET Nat
        /\ \A k \in Nat : k \in Positions(new2) <=> k < Len(new2)
    BY <1>1, PositionsAre
  <2> QED
    BY <1>1, <1>p, <2>1
<1>4. \A i \in Positions(new) : i # index => /\ Down(index, i) \in Positions(new2)
                                             /\ At(new2, Down(index, i)) = At(new, i)
  <2> TAKE i \in Positions(new)
  <2> HAVE i # index
  <2>1. i \in Nat /\ i < Len(new)
    BY <1>p
  <2>2. CASE i > index
    <3> DEFINE m == i - 1
    <3>1. m \in Nat /\ m + 1 < Len(new) /\ Down(index, i) = m /\ m >= index /\ m + 1 = i
      BY <1>p, <2>1, <2>2 DEF Down
    <3> HIDE DEF m
    <3>2. m \in Positions(new2)
      BY <1>2, <3>1
    <3>3. At(new2, m) = At(new, m + 1)
      BY <1>1, <3>1, <3>2
    <3> QED
      BY <3>1, <3>2, <3>3
  <2>3. CASE ~(i > index)
    <3>1. Down(index, i) = i /\ i < index /\ i + 1 < Len(new)
      BY <1>p, <2>1, <2>3 DEF Down
    <3>2. i \in Positions(new2)
      BY <1>2, <2>1, <3>1
    <3> QED
      BY <1>1, <3>1, <3>2
  <2> QED
    BY <2>2, <2>3
<1>5. \A j \in Positions(new2) : \E i \in Positions(new) : i # index /\ Down(index, i) = j
  <2> TAKE j \in Positions(new2)
  <2>1. j \in Nat /\ j + 1 < Len(new)
    BY <1>2
  <2>2. CASE j < index
    <3>1. j \in Positions(new) /\ j # index /\ Down(index, j) = j
      BY <1>p, <2>1, <2>2 DEF Down
    <3> QED
      BY <3>1
  <2>3. CASE ~(j < index)
    <3>1. j + 1 \in Nat /\ j + 1 # index /\ Down(index, j + 1) = j
      BY <1>p, <2>1, <2>3 DEF Down
    <3>2. j + 1 \in Positions(new)
      BY <1>p, <2>1, <3>1
    <3> QED
      BY <3>1, <3>2
  <2> QED
    BY <2>2, <2>3
<1>6. \A i, k \in Positions(new) : i # index /\ k # index =>
          /\ i < k => Down(index, i) < Down(index, k)
          /\ Down(index, i) = Down(index, k) => i = k
  BY <1>p DEF Down
<1>7. /\ J = {Down(index, i) : i \in I \ {index}}
      /\ \A i \in Positions(new) : i # index => (Down(index, i) \in J <=> i \in I)
  <2>1. J = {Down(index, i) : i \in I \ {index}}
    BY DEF EraseAt, Down
  <2> HIDE DEF J
  <2> QED
    BY <1>3, <1>4, <1>6, <2>1
<1>8. J \subseteq Positions(new2)
  BY <1>3, <1>4, <1>7
<1> HIDE DEF J
<1>9. Same(old, new2, D, J)
  <2>1. \A i \in Positions(new) \ I : g[i] \in Positions(new2) \ J /\ At(new2, g[i]) = At(new, i)
    BY <1>4, <1>7
  <2>2. \A j \in Positions(new2) \ J : \E i \in Positions(new) \ I : g[i] = j
    BY <1>5, <1>7
  <2>3. \A i, k \in Positions(new) \ I : i < k => g[i] < g[k]
    BY <1>6
  <2>4. IsRenumbered(new, new2, I, J, g)
    BY <1>8, <2>1, <2>2, <2>3 DEF IsRenumbered
  <2> HIDE DEF g
  <2> QED
    BY <1>t, <1>1, <2>4, Renumbered
<1>10. \A j \in Positions(new2) : \E i \in Positions(new) : i # index /\ At(new2, j) = At(new, i)
  BY <1>4, <1>5
<1>11. RowList(new2)
  <2>1. ASSUME NEW i \in Positions(new2), NEW k \in Positions(new2), At(new2, i) = At(new2, k)
        PROVE  i = k
    BY <1>4, <1>5, <2>1 DEF RowList
  <2> QED
    BY <1>1, <2>1 DEF RowList
<1>12. \A t \in I : t # index => Down(index, t) \in J /\ At(new2, Down(index, t)) = At(new, t)
  BY <1>3, <1>4, <1>7
<1>13. At(new, index) \notin Elements(new2) /\ Elements(new2) \subseteq Elements(new)
  <2>1. /\ Elements(new2) = {At(new2, i) : i \in Positions(new2)}
        /\ Elements(new) = {At(new, i) : i \in Positions(new)}
    BY <1>t, <1>1, PositionsAre
  <2> QED
    BY <1>p, <1>10, <2>1 DEF RowList
<1> QED
  BY <1>1, <1>9, <1>11, <1>12, <1>13 DEF J

-----------------------------------------------------------------------------
(* Changes: which rows are left, and the moves that are told along.         *)

Pairs == [from : Nat, to : Nat]

\* A move takes one row from a deletion to an insertion.
Follows(old, new, D, I, m) == m.from \in D /\ m.to \in I /\ At(old, m.from) = At(new, m.to)

\* No two moves begin at one position.
Apart(moves) == \A k, l \in DOMAIN moves : moves[k].from = moves[l].from => k = l

\* What is invariant of changes D, I and their moves.
Sound(old, new, D, I, moves) ==
    /\ Same(old, new, D, I)
    /\ moves \in Seq(Pairs)
    /\ \A k \in DOMAIN moves : Follows(old, new, D, I, moves[k])
    /\ Apart(moves)

IsBuilder(c) == DOMAIN c = {"deletions", "insertions", "modifications", "moves"}
SoundBuilder(old, new, c) ==
    IsBuilder(c) /\ Sound(old, new, c.deletions, c.insertions, c.moves)

\* What is promised follows.
LEMMA SoundPromise ==
    ASSUME NEW old, NEW new, NEW c, SoundBuilder(old, new, c)
    PROVE  Rebuilds(old, new, c) /\ MovesFollowRows(old, new, c)
<1>1. Rebuilds(old, new, c)
  BY RebuildsIsSame DEF SoundBuilder, Sound
<1>2. MovesFollowRows(old, new, c)
  BY DEF SoundBuilder, Sound, Follows, MovesFollowRows, Elements
<1> QED
  BY <1>1, <1>2

\* What is left of a list when positions are taken out.
LEMMA WithoutIs ==
    ASSUME NEW T, NEW list \in Seq(T), NEW P, P \subseteq Positions(list)
    PROVE  /\ Without(list, P) \in Seq(T)
           /\ Len(Without(list, P)) = Len(list) - Cardinality(P)
           /\ \A k \in Positions(Without(list, P)) :
                 /\ Shift(P, k) \in Positions(list) \ P
                 /\ At(Without(list, P), k) = At(list, Shift(P, k))
           /\ \A i \in Positions(list) \ P :
                 /\ Unshift(P, i) \in Positions(Without(list, P))
                 /\ At(Without(list, P), Unshift(P, i)) = At(list, i)
<1> DEFINE w == Without(list, P)
           n == Len(list) - Cardinality(P)
<1>1. P \in SUBSET Nat /\ IsFiniteSet(P) /\ Cardinality(P) \in Nat /\ Cardinality(P) <= Len(list)
  BY SubsetOfPositions
<1>2. /\ Len(list) \in Nat /\ n \in Nat
      /\ \A i \in Nat : i \in Positions(list) <=> i < Len(list)
      /\ \A i \in Positions(list) : i \in Nat /\ At(list, i) \in T
  BY <1>1, PositionsAre
<1>3. Unshift(P, Len(list)) = n
  <2>1. {i \in P : 0 <= i /\ i < Len(list)} = P
    BY <1>2
  <2>2. Count(P, 0, Len(list)) = Cardinality({i \in P : 0 <= i /\ i < Len(list)})
    BY DEF Count
  <2>3. Count(P, 0, Len(list)) = Cardinality(P)
    BY <2>1, <2>2, Zenon
  <2> QED
    BY <2>3 DEF Unshift
<1> HIDE DEF n
<1>4. \A k \in 0 .. n - 1 : Shift(P, k) \in Positions(list) \ P
  <2> TAKE k \in 0 .. n - 1
  <2>1. k \in Nat /\ k < n
    BY <1>2
  <2>2. Shift(P, k) \in Nat /\ Shift(P, k) \notin P /\ Unshift(P, Shift(P, k)) = k
    BY <1>1, <2>1, ShiftOf
  <2>3. Len(list) <= Shift(P, k) => Unshift(P, Len(list)) <= Unshift(P, Shift(P, k))
    BY <1>1, <1>2, <2>2, UnshiftOrder
  <2>4. Shift(P, k) < Len(list)
    BY <1>2, <1>3, <2>1, <2>2, <2>3
  <2> QED
    BY <1>2, <2>2, <2>4
<1>5. w = [k \in 1 .. n |-> At(list, Shift(P, k - 1))]
  BY DEF Without, n
<1> HIDE DEF w
<1>6. w \in Seq(T) /\ Len(w) = n
  <2>1. \A k \in 1 .. n : At(list, Shift(P, k - 1)) \in T
    <3> TAKE k \in 1 .. n
    <3>1. k - 1 \in 0 .. n - 1
      BY <1>2
    <3> QED
      BY <1>2, <1>4, <3>1
  <2>2. w \in [1 .. n -> T]
    BY <1>5, <2>1
  <2> QED
    BY <1>2, <2>2
<1>7. \A k \in Nat : k < n => k \in Positions(w) /\ At(w, k) = At(list, Shift(P, k))
  <2> TAKE k \in Nat
  <2> HAVE k < n
  <2>1. k + 1 \in 1 .. n /\ k + 1 - 1 = k
    BY <1>2
  <2>2. w[k + 1] = At(list, Shift(P, k + 1 - 1))
    BY <1>5, <2>1
  <2> QED
    BY <1>2, <1>6, <2>1, <2>2 DEF Positions, At
<1>8. \A k \in Positions(w) : k \in Nat /\ k < n /\ k \in 0 .. n - 1
  BY <1>2, <1>6 DEF Positions
<1>9. \A i \in Positions(list) \ P : Unshift(P, i) \in Nat /\ Unshift(P, i) < n /\ Shift(P, Unshift(P, i)) = i
  <2> TAKE i \in Positions(list) \ P
  <2>1. i \in Nat /\ i < Len(list)
    BY <1>2
  <2>2. Unshift(P, i) \in Nat /\ Unshift(P, i) < Unshift(P, Len(list))
    BY <1>1, <1>2, <2>1, UnshiftOrder
  <2> QED
    BY <1>1, <1>3, <2>1, <2>2, ShiftBack
<1> QED
  BY <1>4, <1>6, <1>7, <1>8, <1>9 DEF w, n

\* Moves that start where others start that start apart.
LEMMA StillApart ==
    ASSUME NEW moves, Apart(moves), NEW others, DOMAIN others = DOMAIN moves,
           \A k \in DOMAIN moves : others[k].from = moves[k].from
    PROVE  Apart(others)
BY DEF Apart

\* The moves go along with their rows.
LEMMA MovesGoAlong ==
    ASSUME NEW old, NEW new, NEW D, NEW I, NEW moves, Sound(old, new, D, I, moves),
           NEW new2, NEW D2, NEW I2, Same(old, new2, D2, I2), D \subseteq D2,
           NEW moves2 \in Seq(Pairs), Len(moves2) = Len(moves),
           \A k \in DOMAIN moves : /\ moves2[k].from = moves[k].from
                                   /\ moves2[k].to \in I2
                                   /\ At(new2, moves2[k].to) = At(new, moves[k].to)
    PROVE  Sound(old, new2, D2, I2, moves2)
<1>1. DOMAIN moves2 = DOMAIN moves
  BY DEF Sound
<1> QED
  BY <1>1 DEF Sound, Follows, Apart

\* A subsequence of the moves.
LEMMA MovesTakenOut ==
    ASSUME NEW old, NEW new, NEW D, NEW I, NEW moves, Sound(old, new, D, I, moves),
           NEW P, P \subseteq Positions(moves)
    PROVE  Sound(old, new, D, I, Without(moves, P))
<1>1. moves \in Seq(Pairs)
  BY DEF Sound
<1> DEFINE w == Without(moves, P)
<1>2. /\ w \in Seq(Pairs)
      /\ \A k \in Positions(w) : Shift(P, k) \in Positions(moves) /\ At(w, k) = At(moves, Shift(P, k))
      /\ \A i \in Positions(moves) \ P : Unshift(P, i) \in Positions(w)
  BY <1>1, WithoutIs
<1>s. P \in SUBSET Nat /\ IsFiniteSet(P)
  BY <1>1, SubsetOfPositions
<1> HIDE DEF w
<1>3. \A k \in DOMAIN w : k - 1 \in Positions(w) /\ At(w, k - 1) = w[k] /\ k \in Nat /\ k - 1 \in Nat
  BY <1>2 DEF Positions, At
<1>4. \A i \in Positions(moves) : i + 1 \in DOMAIN moves /\ At(moves, i) = moves[i + 1]
  BY <1>1 DEF Positions, At
<1>5. \A k \in DOMAIN w : Shift(P, k - 1) + 1 \in DOMAIN moves /\ w[k] = moves[Shift(P, k - 1) + 1]
  BY <1>2, <1>3, <1>4
<1>6. \A k \in DOMAIN w : Follows(old, new, D, I, w[k])
  BY <1>5 DEF Sound
<1>7. ASSUME NEW k \in DOMAIN w, NEW l \in DOMAIN w, w[k].from = w[l].from PROVE k = l
  <2>1. Shift(P, k - 1) + 1 = Shift(P, l - 1) + 1
    BY <1>5, <1>7 DEF Sound, Apart
  <2>2. /\ Shift(P, k - 1) \in Nat /\ Unshift(P, Shift(P, k - 1)) = k - 1
        /\ Shift(P, l - 1) \in Nat /\ Unshift(P, Shift(P, l - 1)) = l - 1
    BY <1>s, <1>3, ShiftOf
  <2>3. Shift(P, k - 1) = Shift(P, l - 1)
    BY <2>1, <2>2
  <2>4. k - 1 = l - 1
    BY <2>2, <2>3
  <2> QED
    BY <1>3, <2>4
<1> QED
  BY <1>2, <1>6, <1>7 DEF Sound, Apart, w

-----------------------------------------------------------------------------
(* The operations of a list.                                                *)

\* One more move.
LEMMA MoveAppended ==
    ASSUME NEW old, NEW new, NEW D, NEW I, NEW moves, Sound(old, new, D, I, moves),
           NEW m \in Pairs, Follows(old, new, D, I, m), \A k \in DOMAIN moves : moves[k].from # m.from
    PROVE  Sound(old, new, D, I, Append(moves, m))
<1> DEFINE a == Append(moves, m)
<1>1. moves \in Seq(Pairs) /\ Len(moves) \in Nat /\ DOMAIN moves = 1 .. Len(moves)
  BY DEF Sound
<1>2. /\ a \in Seq(Pairs) /\ DOMAIN a = 1 .. Len(moves) + 1
      /\ a[Len(moves) + 1] = m /\ \A k \in DOMAIN moves : a[k] = moves[k]
  BY <1>1
<1> HIDE DEF a
<1>3. \A k \in DOMAIN a : k \in DOMAIN moves \/ (k = Len(moves) + 1 /\ a[k] = m)
  BY <1>1, <1>2
<1>4. \A k \in DOMAIN a : Follows(old, new, D, I, a[k])
  BY <1>2, <1>3 DEF Sound
<1>5. Apart(a)
  BY <1>2, <1>3 DEF Sound, Apart
<1> QED
  BY <1>2, <1>4, <1>5 DEF Sound, a

\* InsertRow tells of the row that has been inserted.
LEMMA InsertSound ==
    ASSUME NEW old, RowList(old), NEW new, RowList(new), NEW c, SoundBuilder(old, new, c),
           NEW index \in 0 .. Len(new), NEW r \in Nat, r \notin Elements(new),
           NEW new2, new2 = Seqs!InsertAt(new, index + 1, r)
    PROVE  RowList(new2) /\ SoundBuilder(old, new2, InsertRow(c, index))
<1> DEFINE D == c.deletions
           I == c.insertions
           ms == c.moves
           ms2 == [k \in DOMAIN ms |-> [ms[k] EXCEPT !.to = IF @ >= index THEN @ + 1 ELSE @]]
<1>1. Sound(old, new, D, I, ms) /\ Same(old, new, D, I) /\ ms \in Seq(Pairs)
  BY DEF SoundBuilder, Sound
<1>2. /\ InsertRow(c, index).deletions = D
      /\ InsertRow(c, index).insertions = InsertAt(I, index)
      /\ InsertRow(c, index).moves = ms2
      /\ IsBuilder(InsertRow(c, index))
  BY DEF InsertRow, IsBuilder
<1> HIDE DEF D, I, ms
<1>3. /\ RowList(new2) /\ Same(old, new2, D, InsertAt(I, index))
      /\ \A t \in I : Up(index, t) \in InsertAt(I, index) /\ At(new2, Up(index, t)) = At(new, t)
  <2>1. RowList(new2) /\ Same(old, new2, D, InsertAt(I, index))
    BY <1>1, PutIn
  <2>2. ASSUME NEW t \in I
        PROVE  Up(index, t) \in InsertAt(I, index) /\ At(new2, Up(index, t)) = At(new, t)
    BY <1>1, PutIn
  <2> QED
    BY <2>1, <2>2
<1>4. \A k \in DOMAIN ms : ms2[k] \in Pairs /\ ms2[k].from = ms[k].from /\ ms2[k].to = Up(index, ms[k].to)
  <2> TAKE k \in DOMAIN ms
  <2>1. ms[k] \in Pairs
    BY <1>1
  <2> QED
    BY <2>1 DEF Pairs, Up
<1>5. ms2 \in Seq(Pairs) /\ Len(ms2) = Len(ms)
  <2>1. Len(ms) \in Nat /\ DOMAIN ms = 1 .. Len(ms)
    BY <1>1
  <2>2. ms2 \in [1 .. Len(ms) -> Pairs]
    BY <1>4, <2>1
  <2> QED
    BY <2>1, <2>2
<1> HIDE DEF ms2
<1>6. \A k \in DOMAIN ms : ms[k].to \in I
  BY <1>1 DEF Sound, Follows
<1>7. Sound(old, new2, D, InsertAt(I, index), ms2)
  BY <1>1, <1>3, <1>4, <1>5, <1>6, MovesGoAlong
<1> QED
  BY <1>2, <1>3, <1>7 DEF SoundBuilder

\* EraseRow tells of the row that has been erased, or no longer tells that it was
\* inserted.
LEMMA EraseSound ==
    ASSUME NEW old, RowList(old), NEW new, RowList(new), NEW c, SoundBuilder(old, new, c),
           NEW index \in Positions(new), NEW new2, new2 = Seqs!RemoveAt(new, index + 1)
    PROVE  RowList(new2) /\ SoundBuilder(old, new2, EraseRow(c, index))
<1> DEFINE D == c.deletions
           I == c.insertions
           P == {k \in Positions(c.moves) : At(c.moves, k).to = index}
           kept == Without(c.moves, P)
           o == Shift(D, Unshift(I, index))
           D2 == IF index \in I THEN D ELSE D \cup {o}
           I2 == I \cup {index}
           ms2 == [k \in DOMAIN kept |-> [kept[k] EXCEPT !.to = IF @ > index THEN @ - 1 ELSE @]]
<1>t. old \in Seq(Nat) /\ new \in Seq(Nat)
  BY DEF RowList
<1>1. Sound(old, new, D, I, c.moves) /\ Same(old, new, D, I) /\ c.moves \in Seq(Pairs)
  BY DEF SoundBuilder, Sound
<1>2. /\ EraseRow(c, index).deletions = D2
      /\ EraseRow(c, index).insertions = EraseAt(I, index)
      /\ EraseRow(c, index).moves = ms2
      /\ IsBuilder(EraseRow(c, index))
  BY DEF EraseRow, IsBuilder
<1>3. EraseAt(I, index) = EraseAt(I2, index)
  BY DEF EraseAt
<1>4. Sound(old, new, D, I, kept)
  <2>1. P \subseteq Positions(c.moves)
    OBVIOUS
  <2> HIDE DEF P, D, I
  <2> QED
    BY <1>1, <2>1, MovesTakenOut
<1>5. \A k \in DOMAIN kept : kept[k].to # index /\ kept[k] \in Pairs /\ kept[k].to \in I
  <2>1. P \subseteq Positions(c.moves) /\ \A i \in Positions(c.moves) \ P : At(c.moves, i).to # index
    OBVIOUS
  <2> HIDE DEF P, D, I
  <2>2. /\ kept \in Seq(Pairs)
        /\ \A k \in Positions(kept) : Shift(P, k) \in Positions(c.moves) \ P
                                      /\ At(kept, k) = At(c.moves, Shift(P, k))
    BY <1>1, <2>1, WithoutIs
  <2> HIDE DEF kept
  <2>3. \A k \in DOMAIN kept : k - 1 \in Positions(kept) /\ At(kept, k - 1) = kept[k]
    BY <2>2 DEF Positions, At
  <2> QED
    BY <1>4, <2>1, <2>2, <2>3 DEF Sound, Follows
<1>6. Same(old, new, D2, I2)
  <2> HIDE DEF D, I
  <2>1. CASE index \in I
    BY <1>1, <2>1
  <2>2. CASE index \notin I
    <3>1. Same(new, old, I, D)
      BY <1>1, <1>t, SameBack
    <3>2. o \in Positions(old) \ D /\ At(old, o) = At(new, index)
      BY <2>2, <3>1, Partner
    <3> HIDE DEF o
    <3> QED
      BY <1>1, <2>2, <3>2, Reported
  <2> QED
    BY <2>1, <2>2
<1>7. D \subseteq D2 /\ I \subseteq I2 /\ index \in I2
  OBVIOUS
<1> HIDE DEF D, I, P, kept, o, D2, I2
<1>8. /\ RowList(new2) /\ Same(old, new2, D2, EraseAt(I2, index))
      /\ \A t \in I2 : t # index => Down(index, t) \in EraseAt(I2, index)
                                    /\ At(new2, Down(index, t)) = At(new, t)
  <2>1. RowList(new2) /\ Same(old, new2, D2, EraseAt(I2, index))
    BY <1>6, <1>7, TakeOut
  <2>2. ASSUME NEW t \in I2, t # index
        PROVE  Down(index, t) \in EraseAt(I2, index) /\ At(new2, Down(index, t)) = At(new, t)
    BY <1>6, <1>7, <2>2, TakeOut
  <2> QED
    BY <2>1, <2>2
<1>9. \A k \in DOMAIN kept : /\ ms2[k] \in Pairs /\ ms2[k].from = kept[k].from
                             /\ ms2[k].to = Down(index, kept[k].to)
  <2> TAKE k \in DOMAIN kept
  <2>1. kept[k] \in Pairs /\ index \in Nat
    BY <1>5, <1>t, PositionsAre
  <2> QED
    BY <2>1 DEF Pairs, Down
<1>10. ms2 \in Seq(Pairs) /\ Len(ms2) = Len(kept)
  <2>1. Len(kept) \in Nat /\ DOMAIN kept = 1 .. Len(kept)
    BY <1>4 DEF Sound
  <2>2. ms2 \in [1 .. Len(kept) -> Pairs]
    BY <1>9, <2>1
  <2> QED
    BY <2>1, <2>2
<1> HIDE DEF ms2
<1>11. Sound(old, new2, D2, EraseAt(I2, index), ms2)
  <2>1. \A k \in DOMAIN kept : /\ ms2[k].from = kept[k].from
                               /\ ms2[k].to \in EraseAt(I2, index)
                               /\ At(new2, ms2[k].to) = At(new, kept[k].to)
    BY <1>5, <1>7, <1>8, <1>9
  <2> QED
    BY <1>4, <1>7, <1>8, <1>10, <2>1, MovesGoAlong
<1> QED
  BY <1>2, <1>3, <1>8, <1>11 DEF SoundBuilder

\* The rows after one of them has been moved.
Moved(list, from, to) == Seqs!InsertAt(Seqs!RemoveAt(list, from + 1), to + 1, At(list, from))

\* Where the rows are once one that has been put in has been moved.
LEMMA MovedIs ==
    ASSUME NEW old, RowList(old), NEW new, RowList(new), NEW D, NEW I, Same(old, new, D, I),
           NEW from \in I, NEW to \in Positions(new), NEW new2, new2 = Moved(new, from, to),
           NEW J, J = InsertAt(EraseAt(I, from), to)
    PROVE  /\ RowList(new2) /\ Len(new2) = Len(new) /\ Same(old, new2, D, J)
           /\ to \in J /\ At(new2, to) = At(new, from)
           /\ \A t \in I : t # from => /\ Displaced(t, from, to) \in J
                                       /\ At(new2, Displaced(t, from, to)) = At(new, t)
<1> DEFINE new1 == Seqs!RemoveAt(new, from + 1)
           I1 == EraseAt(I, from)
           r == At(new, from)
<1>t. new \in Seq(Nat) /\ I \subseteq Positions(new)
  BY DEF RowList, Same
<1>p. /\ from \in Nat /\ to \in Nat /\ I \in SUBSET Nat /\ r \in Nat
      /\ Len(new) \in Nat /\ to < Len(new)
  BY <1>t, PositionsAre
<1>2. new2 = Seqs!InsertAt(new1, to + 1, r)
  BY DEF Moved
<1>1. /\ RowList(new1) /\ Len(new1) = Len(new) - 1 /\ Same(old, new1, D, I1)
      /\ r \notin Elements(new1)
  BY TakeOut
<1>3. \A t \in I : t # from => Down(from, t) \in I1 /\ At(new1, Down(from, t)) = At(new, t)
  BY TakeOut
<1>4. J = InsertAt(I1, to)
  OBVIOUS
<1> HIDE DEF new1, I1, r
<1>5. to \in 0 .. Len(new1)
  BY <1>1, <1>p
<1>6. /\ RowList(new2) /\ Len(new2) = Len(new1) + 1 /\ Same(old, new2, D, J)
      /\ At(new2, to) = r
  <2>1. RowList(new2) /\ Len(new2) = Len(new1) + 1
    BY <1>1, <1>2, <1>5, <1>p, PutIn
  <2>2. Same(old, new2, D, J)
    BY <1>1, <1>2, <1>4, <1>5, <1>p, PutIn
  <2>3. At(new2, to) = r
    BY <1>1, <1>2, <1>5, <1>p, PutIn
  <2> QED
    BY <2>1, <2>2, <2>3
<1>7. \A t \in I1 : Up(to, t) \in J /\ At(new2, Up(to, t)) = At(new1, t)
  BY <1>1, <1>2, <1>4, <1>5, <1>p, PutIn
<1>8. \A t \in I : t # from => Displaced(t, from, to) = Up(to, Down(from, t))
  BY <1>p DEF Displaced, Up, Down
<1>9. to \in J
  BY <1>4 DEF InsertAt
<1> QED
  BY <1>1, <1>3, <1>6, <1>7, <1>8, <1>9, <1>p DEF r

\* The moves of the others, and of the row if it has been moved before.
LEMMA MoveKnown ==
    ASSUME NEW old, RowList(old), NEW new, RowList(new),
           NEW D, NEW I, NEW moves, Sound(old, new, D, I, moves),
           NEW from \in I, NEW to \in Positions(new), NEW new2, new2 = Moved(new, from, to),
           NEW others, others = [k \in DOMAIN moves |-> [moves[k] EXCEPT !.to =
                                    IF @ = from THEN to ELSE Displaced(@, from, to)]]
    PROVE  Sound(old, new2, D, InsertAt(EraseAt(I, from), to), others)
<1> DEFINE J == InsertAt(EraseAt(I, from), to)
<1>1. Same(old, new, D, I) /\ moves \in Seq(Pairs)
  BY DEF Sound
<1>2. /\ Same(old, new2, D, J) /\ to \in J /\ At(new2, to) = At(new, from)
      /\ \A t \in I : t # from => /\ Displaced(t, from, to) \in J
                                  /\ At(new2, Displaced(t, from, to)) = At(new, t)
  <2>1. Same(old, new2, D, J) /\ to \in J /\ At(new2, to) = At(new, from)
    BY <1>1, MovedIs
  <2>2. \A t \in I : t # from => /\ Displaced(t, from, to) \in J
                                 /\ At(new2, Displaced(t, from, to)) = At(new, t)
    BY <1>1, MovedIs
  <2> QED
    BY <2>1, <2>2
<1>t. new \in Seq(Nat) /\ I \subseteq Positions(new)
  BY <1>1 DEF RowList, Same
<1>p. from \in Nat /\ to \in Nat /\ I \in SUBSET Nat
  BY <1>t, PositionsAre
<1> HIDE DEF J
<1>3. \A k \in DOMAIN moves :
          /\ moves[k] \in Pairs /\ moves[k].to \in I /\ moves[k].from \in Nat /\ moves[k].to \in Nat
          /\ others[k] = [moves[k] EXCEPT !.to =
                             IF moves[k].to = from THEN to ELSE Displaced(moves[k].to, from, to)]
  <2> TAKE k \in DOMAIN moves
  <2>1. moves[k] \in Pairs /\ moves[k].to \in I
    BY <1>1 DEF Sound, Follows
  <2>2. moves[k].from \in Nat /\ moves[k].to \in Nat
    BY <2>1 DEF Pairs
  <2>3. others[k] = [moves[k] EXCEPT !.to =
                        IF moves[k].to = from THEN to ELSE Displaced(moves[k].to, from, to)]
    OBVIOUS
  <2> QED
    BY <2>1, <2>2, <2>3
<1>4. \A k \in DOMAIN moves :
          /\ others[k] \in Pairs /\ others[k].from = moves[k].from
          /\ others[k].to = IF moves[k].to = from THEN to ELSE Displaced(moves[k].to, from, to)
  <2> TAKE k \in DOMAIN moves
  <2>1. \A t \in Nat : Displaced(t, from, to) \in Nat
    BY <1>p DEF Displaced
  <2>2. (IF moves[k].to = from THEN to ELSE Displaced(moves[k].to, from, to)) \in Nat
    BY <1>3, <1>p, <2>1
  <2> DEFINE d == IF moves[k].to = from THEN to ELSE Displaced(moves[k].to, from, to)
  <2>3. d \in Nat /\ moves[k] \in Pairs /\ others[k] = [moves[k] EXCEPT !.to = d]
    BY <1>3, <2>2
  <2> HIDE DEF d
  <2>4. others[k] \in Pairs /\ others[k].from = moves[k].from /\ others[k].to = d
    BY <2>3 DEF Pairs
  <2> QED
    BY <2>4 DEF d
<1>5. others \in Seq(Pairs) /\ Len(others) = Len(moves)
  <2>1. Len(moves) \in Nat /\ DOMAIN moves = 1 .. Len(moves)
    BY <1>1
  <2>2. others \in [1 .. Len(moves) -> Pairs]
    BY <1>4, <2>1
  <2> QED
    BY <2>1, <2>2
<1>6. \A k \in DOMAIN moves : others[k].to \in J /\ At(new2, others[k].to) = At(new, moves[k].to)
  <2> TAKE k \in DOMAIN moves
  <2>1. CASE moves[k].to = from
    BY <1>2, <1>4, <2>1
  <2>2. CASE moves[k].to # from
    BY <1>2, <1>3, <1>4, <2>2
  <2> QED
    BY <2>1, <2>2
<1>7. \A k \in DOMAIN moves : others[k].from = moves[k].from
  BY <1>4
<1> HIDE DEF Moved
<1>8. Sound(old, new2, D, J, others)
  <2>1. \A k \in DOMAIN moves : /\ others[k].from = moves[k].from
                                /\ others[k].to \in J
                                /\ At(new2, others[k].to) = At(new, moves[k].to)
    BY <1>6, <1>7
  <2>2. Same(old, new2, D, J) /\ D \subseteq D /\ others \in Seq(Pairs) /\ Len(others) = Len(moves)
    BY <1>2, <1>5
  <2>3. DOMAIN others = DOMAIN moves
    OBVIOUS
  <2>4. \A k \in DOMAIN moves : Follows(old, new2, D, J, others[k])
    BY <2>1 DEF Sound, Follows
  <2>5. Apart(others)
    <3>1. Apart(moves)
      BY DEF Sound
    <3> QED
      BY <1>7, <2>3, <3>1, StillApart
  <2> QED
    BY <2>2, <2>3, <2>4, <2>5 DEF Sound
<1> QED
  BY <1>8 DEF J

\* MoveRow tells of the row that has been moved, unless it was inserted or moved
\* before.
LEMMA MoveSound ==
    ASSUME NEW old, RowList(old), NEW new, RowList(new), NEW c, SoundBuilder(old, new, c),
           NEW from \in Positions(new), NEW to \in Positions(new),
           NEW new2, new2 = Moved(new, from, to)
    PROVE  /\ RowList(new2) /\ Len(new2) = Len(new)
           /\ SoundBuilder(old, new2, MoveRow(c, from, to))
<1> DEFINE D == c.deletions
           I == c.insertions
           ms == c.moves
           o == Shift(D, Unshift(I, from))
           known == (\E k \in DOMAIN ms : ms[k].to = from) \/ from \in I
           others == [k \in DOMAIN ms |-> [ms[k] EXCEPT !.to =
                                    IF @ = from THEN to ELSE Displaced(@, from, to)]]
           D2 == IF known THEN D ELSE D \cup {o}
           J == InsertAt(EraseAt(I, from), to)
           ms2 == IF known THEN others ELSE Append(others, [from |-> o, to |-> to])
<1>1. Sound(old, new, D, I, ms) /\ Same(old, new, D, I) /\ ms \in Seq(Pairs)
  BY DEF SoundBuilder, Sound
<1>2. /\ MoveRow(c, from, to).deletions = D2
      /\ MoveRow(c, from, to).insertions = J
      /\ MoveRow(c, from, to).moves = ms2
      /\ IsBuilder(MoveRow(c, from, to))
  BY DEF MoveRow, IsBuilder
<1>t. old \in Seq(Nat) /\ new \in Seq(Nat)
  BY DEF RowList
<1>o. others = [k \in DOMAIN ms |-> [ms[k] EXCEPT !.to =
                                    IF @ = from THEN to ELSE Displaced(@, from, to)]]
  OBVIOUS
<1>m. \A k \in DOMAIN ms : others[k].from = ms[k].from
  <2> TAKE k \in DOMAIN ms
  <2>1. ms[k] \in Pairs
    BY <1>1
  <2>2. others[k] = [ms[k] EXCEPT !.to = IF @ = from THEN to ELSE Displaced(@, from, to)]
    OBVIOUS
  <2> QED
    BY <2>1, <2>2 DEF Pairs
<1>n. DOMAIN others = DOMAIN ms
  OBVIOUS
<1> HIDE DEF D, I, ms, others, J
<1>3. CASE known
  <2>1. from \in I
    BY <1>1, <1>3 DEF Sound, Follows
  <2>2. RowList(new2) /\ Len(new2) = Len(new)
    BY <1>1, <2>1, MovedIs DEF J
  <2>3. Sound(old, new2, D, J, others)
    BY <1>1, <1>o, <2>1, MoveKnown DEF J
  <2> QED
    BY <1>2, <1>3, <2>2, <2>3 DEF SoundBuilder
<1>4. CASE ~known
  <2> DEFINE I2 == I \cup {from}
             DO == D \cup {o}
             m == [from |-> o, to |-> to]
  <2>1. from \notin I
    BY <1>4
  <2>2. o \in Positions(old) \ D /\ At(old, o) = At(new, from)
    <3>1. Same(new, old, I, D)
      BY <1>1, <1>t, SameBack
    <3> QED
      BY <2>1, <3>1, Partner
  <2>3. J = InsertAt(EraseAt(I2, from), to) /\ from \in I2
    BY DEF EraseAt, J
  <2>4. o \in Nat /\ to \in Nat
    BY <1>t, <2>2, PositionsAre
  <2> HIDE DEF o
  <2>5. Same(old, new, DO, I2)
    BY <1>1, <2>1, <2>2, Reported
  <2>6. D \subseteq DO /\ o \in DO
    OBVIOUS
  <2>i. I \subseteq I2
    OBVIOUS
  <2> HIDE DEF DO, I2
  <2>7. Sound(old, new, DO, I2, ms)
    <3>1. \A k \in DOMAIN ms : ms[k].from = ms[k].from /\ ms[k].to \in I2 /\ At(new, ms[k].to) = At(new, ms[k].to)
      BY <1>1, <2>i DEF Sound, Follows
    <3> QED
      BY <1>1, <2>5, <2>6, <3>1, MovesGoAlong
  <2>8. /\ RowList(new2) /\ Len(new2) = Len(new) /\ to \in J /\ At(new2, to) = At(new, from)
    BY <2>3, <2>5, MovedIs
  <2>9. Sound(old, new2, DO, J, others)
    BY <1>o, <2>3, <2>7, MoveKnown
  <2>10. m \in Pairs /\ Follows(old, new2, DO, J, m) /\ m.from = o
    BY <2>2, <2>4, <2>6, <2>8 DEF Pairs, Follows
  <2>11. \A k \in DOMAIN others : others[k].from # o
    BY <1>1, <1>m, <1>n, <2>2 DEF Sound, Follows
  <2> HIDE DEF m
  <2>12. Sound(old, new2, DO, J, Append(others, m))
    BY <2>9, <2>10, <2>11, MoveAppended
  <2>13. D2 = DO /\ ms2 = Append(others, m)
    BY <1>4 DEF DO, m
  <2> QED
    BY <1>2, <2>8, <2>12, <2>13 DEF SoundBuilder
<1> QED
  BY <1>3, <1>4

\* A function on 1 .. n is a sequence.
LEMMA TupleIsSeq ==
    ASSUME NEW n \in Nat, NEW T, NEW f \in [1 .. n -> T]
    PROVE  f \in Seq(T) /\ Len(f) = n
OBVIOUS

\* The rows with two of them in each other's place.
Swapped(list, i, j) == [list EXCEPT ![i + 1] = At(list, j), ![j + 1] = At(list, i)]

\* A swap is two moves, or one when the rows are neighbours.
LEMMA SwapIsMoves ==
    ASSUME NEW new, RowList(new), NEW i \in Positions(new), NEW j \in Positions(new), i < j,
           NEW first, first = Moved(new, i, j)
    PROVE  /\ RowList(first) /\ Len(first) = Len(new)
           /\ j - 1 \in Positions(first) /\ i \in Positions(first)
           /\ Swapped(new, i, j) = IF i + 1 = j THEN first ELSE Moved(first, j - 1, i)
<1> DEFINE P == Positions(new)
           new2 == Swapped(new, i, j)
<1>t. new \in Seq(Nat)
  BY DEF RowList
<1>p. /\ i \in Nat /\ j \in Nat /\ Len(new) \in Nat /\ i < Len(new) /\ j < Len(new)
      /\ P \in SUBSET Nat /\ \A k \in Nat : k \in P <=> k < Len(new)
      /\ At(new, i) \in Nat /\ At(new, j) \in Nat
  BY <1>t, PositionsAre
<1>s. \A list : Same(list, list, Positions(list), Positions(list))
  BY DEF Same, Left
<1>1. RowList(first) /\ Len(first) = Len(new)
  BY <1>s, MovedIs
<1>2. /\ At(first, j) = At(new, i)
      /\ \A t \in P : t # i => At(first, Displaced(t, i, j)) = At(new, t)
  <2>1. At(first, j) = At(new, i)
    BY <1>s, MovedIs
  <2>2. \A t \in P : t # i => At(first, Displaced(t, i, j)) = At(new, t)
    BY <1>s, MovedIs
  <2> QED
    BY <2>1, <2>2
<1>3. Positions(first) = P
  BY <1>1 DEF Positions
<1> HIDE DEF new2
<1>m. new2 \in Seq(Nat) /\ Len(new2) = Len(new)
      /\ \A t \in P : At(new2, t) = IF t = j THEN At(new, i) ELSE IF t = i THEN At(new, j) ELSE At(new, t)
  <2> DEFINE x == At(new, i)
             y == At(new, j)
  <2>1. new2 = [new EXCEPT ![i + 1] = y, ![j + 1] = x] /\ x \in Nat /\ y \in Nat
    BY <1>p DEF Swapped, new2
  <2> HIDE DEF x, y
  <2>2. new2 \in Seq(Nat) /\ Len(new2) = Len(new)
    <3>1. new \in [1 .. Len(new) -> Nat]
      BY <1>t
    <3>2. [new EXCEPT ![i + 1] = y] \in [1 .. Len(new) -> Nat]
      BY <2>1, <3>1
    <3>3. new2 \in [1 .. Len(new) -> Nat]
      BY <2>1, <3>2
    <3> DEFINE n == Len(new)
    <3>4. n \in Nat /\ new2 \in [1 .. n -> Nat]
      BY <1>p, <3>3
    <3> HIDE DEF n
    <3>5. new2 \in Seq(Nat) /\ Len(new2) = n
      BY <3>4, TupleIsSeq
    <3> QED
      BY <3>5 DEF n
  <2>3. \A k \in 1 .. Len(new) : new2[k] = IF k = j + 1 THEN x ELSE IF k = i + 1 THEN y ELSE new[k]
    <3>1. new \in [1 .. Len(new) -> Nat] /\ i + 1 \in 1 .. Len(new) /\ j + 1 \in 1 .. Len(new)
      BY <1>t, <1>p
    <3> DEFINE d == 1 .. Len(new)
               p == i + 1
               q == j + 1
    <3> HIDE DEF d, p, q
    <3>2. new \in [d -> Nat] /\ p \in d /\ q \in d /\ new2 = [new EXCEPT ![p] = y, ![q] = x]
      BY <3>1, <2>1 DEF d, p, q
    <3>3. \A k \in d : new2[k] = IF k = q THEN x ELSE IF k = p THEN y ELSE new[k]
      BY <3>2
    <3> QED
      BY <3>3 DEF d, p, q
  <2>4. \A t \in P : t + 1 \in 1 .. Len(new) /\ t \in Nat /\ (t + 1 = j + 1 <=> t = j) /\ (t + 1 = i + 1 <=> t = i)
    BY <1>p
  <2> QED
    BY <2>2, <2>3, <2>4 DEF At, x, y
<1>e. ASSUME NEW l \in Seq(Nat), Len(l) = Len(new), At(l, j) = At(new, i), At(l, i) = At(new, j),
             \A t \in P : t # i /\ t # j => At(l, t) = At(new, t)
      PROVE  l = new2
  <2>1. \A t \in P : At(l, t) = At(new2, t)
    BY <1>e, <1>m, <1>p
  <2>2. \A k \in 1 .. Len(new) : l[k] = new2[k]
    <3> TAKE k \in 1 .. Len(new)
    <3>1. k - 1 \in P /\ k - 1 + 1 = k
      BY <1>p
    <3>2. At(l, k - 1) = At(new2, k - 1)
      BY <2>1, <3>1
    <3> QED
      BY <3>1, <3>2 DEF At
  <2> QED
    BY <1>e, <1>m, <2>2
<1>r. j - 1 \in Positions(first) /\ i \in Positions(first)
  BY <1>3, <1>p
<1>4. CASE i + 1 = j
  <2>1. \A t \in P : t # i /\ t # j => Displaced(t, i, j) = t
    BY <1>p, <1>4 DEF Displaced
  <2>2. Displaced(j, i, j) = i
    BY <1>p, <1>4 DEF Displaced
  <2>3. first \in Seq(Nat)
    BY <1>1 DEF RowList
  <2>4. j # i /\ j \in P
    BY <1>p
  <2>5. At(first, i) = At(new, j)
    BY <1>2, <2>2, <2>4
  <2>6. \A t \in P : t # i /\ t # j => At(first, t) = At(new, t)
    BY <1>2, <2>1
  <2>7. first = new2
    BY <1>1, <1>2, <1>e, <2>3, <2>5, <2>6
  <2> QED
    BY <1>1, <1>4, <1>r, <2>7 DEF new2
<1>5. CASE i + 1 # j
  <2> DEFINE b == j - 1
             second == Moved(first, b, i)
  <2>b. b \in P /\ b \in Nat /\ b + 1 = j /\ i < b
    BY <1>p, <1>5
  <2>r. i \in Positions(first) /\ b \in Positions(first)
    BY <1>3, <2>b
  <2> HIDE DEF b
  <2>1. RowList(second) /\ Len(second) = Len(new)
    BY <1>1, <1>s, <2>r, MovedIs
  <2>2. At(second, i) = At(first, b)
    BY <1>1, <1>s, <2>r, MovedIs
  <2>3. \A t \in P : t # b => At(second, Displaced(t, b, i)) = At(first, t)
    BY <1>1, <1>3, <1>s, <2>r, MovedIs
  <2> HIDE DEF second
  <2>4. Displaced(j, i, j) = b /\ Displaced(j, b, i) = j /\ j # i /\ j # b /\ j \in P
    BY <1>p, <2>b DEF Displaced
  <2>5. At(second, i) = At(new, j)
    BY <1>2, <2>2, <2>4
  <2>6. At(second, j) = At(new, i)
    BY <1>2, <2>3, <2>4
  <2>7. ASSUME NEW t \in P, t # i, t # j PROVE At(second, t) = At(new, t)
    <3> DEFINE u == Displaced(t, i, j)
    <3>1. u \in Nat /\ u < Len(new) /\ u # b /\ Displaced(u, b, i) = t
      BY <1>p, <2>b, <2>7 DEF Displaced
    <3>2. At(first, u) = At(new, t)
      BY <1>2, <2>7
    <3> HIDE DEF u
    <3> QED
      BY <1>p, <2>3, <3>1, <3>2
  <2>8. second \in Seq(Nat)
    BY <2>1 DEF RowList
  <2>9. second = new2
    BY <1>e, <2>1, <2>5, <2>6, <2>7, <2>8
  <2> QED
    BY <1>1, <1>5, <1>r, <2>9 DEF b, second, new2
<1> QED
  BY <1>4, <1>5

\* SwapRows tells of two moves what has changed places.
LEMMA SwapSound ==
    ASSUME NEW old, RowList(old), NEW new, RowList(new), NEW c, SoundBuilder(old, new, c),
           NEW i \in Positions(new), NEW j \in Positions(new), i < j,
           NEW new2, new2 = Swapped(new, i, j)
    PROVE  RowList(new2) /\ SoundBuilder(old, new2, SwapRows(c, i, j))
<1> DEFINE first == Moved(new, i, j)
           c1 == MoveRow(c, i, j)
<1>1. RowList(first) /\ SoundBuilder(old, first, c1)
  BY MoveSound
<1>2. /\ j - 1 \in Positions(first) /\ i \in Positions(first)
      /\ new2 = IF i + 1 = j THEN first ELSE Moved(first, j - 1, i)
  BY SwapIsMoves
<1>3. SwapRows(c, i, j) = IF i + 1 = j THEN c1 ELSE MoveRow(c1, j - 1, i)
  BY DEF SwapRows
<1> HIDE DEF first, c1
<1>4. CASE i + 1 = j
  BY <1>1, <1>2, <1>3, <1>4
<1>5. CASE i + 1 # j
  <2>1. new2 = Moved(first, j - 1, i)
    BY <1>2, <1>5
  <2>2. RowList(new2) /\ SoundBuilder(old, new2, MoveRow(c1, j - 1, i))
    BY <1>1, <1>2, <2>1, MoveSound
  <2> QED
    BY <1>3, <1>5, <2>2
<1> QED
  BY <1>4, <1>5

\* ModifyRow says nothing of where rows are.
LEMMA SetSound ==
    ASSUME NEW old, NEW new, NEW c, SoundBuilder(old, new, c), NEW index
    PROVE  SoundBuilder(old, new, ModifyRow(c, index))
<1> DEFINE e == ModifyRow(c, index)
<1>1. DOMAIN c = {"deletions", "insertions", "modifications", "moves"}
  BY DEF SoundBuilder, IsBuilder
<1>2. /\ DOMAIN e = {"deletions", "insertions", "modifications", "moves"}
      /\ e.deletions = c.deletions /\ e.insertions = c.insertions /\ e.moves = c.moves
  BY <1>1 DEF ModifyRow
<1> HIDE DEF e
<1> QED
  BY <1>2 DEF SoundBuilder, IsBuilder, e

\* All rows deleted.
LEMMA AllDeleted ==
    ASSUME NEW old, RowList(old)
    PROVE  RowList(<<>>) /\ SoundBuilder(old, <<>>, [Nothing EXCEPT !.deletions = Positions(old)])
<1> DEFINE c == [Nothing EXCEPT !.deletions = Positions(old)]
<1>1. /\ c.deletions = Positions(old) /\ c.insertions = {} /\ c.moves = <<>>
      /\ DOMAIN c = {"deletions", "insertions", "modifications", "moves"}
  BY DEF Nothing
<1> HIDE DEF c
<1>2. Positions(<<>>) = {}
  BY DEF Positions
<1>3. RowList(<<>>)
  BY <1>2 DEF RowList
<1>4. Same(old, <<>>, Positions(old), {})
  BY <1>2 DEF Same, Left
<1>5. Sound(old, <<>>, Positions(old), {}, <<>>)
  BY <1>4 DEF Sound, Apart
<1> QED
  BY <1>1, <1>3, <1>5 DEF SoundBuilder, IsBuilder, c

\* ClearRows tells that all rows the changes started from have been deleted.
LEMMA ClearSound ==
    ASSUME NEW old, RowList(old), NEW new, RowList(new), NEW c, SoundBuilder(old, new, c)
    PROVE  RowList(<<>>) /\ SoundBuilder(old, <<>>, ClearRows(c, Len(new)))
<1> DEFINE D == c.deletions
           I == c.insertions
<1>1. Same(old, new, D, I)
  BY DEF SoundBuilder, Sound
<1>t. old \in Seq(Nat) /\ new \in Seq(Nat)
  BY DEF RowList
<1> HIDE DEF D, I
<1>2. Len(old) - Cardinality(D) = Len(new) - Cardinality(I)
  BY <1>1, SameSize
<1>3. Cardinality(D) \in Nat /\ Cardinality(I) \in Nat /\ Len(old) \in Nat /\ Len(new) \in Nat
  BY <1>1, <1>t, SubsetOfPositions, PositionsAre DEF Same
<1>4. Len(new) + Cardinality(D) - Cardinality(I) - 1 = Len(old) - 1
  BY <1>2, <1>3
<1>5. ClearRows(c, Len(new)) = [Nothing EXCEPT !.deletions = Positions(old)]
  BY <1>4 DEF ClearRows, Positions, D, I
<1> QED
  BY <1>5, AllDeleted

\* No changes: the rows are the same.
LEMMA NothingSound ==
    ASSUME NEW list, RowList(list)
    PROVE  SoundBuilder(list, list, Nothing)
<1>1. Same(list, list, {}, {})
  BY DEF Same, RowList
<1>2. Sound(list, list, {}, {}, <<>>)
  BY <1>1 DEF Sound, Apart
<1> QED
  BY <1>2 DEF SoundBuilder, IsBuilder, Nothing

\* Rows of which nothing is told are the same.
LEMMA NothingHasChanged ==
    ASSUME NEW old, RowList(old), NEW new, RowList(new), SoundBuilder(old, new, Nothing)
    PROVE  old = new
<1>1. Same(old, new, {}, {})
  BY DEF SoundBuilder, Sound, Nothing
<1>t. old \in Seq(Nat) /\ new \in Seq(Nat)
  BY DEF RowList
<1>p. /\ Len(old) \in Nat /\ Len(new) \in Nat
      /\ \A k \in Nat : k \in Positions(old) <=> k < Len(old)
  BY <1>t, PositionsAre
<1>2. Len(old) = Len(new)
  <2>1. Cardinality({}) = 0
    BY FS_EmptySet
  <2> QED
    BY <1>1, <1>p, <2>1, SameSize
<1>u. \A i \in Nat : Unshift({}, i) = i /\ Shift({}, i) = i
  <2> TAKE i \in Nat
  <2>1. {} \in SUBSET Nat /\ IsFiniteSet({}) /\ Cardinality({}) = 0
    BY FS_EmptySet
  <2>2. {k \in {} : 0 <= k /\ k < i} = {}
    OBVIOUS
  <2>3. Unshift({}, i) = i
    BY <2>1, <2>2 DEF Unshift, Count
  <2>4. i \notin {}
    OBVIOUS
  <2> QED
    BY <2>1, <2>3, <2>4, ShiftBack
<1>3. ASSUME NEW k \in 1 .. Len(old) PROVE old[k] = new[k]
  <2>1. k - 1 \in Positions(old) \ {} /\ k - 1 \in Nat /\ k - 1 + 1 = k
    BY <1>p
  <2>2. At(new, Shift({}, Unshift({}, k - 1))) = At(old, k - 1)
    BY <1>1, <2>1, Partner
  <2> QED
    BY <1>u, <2>1, <2>2 DEF At
<1> QED
  BY <1>t, <1>2, <1>3

-----------------------------------------------------------------------------
(* Moves that move nothing.                                                 *)

\* A deletion and an insertion of one row may be dropped when as many rows that
\* are left come before them.
LEMMA Restored ==
    ASSUME NEW old, RowList(old), NEW new, RowList(new), NEW D, NEW I, Same(old, new, D, I),
           NEW i \in D, NEW j \in I, At(old, i) = At(new, j), Unshift(D, i) = Unshift(I, j)
    PROVE  Same(old, new, D \ {i}, I \ {j})
<1>t. old \in Seq(Nat) /\ new \in Seq(Nat) /\ D \subseteq Positions(old) /\ I \subseteq Positions(new)
  BY DEF RowList, Same
<1>p. /\ Positions(old) \in SUBSET Nat /\ Positions(new) \in SUBSET Nat
      /\ D \in SUBSET Nat /\ I \in SUBSET Nat /\ i \in Nat /\ j \in Nat
  BY <1>t, PositionsAre
<1>1. Left(old, D \ {i}) = Left(old, D) \cup {At(old, i)}
  BY <1>t DEF Left
<1>2. Left(new, I \ {j}) = Left(new, I) \cup {At(new, j)}
  BY <1>t DEF Left
<1>3. \A k \in Positions(old) \ (D \ {i}) : k = i \/ k \in Positions(old) \ D
  OBVIOUS
<1>4. \A l \in Positions(new) \ (I \ {j}) : l = j \/ l \in Positions(new) \ I
  OBVIOUS
<1>5. ASSUME NEW k \in Positions(old) \ D, NEW l \in Positions(new) \ I, At(old, k) = At(new, l)
      PROVE  (i < k <=> j < l) /\ (k < i <=> l < j)
  <2>1. Unshift(D, k) = Unshift(I, l)
    BY <1>5, SameRank
  <2>n. k \in Nat /\ l \in Nat /\ k \notin D /\ l \notin I /\ k # i /\ l # j
    BY <1>p
  <2>2. /\ Unshift(D, i) \in Nat /\ Unshift(D, k) \in Nat
        /\ i <= k => Unshift(D, i) <= Unshift(D, k)
    BY <1>p, <2>n, UnshiftOrder
  <2>3. k < i => Unshift(D, k) < Unshift(D, i)
    BY <1>p, <2>n, UnshiftOrder
  <2>4. /\ Unshift(I, j) \in Nat /\ Unshift(I, l) \in Nat
        /\ j <= l => Unshift(I, j) <= Unshift(I, l)
    BY <1>p, <2>n, UnshiftOrder
  <2>5. l < j => Unshift(I, l) < Unshift(I, j)
    BY <1>p, <2>n, UnshiftOrder
  <2> QED
    BY <1>p, <2>1, <2>n, <2>2, <2>3, <2>4, <2>5
<1>6. \A k \in Positions(old) \ D : At(old, k) # At(old, i)
  BY <1>t DEF RowList
<1>7. \A l \in Positions(new) \ I : At(new, l) # At(new, j)
  BY <1>t DEF RowList
<1>8. ASSUME NEW k \in Positions(old) \ (D \ {i}), NEW l \in Positions(new) \ (I \ {j}), At(old, k) = At(new, l),
             NEW x \in Positions(old) \ (D \ {i}), NEW y \in Positions(new) \ (I \ {j}), At(old, x) = At(new, y)
      PROVE  k < x <=> l < y
  <2>1. k = i <=> l = j
    BY <1>3, <1>4, <1>6, <1>7, <1>8
  <2>2. x = i <=> y = j
    BY <1>3, <1>4, <1>6, <1>7, <1>8
  <2>3. CASE k = i /\ x = i
    BY <1>p, <2>1, <2>2, <2>3
  <2>4. CASE k = i /\ x # i
    BY <1>3, <1>4, <1>5, <1>8, <2>1, <2>2, <2>4
  <2>5. CASE k # i /\ x = i
    BY <1>3, <1>4, <1>5, <1>8, <2>1, <2>2, <2>5
  <2>6. CASE k # i /\ x # i
    BY <1>3, <1>4, <1>8, <2>1, <2>2, <2>6 DEF Same
  <2> QED
    BY <2>3, <2>4, <2>5, <2>6
<1> QED
  BY <1>t, <1>1, <1>2, <1>8 DEF Same

\* The function CleanUpStaleMoves computes exists.
LEMMA CleanedExists ==
    ASSUME NEW c, NEW N \in Nat
    PROVE  \E f : f = [k \in 0 .. N |-> IF k = 0 THEN [c EXCEPT !.moves = <<>>]
                                        ELSE KeepUnlessStale(f[k - 1], c.moves[k])]
<1> DEFINE E(f, n) == [k \in 0 .. n |-> IF k = 0 THEN [c EXCEPT !.moves = <<>>]
                                        ELSE KeepUnlessStale(f[k - 1], c.moves[k])]
           T == {n \in Nat : ~ \E f : f = E(f, n)}
<1>1. SUFFICES ASSUME T # {} PROVE FALSE
  OBVIOUS
<1>2. PICK n \in T : \A m \in T : n <= m
  <2>1. T \in SUBSET Nat
    OBVIOUS
  <2> HIDE DEF T
  <2> QED
    BY <1>1, <2>1, Least
<1>3. n # 0
  <2>1. ASSUME n = 0 PROVE \E f : f = E(f, n)
    <3> DEFINE g == [k \in 0 .. 0 |-> [c EXCEPT !.moves = <<>>]]
    <3>1. g = E(g, n)
      BY <2>1
    <3> QED
      BY <3>1
  <2> QED
    BY <1>2, <2>1
<1>4. n - 1 \in Nat /\ n - 1 \notin T
  BY <1>2, <1>3
<1>5. PICK f : f = E(f, n - 1)
  BY <1>4
<1> DEFINE g == [k \in 0 .. n |-> IF k = n THEN KeepUnlessStale(f[n - 1], c.moves[n]) ELSE f[k]]
<1>6. ASSUME NEW k \in 0 .. n
      PROVE  g[k] = IF k = 0 THEN [c EXCEPT !.moves = <<>>] ELSE KeepUnlessStale(g[k - 1], c.moves[k])
  <2>1. CASE k = n
    <3>1. n - 1 \in 0 .. n /\ n - 1 # n
      BY <1>4
    <3>2. g[n - 1] = f[n - 1]
      BY <3>1
    <3> QED
      BY <1>3, <2>1, <3>2
  <2>2. CASE k # n
    <3>1. k \in 0 .. n - 1
      BY <1>4, <2>2
    <3>2. f[k] = IF k = 0 THEN [c EXCEPT !.moves = <<>>] ELSE KeepUnlessStale(f[k - 1], c.moves[k])
      BY <1>5, <3>1
    <3>3. k # 0 => k - 1 \in 0 .. n /\ k - 1 # n
      BY <1>4, <3>1
    <3>4. k # 0 => g[k - 1] = f[k - 1]
      BY <3>3
    <3>5. g[k] = f[k]
      BY <2>2
    <3> HIDE DEF g
    <3> QED
      BY <3>2, <3>4, <3>5
  <2> QED
    BY <2>1, <2>2
<1>7. g = [k \in 0 .. n |-> g[k]]
  OBVIOUS
<1> HIDE DEF g
<1>8. g = E(g, n)
  BY <1>6, <1>7
<1> QED
  BY <1>2, <1>8

\* Taking a position out of the set changes where those after it go.
LEMMA UnshiftWithout ==
    ASSUME NEW S \in SUBSET Nat, NEW i \in S, NEW x \in Nat
    PROVE  Unshift(S \ {i}, x) = Unshift(S, x) + IF i < x THEN 1 ELSE 0
<1> DEFINE A == {k \in S : 0 <= k /\ k < x}
           B == {k \in S \ {i} : 0 <= k /\ k < x}
<1>1. Unshift(S, x) = x - Cardinality(A) /\ Unshift(S \ {i}, x) = x - Cardinality(B)
  BY DEF Unshift, Count
<1>2. IsFiniteSet(A) /\ Cardinality(A) \in Nat
  <2>1. IsFiniteSet(0 .. x - 1)
    BY FS_Interval
  <2>2. A \subseteq 0 .. x - 1
    <3>1. \A k \in A : k \in Nat /\ 0 <= k /\ k < x
      OBVIOUS
    <3> HIDE DEF A
    <3> QED
      BY <3>1
  <2> HIDE DEF A
  <2> QED
    BY <2>1, <2>2, FS_Subset, FS_CardinalityType
<1>3. B = IF i < x THEN A \ {i} ELSE A
  OBVIOUS
<1>4. i < x => i \in A
  OBVIOUS
<1> HIDE DEF A, B
<1>5. i < x => Cardinality(B) = Cardinality(A) - 1
  BY <1>2, <1>3, <1>4, FS_RemoveElement
<1> QED
  BY <1>1, <1>2, <1>3, <1>5

\* A move that moves something still does when one that moves nothing is dropped.
LEMMA RealStays ==
    ASSUME NEW D \in SUBSET Nat, NEW I \in SUBSET Nat, NEW i \in D, NEW j \in I,
           Unshift(D, i) = Unshift(I, j),
           NEW from \in Nat, NEW to \in Nat, from # i, to # j, Unshift(D, from) # Unshift(I, to)
    PROVE  Unshift(D \ {i}, from) # Unshift(I \ {j}, to)
<1>1. /\ Unshift(D \ {i}, from) = Unshift(D, from) + IF i < from THEN 1 ELSE 0
      /\ Unshift(I \ {j}, to) = Unshift(I, to) + IF j < to THEN 1 ELSE 0
  BY UnshiftWithout
<1>2. /\ Unshift(D, i) \in Nat /\ Unshift(D, from) \in Nat
      /\ i <= from => Unshift(D, i) <= Unshift(D, from)
  BY UnshiftOrder
<1>3. from <= i => Unshift(D, from) <= Unshift(D, i)
  BY UnshiftOrder
<1>4. /\ Unshift(I, j) \in Nat /\ Unshift(I, to) \in Nat
      /\ j <= to => Unshift(I, j) <= Unshift(I, to)
  BY UnshiftOrder
<1>5. to <= j => Unshift(I, to) <= Unshift(I, j)
  BY UnshiftOrder
<1>6. i \in Nat /\ j \in Nat
  OBVIOUS
<1> QED
  BY <1>1, <1>2, <1>3, <1>4, <1>5, <1>6

\* No move could as well not be reported.
AllReal(c) == \A k \in DOMAIN c.moves : ~IsStale(c, c.moves[k])

\* The rows of which the changes have to know whether they were modified: those that
\* are not inserted, and those that are moved.
Exact(c, i) == i \notin c.insertions \/ \E k \in DOMAIN c.moves : c.moves[k].to = i

\* After k moves of c: those that are kept, and those that are still to come, follow.
Cleaning(old, new, c, k, b) ==
    /\ IsBuilder(b)
    /\ Sound(old, new, b.deletions, b.insertions, b.moves)
    /\ \A x \in DOMAIN b.moves : \E l \in 1 .. k : b.moves[x] = c.moves[l]
    /\ \A l \in k + 1 .. Len(c.moves) : Follows(old, new, b.deletions, b.insertions, c.moves[l])
    /\ AllReal(b)
    /\ b.modifications = c.modifications /\ \A i : Exact(b, i) => Exact(c, i)

\* Dropping or keeping one more move.
LEMMA CleaningStep ==
    ASSUME NEW old, RowList(old), NEW new, RowList(new), NEW c, SoundBuilder(old, new, c),
           NEW k \in 1 .. Len(c.moves), NEW b, Cleaning(old, new, c, k - 1, b)
    PROVE  Cleaning(old, new, c, k, KeepUnlessStale(b, c.moves[k]))
<1> DEFINE D == b.deletions
           I == b.insertions
           ms == c.moves
           m == ms[k]
           e == KeepUnlessStale(b, m)
<1>1. /\ Same(old, new, D, I) /\ b.moves \in Seq(Pairs)
      /\ \A x \in DOMAIN b.moves : Follows(old, new, D, I, b.moves[x])
      /\ Apart(b.moves)
      /\ \A x \in DOMAIN b.moves : \E l \in 1 .. k - 1 : b.moves[x] = ms[l]
      /\ DOMAIN b = {"deletions", "insertions", "modifications", "moves"}
  BY DEF Cleaning, Sound, IsBuilder
<1>2. ms \in Seq(Pairs) /\ Len(ms) \in Nat /\ DOMAIN ms = 1 .. Len(ms) /\ Apart(ms)
  BY DEF SoundBuilder, Sound
<1>k. /\ k \in 1 .. Len(ms) /\ k \in Nat /\ k - 1 + 1 = k
      /\ \A l \in 1 .. k - 1 : l \in DOMAIN ms /\ l # k /\ l \in 1 .. k
      /\ \A l \in k + 1 .. Len(ms) : l \in DOMAIN ms /\ l # k /\ l \in k .. Len(ms)
  BY <1>2
<1>3. \A l \in k .. Len(ms) : Follows(old, new, D, I, ms[l])
  BY <1>k DEF Cleaning
<1>4. m \in Pairs /\ Follows(old, new, D, I, m)
  BY <1>2, <1>3, <1>k
<1>5. \A l \in DOMAIN ms : l # k => ms[l].from # m.from
  BY <1>2, <1>k DEF Apart
<1>6. \A x \in DOMAIN b.moves : b.moves[x].from # m.from
  BY <1>1, <1>5, <1>k
<1>r. /\ AllReal(b) /\ b.modifications = c.modifications /\ \A i : Exact(b, i) => Exact(c, i)
      /\ Exact(c, m.to)
  BY <1>k DEF Cleaning, Exact
<1> HIDE DEF m, ms
<1>7. CASE IsStale(b, m)
  <2> DEFINE D2 == D \ {m.from}
             I2 == I \ {m.to}
  <2>1. /\ e.deletions = D2 /\ e.insertions = I2 /\ e.moves = b.moves /\ IsBuilder(e)
        /\ e.modifications = b.modifications
    BY <1>1, <1>7 DEF KeepUnlessStale, IsBuilder
  <2>2. Unshift(D, m.from) = Unshift(I, m.to)
    BY <1>7 DEF IsStale, Unshift
  <2>f. m.from \in D /\ m.to \in I /\ At(old, m.from) = At(new, m.to)
    BY <1>4 DEF Follows
  <2>u. D \subseteq Positions(old)
    BY <1>1 DEF Same
  <2> HIDE DEF D, I, e
  <2>3. Same(old, new, D2, I2)
    BY <1>1, <2>2, <2>f, Restored
  <2>4. ASSUME NEW n, Follows(old, new, D, I, n), n.from # m.from PROVE Follows(old, new, D2, I2, n)
    BY <2>4, <2>f, <2>u DEF Follows, RowList
  <2>5. \A x \in DOMAIN b.moves : Follows(old, new, D2, I2, b.moves[x])
    BY <1>1, <1>6, <2>4
  <2>6. \A l \in k + 1 .. Len(ms) : Follows(old, new, D2, I2, ms[l])
    BY <1>3, <1>5, <1>k, <2>4
  <2>7. \A x \in DOMAIN b.moves : \E l \in 1 .. k : b.moves[x] = ms[l]
    BY <1>1, <1>k
  <2>8. Sound(old, new, D2, I2, b.moves)
    BY <1>1, <2>3, <2>5 DEF Sound
  <2>9. \A i : Exact(e, i) => Exact(c, i)
    BY <1>r, <2>1 DEF Exact, I
  <2>10. AllReal(e)
    <3> SUFFICES ASSUME NEW x \in DOMAIN b.moves PROVE ~IsStale(e, b.moves[x])
      BY <2>1 DEF AllReal
    <3> DEFINE n == b.moves[x]
    <3>1. n.from \in D /\ n.to \in I /\ At(old, n.from) = At(new, n.to) /\ n.from # m.from
      BY <1>1, <1>6 DEF Follows
    <3>2. n.to # m.to
      BY <2>f, <2>u, <3>1 DEF RowList
    <3>3. Unshift(D, n.from) # Unshift(I, n.to)
      BY <1>r DEF AllReal, IsStale, Unshift, D, I
    <3>4. D \in SUBSET Nat /\ I \in SUBSET Nat
      BY <1>1, PositionsAre DEF Same, RowList
    <3> DEFINE p == n.from
               q == n.to
               i == m.from
               j == m.to
    <3>6. /\ p \in Nat /\ q \in Nat /\ p # i /\ q # j /\ i \in D /\ j \in I
          /\ Unshift(D, i) = Unshift(I, j) /\ Unshift(D, p) # Unshift(I, q)
      BY <2>2, <2>f, <3>1, <3>2, <3>3, <3>4
    <3>7. D2 = D \ {i} /\ I2 = I \ {j}
      OBVIOUS
    <3> HIDE DEF p, q, i, j, D2, I2
    <3>5. Unshift(D2, p) # Unshift(I2, q)
      BY <3>4, <3>6, <3>7, RealStays
    <3> QED
      BY <2>1, <3>5 DEF IsStale, Unshift, n, p, q
  <2> QED
    BY <1>r, <2>1, <2>6, <2>7, <2>8, <2>9, <2>10 DEF Cleaning, e, m, ms
<1>8. CASE ~IsStale(b, m)
  <2>1. /\ e.deletions = D /\ e.insertions = I /\ e.moves = Append(b.moves, m) /\ IsBuilder(e)
        /\ e.modifications = b.modifications
    BY <1>1, <1>8 DEF KeepUnlessStale, IsBuilder
  <2>2. Sound(old, new, D, I, b.moves)
    BY DEF Cleaning
  <2> DEFINE a == Append(b.moves, m)
  <2> HIDE DEF D, I, e
  <2>3. Sound(old, new, D, I, a)
    BY <1>4, <1>6, <2>2, MoveAppended
  <2>a. \A x \in DOMAIN a : \/ x \in DOMAIN b.moves /\ a[x] = b.moves[x]
                            \/ a[x] = m
    BY <1>1
  <2>4. \A x \in DOMAIN a : \E l \in 1 .. k : a[x] = ms[l]
    <3> TAKE x \in DOMAIN a
    <3> HIDE DEF a
    <3>2. k \in 1 .. k
      BY <1>k
    <3> QED
      BY <1>1, <1>k, <2>a, <3>2 DEF m
  <2>5. \A l \in k + 1 .. Len(ms) : Follows(old, new, D, I, ms[l])
    BY <1>3, <1>k
  <2> HIDE DEF a
  <2>6. \A i : Exact(e, i) => Exact(c, i)
    BY <1>r, <2>1, <2>a DEF Exact, I, a
  <2>7. AllReal(e)
    <3> SUFFICES ASSUME NEW x \in DOMAIN a PROVE ~IsStale(e, a[x])
      BY <2>1 DEF AllReal, a
    <3>1. ~IsStale(b, a[x])
      BY <1>8, <1>r, <2>a DEF AllReal
    <3> QED
      BY <2>1, <3>1 DEF IsStale, D, I
  <2> QED
    BY <1>r, <2>1, <2>3, <2>4, <2>5, <2>6, <2>7 DEF Cleaning, e, m, ms, a
<1> QED
  BY <1>7, <1>8

\* All moves of c have been looked at.
LEMMA AllCleaned ==
    ASSUME NEW old, RowList(old), NEW new, RowList(new), NEW c, SoundBuilder(old, new, c)
    PROVE  Cleaning(old, new, c, Len(c.moves), CleanUpStaleMoves(c))
<1> DEFINE N == Len(c.moves)
           cleaned == CHOOSE f : f = [k \in 0 .. N |->
                          IF k = 0 THEN [c EXCEPT !.moves = <<>>]
                          ELSE KeepUnlessStale(f[k - 1], c.moves[k])]
           T == {n \in 0 .. N : ~ Cleaning(old, new, c, n, cleaned[n])}
<1>1. N \in Nat /\ c.moves \in Seq(Pairs) /\ DOMAIN c.moves = 1 .. N
  BY DEF SoundBuilder, Sound
<1>2. cleaned = [k \in 0 .. N |-> IF k = 0 THEN [c EXCEPT !.moves = <<>>]
                                  ELSE KeepUnlessStale(cleaned[k - 1], c.moves[k])]
  <2> HIDE DEF N
  <2> QED
    BY <1>1, CleanedExists
<1>3. CleanUpStaleMoves(c) = cleaned[N]
  BY DEF CleanUpStaleMoves
<1> HIDE DEF cleaned
<1>4. Cleaning(old, new, c, 0, cleaned[0])
  <2> DEFINE b == [c EXCEPT !.moves = <<>>]
  <2>1. cleaned[0] = b
    BY <1>1, <1>2
  <2>2. /\ DOMAIN c = {"deletions", "insertions", "modifications", "moves"}
        /\ Sound(old, new, c.deletions, c.insertions, c.moves)
    BY DEF SoundBuilder, IsBuilder
  <2>3. /\ DOMAIN b = {"deletions", "insertions", "modifications", "moves"}
        /\ b.deletions = c.deletions /\ b.insertions = c.insertions /\ b.moves = <<>>
        /\ b.modifications = c.modifications
    BY <2>2
  <2> HIDE DEF b
  <2>4. Sound(old, new, b.deletions, b.insertions, b.moves)
    BY <2>2, <2>3 DEF Sound, Apart
  <2>5. \A l \in 0 + 1 .. Len(c.moves) : Follows(old, new, b.deletions, b.insertions, c.moves[l])
    BY <1>1, <2>2, <2>3 DEF Sound
  <2>6. AllReal(b) /\ \A i : Exact(b, i) => Exact(c, i)
    BY <2>3 DEF AllReal, Exact
  <2> QED
    BY <2>1, <2>3, <2>4, <2>5, <2>6 DEF Cleaning, IsBuilder
<1>5. T = {}
  <2> SUFFICES ASSUME T # {} PROVE FALSE
    OBVIOUS
  <2>1. PICK n \in T : \A m \in T : n <= m
    <3>1. T \in SUBSET Nat
      BY <1>1
    <3> HIDE DEF T
    <3> QED
      BY <3>1, Least
  <2>2. n \in 0 .. N /\ n # 0
    BY <1>4, <2>1
  <2>3. n \in 1 .. N /\ n - 1 \in 0 .. N /\ n - 1 \notin T
    BY <1>1, <2>1, <2>2
  <2>4. Cleaning(old, new, c, n - 1, cleaned[n - 1])
    BY <2>3
  <2>5. cleaned[n] = KeepUnlessStale(cleaned[n - 1], c.moves[n])
    BY <1>1, <1>2, <2>2
  <2>6. Cleaning(old, new, c, n, cleaned[n])
    BY <2>3, <2>4, <2>5, CleaningStep
  <2> QED
    BY <2>1, <2>6
<1>6. Cleaning(old, new, c, N, cleaned[N])
  BY <1>1, <1>5
<1> QED
  BY <1>3, <1>6

\* CleanUpStaleMoves leaves changes that are still true.
LEMMA CleanSound ==
    ASSUME NEW old, RowList(old), NEW new, RowList(new), NEW c, SoundBuilder(old, new, c)
    PROVE  SoundBuilder(old, new, CleanUpStaleMoves(c))
BY AllCleaned DEF Cleaning, SoundBuilder

\* CleanUpStaleMoves leaves moves that really move their rows, although a move is
\* looked at before others are dropped.
LEMMA CleanReal ==
    ASSUME NEW old, RowList(old), NEW new, RowList(new), NEW c, SoundBuilder(old, new, c)
    PROVE  AllReal(CleanUpStaleMoves(c))
BY AllCleaned DEF Cleaning

\* CleanUpStaleMoves leaves the modifications as they are; a row that is no longer
\* told to be inserted was moved.
LEMMA CleanExact ==
    ASSUME NEW old, RowList(old), NEW new, RowList(new), NEW c, SoundBuilder(old, new, c)
    PROVE  /\ CleanUpStaleMoves(c).modifications = c.modifications
           /\ \A i : Exact(CleanUpStaleMoves(c), i) => Exact(c, i)
BY AllCleaned DEF Cleaning

-----------------------------------------------------------------------------
(* Changes of one pass after those of others.                               *)

\* What MergeBuilders reports as deleted and as inserted.
MergedDeletions(D, I, D2) == AddShiftedBy(D, I, D2)
MergedInsertions(I, D2, I2) == InsertAll(EraseAll(I, D2), I2)

\* Where a row was that is deleted later, and where a row is that was inserted before.
Before(D, I, i) == Shift(D, Unshift(I, i))
After(D2, I2, i) == Shift(I2, Unshift(D2, i))

\* The merged deletions and insertions, position by position.
LEMMA MergedAre ==
    \A D, I, D2, I2 :
        /\ MergedDeletions(D, I, D2) = D \cup {Before(D, I, i) : i \in D2 \ I}
        /\ MergedInsertions(I, D2, I2) = I2 \cup {After(D2, I2, i) : i \in I \ D2}
<1> TAKE D, I, D2, I2
<1>1. MergedDeletions(D, I, D2) = D \cup {Before(D, I, i) : i \in D2 \ I}
  BY DEF MergedDeletions, AddShiftedBy, Before
<1>2. MergedInsertions(I, D2, I2) = {Shift(I2, x) : x \in {Unshift(D2, i) : i \in I \ D2}} \cup I2
  BY DEF MergedInsertions, InsertAll, ShiftForInsertAll, EraseAll
<1>3. {Shift(I2, x) : x \in {Unshift(D2, i) : i \in I \ D2}} = {After(D2, I2, i) : i \in I \ D2}
  BY DEF After
<1> QED
  BY <1>1, <1>2, <1>3

\* Where a row that is left was before.
LEMMA BeforeIs ==
    ASSUME NEW old, RowList(old), NEW new, RowList(new), NEW D, NEW I, Same(old, new, D, I),
           NEW i \in Positions(new) \ I
    PROVE  Before(D, I, i) \in Positions(old) \ D /\ At(old, Before(D, I, i)) = At(new, i)
<1>1. Same(new, old, I, D)
  BY SameBack DEF RowList
<1> QED
  BY <1>1, Partner DEF Before

\* Where a row that is left is after.
LEMMA AfterIs ==
    ASSUME NEW old, RowList(old), NEW new, RowList(new), NEW D, NEW I, Same(old, new, D, I),
           NEW i \in Positions(old) \ D
    PROVE  After(D, I, i) \in Positions(new) \ I /\ At(new, After(D, I, i)) = At(old, i)
BY Partner DEF After

\* The deletions and insertions of two sets of changes, merged.
LEMMA Composed ==
    ASSUME NEW s, RowList(s), NEW m, RowList(m), NEW r, RowList(r),
           NEW D, NEW I, Same(s, m, D, I), NEW D2, NEW I2, Same(m, r, D2, I2)
    PROVE  Same(s, r, MergedDeletions(D, I, D2), MergedInsertions(I, D2, I2))
<1> DEFINE D3 == MergedDeletions(D, I, D2)
           I3 == MergedInsertions(I, D2, I2)
<1>1. /\ D3 = D \cup {Before(D, I, i) : i \in D2 \ I}
      /\ I3 = I2 \cup {After(D2, I2, i) : i \in I \ D2}
  BY MergedAre
<1> HIDE DEF D3, I3
<1>2. /\ D \subseteq Positions(s) /\ I \subseteq Positions(m)
      /\ D2 \subseteq Positions(m) /\ I2 \subseteq Positions(r)
  BY DEF Same
<1>b. \A i \in D2 \ I : Before(D, I, i) \in Positions(s) \ D /\ At(s, Before(D, I, i)) = At(m, i)
  BY <1>2, BeforeIs
<1>a. \A i \in I \ D2 : After(D2, I2, i) \in Positions(r) \ I2 /\ At(r, After(D2, I2, i)) = At(m, i)
  BY <1>2, AfterIs
<1>3. D3 \subseteq Positions(s) /\ I3 \subseteq Positions(r)
  BY <1>1, <1>2, <1>a, <1>b
<1>u. /\ \A x, y \in Positions(m) : At(m, x) = At(m, y) => x = y
      /\ \A x, y \in Positions(s) : At(s, x) = At(s, y) => x = y
      /\ \A x, y \in Positions(r) : At(r, x) = At(r, y) => x = y
  BY DEF RowList
<1>4. ASSUME NEW p \in Positions(s) \ D3
      PROVE  \E x \in Positions(m) \ (I \cup D2) : At(m, x) = At(s, p)
  <2>1. PICK x \in Positions(m) \ I : At(m, x) = At(s, p)
    BY <1>1, Remains
  <2>2. x \notin D2
    BY <1>1, <1>b, <1>u, <2>1
  <2> QED
    BY <2>1, <2>2
<1>5. ASSUME NEW q \in Positions(r) \ I3
      PROVE  \E x \in Positions(m) \ (I \cup D2) : At(m, x) = At(r, q)
  <2>s. Same(r, m, I2, D2)
    BY SameBack DEF RowList
  <2>1. PICK x \in Positions(m) \ D2 : At(m, x) = At(r, q)
    BY <1>1, <2>s, Remains
  <2>2. x \notin I
    BY <1>1, <1>a, <1>u, <2>1
  <2> QED
    BY <2>1, <2>2
<1>6. ASSUME NEW x \in Positions(m) \ (I \cup D2)
      PROVE  \E p \in Positions(s) \ D3 : At(s, p) = At(m, x)
  <2>s. Same(m, s, I, D)
    BY SameBack DEF RowList
  <2>1. PICK p \in Positions(s) \ D : At(s, p) = At(m, x)
    BY <2>s, Remains
  <2>2. p \notin D3
    BY <1>1, <1>2, <1>b, <1>u, <2>1
  <2> QED
    BY <2>1, <2>2
<1>7. ASSUME NEW x \in Positions(m) \ (I \cup D2)
      PROVE  \E q \in Positions(r) \ I3 : At(r, q) = At(m, x)
  <2>1. PICK q \in Positions(r) \ I2 : At(r, q) = At(m, x)
    BY Remains
  <2>2. q \notin I3
    BY <1>1, <1>2, <1>a, <1>u, <2>1
  <2> QED
    BY <2>1, <2>2
<1>8. Left(s, D3) = Left(r, I3)
  <2>1. ASSUME NEW v \in Left(s, D3) PROVE v \in Left(r, I3)
    <3>1. PICK p \in Positions(s) \ D3 : v = At(s, p)
      BY DEF Left
    <3>2. PICK x \in Positions(m) \ (I \cup D2) : At(m, x) = At(s, p)
      BY <1>4
    <3> QED
      BY <1>7, <3>1, <3>2 DEF Left
  <2>2. ASSUME NEW v \in Left(r, I3) PROVE v \in Left(s, D3)
    <3>1. PICK q \in Positions(r) \ I3 : v = At(r, q)
      BY DEF Left
    <3>2. PICK x \in Positions(m) \ (I \cup D2) : At(m, x) = At(r, q)
      BY <1>5
    <3> QED
      BY <1>6, <3>1, <3>2 DEF Left
  <2> QED
    BY <2>1, <2>2
<1>9. ASSUME NEW i \in Positions(s) \ D3, NEW j \in Positions(r) \ I3, At(s, i) = At(r, j),
             NEW k \in Positions(s) \ D3, NEW l \in Positions(r) \ I3, At(s, k) = At(r, l)
      PROVE  i < k <=> j < l
  <2>1. PICK x \in Positions(m) \ (I \cup D2) : At(m, x) = At(s, i)
    BY <1>4
  <2>2. PICK y \in Positions(m) \ (I \cup D2) : At(m, y) = At(s, k)
    BY <1>4
  <2>3. i \notin D /\ k \notin D /\ j \notin I2 /\ l \notin I2
    BY <1>1
  <2>4. i < k <=> x < y
    BY <2>1, <2>2, <2>3 DEF Same
  <2>5. x < y <=> j < l
    BY <1>9, <2>1, <2>2, <2>3 DEF Same
  <2> QED
    BY <2>4, <2>5
<1>10. Same(s, r, D3, I3)
  BY <1>3, <1>8, <1>9 DEF Same
<1> QED
  BY <1>10 DEF D3, I3

\* Moves that are all moves of others.
TakenFrom(rest, moves) ==
    /\ rest \in Seq(Pairs) /\ Apart(rest)
    /\ \A x \in DOMAIN rest : \E y \in DOMAIN moves : rest[x] = moves[y]

\* What is taken from moves taken from others is taken from those.
LEMMA TakenFromTaken ==
    ASSUME NEW rest, NEW some, NEW moves, TakenFrom(rest, some), TakenFrom(some, moves)
    PROVE  TakenFrom(rest, moves)
<1>1. ASSUME NEW x \in DOMAIN rest PROVE \E y \in DOMAIN moves : rest[x] = moves[y]
  <2>1. PICK z \in DOMAIN some : rest[x] = some[z]
    BY DEF TakenFrom
  <2>2. PICK y \in DOMAIN moves : some[z] = moves[y]
    BY DEF TakenFrom
  <2> QED
    BY <2>1, <2>2
<1> QED
  BY <1>1 DEF TakenFrom

\* One of the moves is taken out, the last one takes its place.
LEMMA TakenOutOfMoves ==
    ASSUME NEW q \in Seq(Pairs), Apart(q), NEW next \in DOMAIN q,
           NEW rest, rest = Seqs!Front([q EXCEPT ![next] = q[Len(q)]])
    PROVE  TakenFrom(rest, q)
<1> DEFINE N == Len(q)
           w == [q EXCEPT ![next] = q[N]]
           o == [x \in 1 .. N - 1 |-> IF x = next THEN N ELSE x]
<1>1. N \in Nat /\ DOMAIN q = 1 .. N /\ next \in 1 .. N /\ N \in 1 .. N
  OBVIOUS
<1>2. q[N] \in Pairs /\ q \in [1 .. N -> Pairs]
  BY <1>1
<1> HIDE DEF N
<1>3. w \in [1 .. N -> Pairs] /\ \A x \in 1 .. N : w[x] = IF x = next THEN q[N] ELSE q[x]
  BY <1>1, <1>2
<1>r. rest = Seqs!Front(w)
  BY DEF N
<1> HIDE DEF w
<1>4. w \in Seq(Pairs) /\ Len(w) = N
  BY <1>1, <1>3, TupleIsSeq
<1>5. rest = SubSeq(w, 1, N - 1)
  BY <1>r, <1>4 DEF Seqs!Front
<1>6. rest \in Seq(Pairs) /\ DOMAIN rest = 1 .. N - 1 /\ \A x \in 1 .. N - 1 : rest[x] = w[x]
  <2>1. \A x \in 1 .. N - 1 : w[x] \in Pairs
    BY <1>1, <1>3
  <2>2. /\ SubSeq(w, 1, N - 1) \in Seq(Pairs)
        /\ Len(SubSeq(w, 1, N - 1)) = IF 1 <= N - 1 THEN N - 1 - 1 + 1 ELSE 0
        /\ \A x \in 1 .. N - 1 - 1 + 1 : SubSeq(w, 1, N - 1)[x] = w[1 + x - 1]
    BY <1>1, <1>4, <2>1, SubSeqProperties
  <2>3. Len(rest) = N - 1
    BY <1>1, <1>5, <2>2
  <2>4. \A x \in 1 .. N - 1 : x \in 1 .. N - 1 - 1 + 1 /\ 1 + x - 1 = x
    BY <1>1
  <2>5. \A x \in 1 .. N - 1 : rest[x] = w[x]
    BY <1>5, <2>2, <2>4
  <2>6. rest \in Seq(Pairs)
    BY <1>5, <2>2
  <2>7. DOMAIN rest = 1 .. N - 1
    BY <2>3, <2>6
  <2> QED
    BY <2>5, <2>6, <2>7
<1>7. \A x \in 1 .. N - 1 : o[x] \in 1 .. N /\ rest[x] = q[o[x]]
  <2> TAKE x \in 1 .. N - 1
  <2>1. o[x] = IF x = next THEN N ELSE x
    OBVIOUS
  <2>2. x \in 1 .. N
    BY <1>1
  <2>3. rest[x] = IF x = next THEN q[N] ELSE q[x]
    BY <1>3, <1>6, <2>2
  <2> HIDE DEF o
  <2> QED
    BY <1>1, <2>1, <2>2, <2>3
<1>8. \A x, y \in 1 .. N - 1 : o[x] = o[y] => x = y
  BY <1>1
<1> HIDE DEF o
<1>9. Apart(rest)
  <2>1. \A x, y \in 1 .. N : q[x].from = q[y].from => x = y
    BY <1>1 DEF Apart
  <2>2. ASSUME NEW x \in 1 .. N - 1, NEW y \in 1 .. N - 1, rest[x].from = rest[y].from PROVE x = y
    <3>1. o[x] \in 1 .. N /\ o[y] \in 1 .. N /\ rest[x] = q[o[x]] /\ rest[y] = q[o[y]]
      BY <1>7
    <3>2. o[x] = o[y]
      BY <2>1, <2>2, <3>1, Zenon
    <3> QED
      BY <1>8, <3>2
  <2> QED
    BY <1>6, <2>2 DEF Apart
<1> QED
  BY <1>1, <1>6, <1>7, <1>9 DEF TakenFrom

\* The function UpdateOldMoves computes exists.
IsUpdated(b, c, N, f) ==
    f = [k \in 0 .. N |->
           IF k = 0 THEN [old |-> <<>>, new |-> c.moves, modified |-> c.modifications]
           ELSE UpdateOldMove(b, c, f[k - 1], b.moves[k])]
\* The function UpdateOldMoves computes exists.
LEMMA UpdatedExists ==
    ASSUME NEW b, NEW c, NEW N \in Nat
    PROVE  \E f : IsUpdated(b, c, N, f)
<1> DEFINE base == [old |-> <<>>, new |-> c.moves, modified |-> c.modifications]
<1> HIDE DEF base
<1> DEFINE E(f, n) == [k \in 0 .. n |-> IF k = 0 THEN base
                                        ELSE UpdateOldMove(b, c, f[k - 1], b.moves[k])]
           T == {n \in Nat : ~ \E f : f = E(f, n)}
<1>1. SUFFICES ASSUME T # {} PROVE FALSE
  <2>1. T = {} => N \notin T
    OBVIOUS
  <2>2. T = {} => \E f : f = E(f, N)
    BY <2>1
  <2> QED
    BY <2>2 DEF base, IsUpdated
<1>2. PICK n \in T : \A m \in T : n <= m
  <2>1. T \in SUBSET Nat
    OBVIOUS
  <2> HIDE DEF T
  <2> QED
    BY <1>1, <2>1, Least
<1>3. n # 0
  <2>1. ASSUME n = 0 PROVE \E f : f = E(f, n)
    <3> DEFINE g == [k \in 0 .. 0 |-> base]
    <3>1. g = E(g, n)
      BY <2>1
    <3> QED
      BY <3>1
  <2> QED
    BY <1>2, <2>1
<1>4. n - 1 \in Nat /\ n - 1 \notin T
  <2>1. n \in Nat
    OBVIOUS
  <2> HIDE DEF T
  <2> QED
    BY <1>2, <1>3, <2>1
<1>5. PICK f : f = E(f, n - 1)
  BY <1>4
<1> DEFINE g == [k \in 0 .. n |-> IF k = n THEN UpdateOldMove(b, c, f[n - 1], b.moves[n]) ELSE f[k]]
<1>6. ASSUME NEW k \in 0 .. n
      PROVE  g[k] = IF k = 0 THEN base ELSE UpdateOldMove(b, c, g[k - 1], b.moves[k])
  <2>1. CASE k = n
    <3>1. n - 1 \in 0 .. n /\ n - 1 # n
      BY <1>4
    <3>2. g[n - 1] = f[n - 1]
      BY <3>1
    <3> QED
      BY <1>3, <2>1, <3>2
  <2>2. CASE k # n
    <3>1. k \in 0 .. n - 1
      BY <1>4, <2>2
    <3>2. f[k] = IF k = 0 THEN base ELSE UpdateOldMove(b, c, f[k - 1], b.moves[k])
      BY <1>5, <3>1
    <3>3. k # 0 => k - 1 \in 0 .. n /\ k - 1 # n
      BY <1>4, <3>1
    <3>4. k # 0 => g[k - 1] = f[k - 1]
      BY <3>3
    <3>5. g[k] = f[k]
      BY <2>2
    <3> HIDE DEF g
    <3> QED
      BY <3>2, <3>4, <3>5
  <2> QED
    BY <2>1, <2>2
<1>7. g = [k \in 0 .. n |-> g[k]]
  OBVIOUS
<1> HIDE DEF g
<1>8. g = E(g, n)
  BY <1>6, <1>7
<1> QED
  BY <1>2, <1>8

\* After k of the old moves: the old moves lead from the first rows to the last ones,
\* the new moves that are left are moves of c.
OldMovesLead(s, r, D3, I3, b, k, old) ==
    /\ old \in Seq(Pairs)
    /\ \A x \in DOMAIN old : /\ Follows(s, r, D3, I3, old[x])
                             /\ old[x].from \in b.deletions
                             /\ \E l \in 1 .. k : old[x].from = b.moves[l].from
    /\ Apart(old)
Updating(s, r, D3, I3, b, c, k, acc) ==
    /\ DOMAIN acc = {"old", "new", "modified"}
    /\ OldMovesLead(s, r, D3, I3, b, k, acc.old)
    /\ TakenFrom(acc.new, c.moves)

\* The old moves with the one that has been brought up to date.
LEMMA OldMoveKept ==
    ASSUME NEW s, NEW r, NEW D3, NEW I3, NEW b, NEW c, NEW k \in Nat \ {0}, NEW acc,
           Updating(s, r, D3, I3, b, c, k - 1, acc),
           NEW m \in Pairs, m = b.moves[k], m.from \in b.deletions, m.from \in D3,
           \A l \in 1 .. k - 1 : b.moves[l].from # m.from,
           NEW to \in Nat, to \in I3, At(r, to) = At(s, m.from),
           NEW old, old = Append(acc.old, [m EXCEPT !.to = to])
    PROVE  OldMovesLead(s, r, D3, I3, b, k, old)
<1> DEFINE p == [m EXCEPT !.to = to]
           N == Len(acc.old)
<1>1. p \in Pairs /\ p.from = m.from /\ p.to = to
  BY DEF Pairs
<1>2. old = Append(acc.old, p)
  OBVIOUS
<1> HIDE DEF p
<1>3. acc.old \in Seq(Pairs) /\ N \in Nat /\ DOMAIN acc.old = 1 .. N
  BY DEF Updating, OldMovesLead
<1>4. /\ old \in Seq(Pairs) /\ DOMAIN old = 1 .. N + 1
      /\ old[N + 1] = p /\ \A x \in 1 .. N : old[x] = acc.old[x]
  BY <1>1, <1>2, <1>3
<1>5. \A x \in DOMAIN old : x \in 1 .. N \/ (x = N + 1 /\ old[x] = p)
  BY <1>3, <1>4
<1>k. k \in 1 .. k /\ \A l \in 1 .. k - 1 : l \in 1 .. k
  OBVIOUS
<1>6. Follows(s, r, D3, I3, p)
  BY <1>1 DEF Follows
<1>7. \A x \in DOMAIN acc.old : acc.old[x].from # m.from
  BY DEF Updating, OldMovesLead
<1> HIDE DEF N
<1>8. ASSUME NEW x \in DOMAIN old
      PROVE  /\ Follows(s, r, D3, I3, old[x])
             /\ old[x].from \in b.deletions
             /\ \E l \in 1 .. k : old[x].from = b.moves[l].from
  <2>1. CASE x \in 1 .. N
    BY <1>3, <1>4, <1>k, <2>1 DEF Updating, OldMovesLead
  <2>2. CASE old[x] = p
    BY <1>1, <1>6, <1>k, <2>2
  <2> QED
    BY <1>5, <2>1, <2>2
<1>9. Apart(old)
  BY <1>1, <1>3, <1>4, <1>5, <1>7 DEF Apart, Updating, OldMovesLead
<1> QED
  BY <1>4, <1>8, <1>9 DEF OldMovesLead

\* Updating one more old move.
LEMMA UpdatingStep ==
    ASSUME NEW s, RowList(s), NEW mid, RowList(mid), NEW r, RowList(r),
           NEW b, SoundBuilder(s, mid, b), NEW c, SoundBuilder(mid, r, c),
           NEW D3, D3 = MergedDeletions(b.deletions, b.insertions, c.deletions),
           NEW I3, I3 = MergedInsertions(b.insertions, c.deletions, c.insertions),
           NEW k \in 1 .. Len(b.moves), NEW acc, Updating(s, r, D3, I3, b, c, k - 1, acc)
    PROVE  Updating(s, r, D3, I3, b, c, k, UpdateOldMove(b, c, acc, b.moves[k]))
<1> DEFINE m == b.moves[k]
           again == {x \in DOMAIN acc.new : acc.new[x].from = m.to}
           next == Sets!Min(again)
           n == acc.new[next]
           e == UpdateOldMove(b, c, acc, m)
           to == Shift(c.insertions, Unshift(c.deletions, m.to))
<1>b. /\ Sound(s, mid, b.deletions, b.insertions, b.moves)
      /\ Same(s, mid, b.deletions, b.insertions) /\ b.moves \in Seq(Pairs) /\ Apart(b.moves)
  BY DEF SoundBuilder, Sound
<1>c. /\ Sound(mid, r, c.deletions, c.insertions, c.moves)
      /\ Same(mid, r, c.deletions, c.insertions) /\ c.moves \in Seq(Pairs) /\ Apart(c.moves)
  BY DEF SoundBuilder, Sound
<1>d. /\ D3 = b.deletions \cup {Before(b.deletions, b.insertions, i) : i \in c.deletions \ b.insertions}
      /\ I3 = c.insertions \cup {After(c.deletions, c.insertions, i) : i \in b.insertions \ c.deletions}
  BY MergedAre
<1>k. k \in Nat \ {0} /\ k \in DOMAIN b.moves /\ \A l \in 1 .. k - 1 : l \in DOMAIN b.moves /\ l # k
  BY <1>b
<1>m. /\ m \in Pairs /\ m.from \in b.deletions /\ m.to \in b.insertions /\ At(s, m.from) = At(mid, m.to)
      /\ m.from \in Nat /\ m.to \in Nat /\ m.from \in D3
  <2>1. m \in Pairs /\ m.from \in b.deletions /\ m.to \in b.insertions /\ At(s, m.from) = At(mid, m.to)
    BY <1>b, <1>k DEF Sound, Follows
  <2>2. m.from \in Nat /\ m.to \in Nat
    BY <2>1 DEF Pairs
  <2> QED
    BY <1>d, <2>1, <2>2
<1>l. \A l \in 1 .. k - 1 : b.moves[l].from # m.from
  BY <1>k, <1>b DEF Apart
<1>u. /\ DOMAIN acc = {"old", "new", "modified"} /\ acc.old \in Seq(Pairs)
      /\ acc.new \in Seq(Pairs) /\ Apart(acc.new)
      /\ \A x \in DOMAIN acc.new : \E y \in DOMAIN c.moves : acc.new[x] = c.moves[y]
  BY DEF Updating, TakenFrom, OldMovesLead
<1>y. m = b.moves[k]
  OBVIOUS
<1> HIDE DEF m
<1>1. CASE again # {}
  <2>1. next \in DOMAIN acc.new /\ n.from = m.to
    <3>1. again \in SUBSET Nat
      BY <1>u
    <3>2. next \in again
      <4> HIDE DEF again
      <4> QED
        BY <1>1, <3>1, Smallest
    <3> QED
      BY <3>2
  <2>2. /\ e.old = Append(acc.old, [m EXCEPT !.to = n.to])
        /\ e.new = Seqs!Front([acc.new EXCEPT ![next] = acc.new[Len(acc.new)]])
        /\ DOMAIN e = {"old", "new", "modified"}
    BY <1>1 DEF UpdateOldMove
  <2>3. n.to \in Nat /\ n.to \in c.insertions /\ At(mid, n.from) = At(r, n.to)
    <3>1. PICK y \in DOMAIN c.moves : n = c.moves[y]
      BY <1>u, <2>1
    <3>2. n \in Pairs /\ Follows(mid, r, c.deletions, c.insertions, n)
      BY <1>c, <3>1 DEF Sound
    <3> QED
      BY <3>2 DEF Follows, Pairs
  <2> HIDE DEF n, next, again, e
  <2>4. n.to \in I3 /\ At(r, n.to) = At(s, m.from)
    BY <1>d, <1>m, <2>1, <2>3
  <2>5. OldMovesLead(s, r, D3, I3, b, k, e.old)
    BY <1>k, <1>l, <1>m, <1>y, <2>2, <2>3, <2>4, OldMoveKept
  <2>6. TakenFrom(e.new, acc.new)
    BY <1>u, <2>1, <2>2, TakenOutOfMoves
  <2>7. TakenFrom(e.new, c.moves)
    <3>1. TakenFrom(acc.new, c.moves)
      BY DEF Updating
    <3> QED
      BY <2>6, <3>1, TakenFromTaken
  <2>8. Updating(s, r, D3, I3, b, c, k, e)
    BY <2>2, <2>5, <2>6, <2>7 DEF Updating
  <2> QED
    BY <2>8 DEF e, m
<1>2. CASE again = {} /\ m.to \in c.deletions
  <2>1. e = acc
    BY <1>2 DEF UpdateOldMove
  <2>2. \A l \in 1 .. k - 1 : l \in 1 .. k
    BY <1>k
  <2> HIDE DEF e
  <2>3. Updating(s, r, D3, I3, b, c, k, acc)
    BY <2>2 DEF Updating, OldMovesLead
  <2> QED
    BY <2>1, <2>3 DEF e, m
<1>3. CASE again = {} /\ m.to \notin c.deletions
  <2>1. e = [acc EXCEPT !.old = Append(@, [m EXCEPT !.to = Shift(c.insertions, Unshift(c.deletions, @))])]
    BY <1>3 DEF UpdateOldMove
  <2>2. /\ e.old = Append(acc.old, [m EXCEPT !.to = to]) /\ e.new = acc.new
        /\ DOMAIN e = {"old", "new", "modified"}
    <3>1. [m EXCEPT !.to = Shift(c.insertions, Unshift(c.deletions, @))] = [m EXCEPT !.to = to]
      OBVIOUS
    <3> HIDE DEF to, e
    <3> QED
      BY <1>u, <2>1, <3>1
  <2>3. to = After(c.deletions, c.insertions, m.to)
    BY DEF After
  <2> HIDE DEF to, e
  <2>i. b.insertions \subseteq Positions(mid) /\ c.insertions \subseteq Positions(r)
    BY <1>b, <1>c DEF Same
  <2>4. to \in Positions(r) /\ At(r, to) = At(mid, m.to)
    BY <1>3, <1>c, <1>m, <2>3, <2>i, AfterIs
  <2>5. to \in Nat /\ to \in I3 /\ At(r, to) = At(s, m.from)
    <3>1. to \in I3
      BY <1>3, <1>d, <1>m, <2>3
    <3>2. r \in Seq(Nat)
      BY DEF RowList
    <3> QED
      BY <1>m, <2>4, <3>1, <3>2, PositionsAre
  <2>6. OldMovesLead(s, r, D3, I3, b, k, e.old)
    BY <1>k, <1>l, <1>m, <1>y, <2>2, <2>5, OldMoveKept
  <2>7. Updating(s, r, D3, I3, b, c, k, e)
    BY <2>2, <2>6 DEF Updating
  <2> QED
    BY <2>7 DEF e, m
<1> QED
  BY <1>1, <1>2, <1>3

\* Where a row of the changes b is according to the changes c after them: it is left, or
\* it has been moved.
MovesFrom(c, p, i) == \E y \in DOMAIN c.moves : c.moves[y].from = p /\ c.moves[y].to = i
Leads(c, p, i) ==
    \/ p \notin c.deletions /\ i = After(c.deletions, c.insertions, p)
    \/ MovesFrom(c, p, i)

\* What the updated moves know of modifications: those of c, and those of b whose rows c moves.
\* An old move leads on from where it has led before.
Marking(b, c, acc) ==
    /\ c.modifications \subseteq acc.modified
    /\ \A t \in acc.modified : \/ t \in c.modifications
                               \/ \E p \in b.modifications : MovesFrom(c, p, t)
    /\ \A x \in DOMAIN acc.old : \E l \in DOMAIN b.moves :
          /\ Leads(c, b.moves[l].to, acc.old[x].to)
          /\ b.moves[l].to \in b.modifications \cap c.deletions => acc.old[x].to \in acc.modified

\* Updating one more old move keeps track of the modifications.
LEMMA MarkingStep ==
    ASSUME NEW b, b.moves \in Seq(Pairs), NEW c, NEW k \in DOMAIN b.moves,
           NEW acc, DOMAIN acc = {"old", "new", "modified"}, acc.old \in Seq(Pairs),
           TakenFrom(acc.new, c.moves), c.moves \in Seq(Pairs), Marking(b, c, acc)
    PROVE  Marking(b, c, UpdateOldMove(b, c, acc, b.moves[k]))
<1> DEFINE m == b.moves[k]
           again == {x \in DOMAIN acc.new : acc.new[x].from = m.to}
           next == Sets!Min(again)
           n == acc.new[next]
           e == UpdateOldMove(b, c, acc, m)
           to == Shift(c.insertions, Unshift(c.deletions, m.to))
<1>m. m = b.moves[k] /\ m \in Pairs
  OBVIOUS
<1>a. ASSUME NEW t, NEW x \in DOMAIN Append(acc.old, [m EXCEPT !.to = t])
      PROVE  \/ x \in DOMAIN acc.old /\ Append(acc.old, [m EXCEPT !.to = t])[x] = acc.old[x]
             \/ Append(acc.old, [m EXCEPT !.to = t])[x].to = t
  <2> DEFINE q == [m EXCEPT !.to = t]
             w == Append(acc.old, q)
  <2>1. q.to = t
    BY <1>m DEF Pairs
  <2> HIDE DEF q, m
  <2>2. Len(w) = Len(acc.old) + 1 /\ DOMAIN w = 1 .. Len(w) /\ Len(acc.old) \in Nat
    OBVIOUS
  <2>3. x \in 1 .. Len(acc.old) \/ x = Len(acc.old) + 1
    BY <2>2 DEF q
  <2>4. (x \in 1 .. Len(acc.old) => w[x] = acc.old[x]) /\ (x = Len(acc.old) + 1 => w[x] = q)
    OBVIOUS
  <2> QED
    BY <2>1, <2>3, <2>4 DEF q
<1>y. again \in SUBSET Nat /\ again \subseteq DOMAIN acc.new
  BY DEF TakenFrom
<1> HIDE DEF m
<1>1. CASE again # {}
  <2>1. next \in DOMAIN acc.new /\ n.from = m.to
    <3>2. next \in again
      <4> HIDE DEF again
      <4> QED
        BY <1>1, <1>y, Smallest
    <3> QED
      BY <3>2
  <2>2. /\ e.old = Append(acc.old, [m EXCEPT !.to = n.to])
        /\ e.modified = acc.modified \cup IF n.from \in b.modifications THEN {n.to} ELSE {}
    BY <1>1 DEF UpdateOldMove
  <2> HIDE DEF next, again, e
  <2>3. MovesFrom(c, m.to, n.to)
    BY <2>1 DEF TakenFrom, MovesFrom
  <2> DEFINE t == n.to
  <2>4. /\ e.old = Append(acc.old, [m EXCEPT !.to = t]) /\ MovesFrom(c, m.to, t)
        /\ e.modified = acc.modified \cup IF m.to \in b.modifications THEN {t} ELSE {}
    BY <2>1, <2>2, <2>3
  <2> HIDE DEF t, n
  <2>5. c.modifications \subseteq e.modified
    BY <2>4 DEF Marking
  <2>6. \A z \in e.modified : z \in c.modifications \/ \E p \in b.modifications : MovesFrom(c, p, z)
    BY <2>4 DEF Marking
  <2>7. ASSUME NEW x \in DOMAIN e.old
        PROVE  \E l \in DOMAIN b.moves :
                  /\ Leads(c, b.moves[l].to, e.old[x].to)
                  /\ b.moves[l].to \in b.modifications \cap c.deletions => e.old[x].to \in e.modified
    <3>1. CASE x \in DOMAIN acc.old /\ e.old[x] = acc.old[x]
      BY <2>4, <3>1 DEF Marking
    <3>2. CASE e.old[x].to = t
      BY <1>m, <2>4, <3>2 DEF Leads
    <3> QED
      BY <1>a, <2>4, <3>1, <3>2
  <2> QED
    BY <2>5, <2>6, <2>7 DEF Marking, e, m
<1>2. CASE again = {} /\ m.to \in c.deletions
  <2>1. e = acc
    BY <1>2 DEF UpdateOldMove
  <2> QED
    BY <2>1 DEF e, m
<1>3. CASE again = {} /\ m.to \notin c.deletions
  <2>1. e = [acc EXCEPT !.old = Append(@, [m EXCEPT !.to = Shift(c.insertions, Unshift(c.deletions, @))])]
    BY <1>3 DEF UpdateOldMove
  <2>2. e.old = Append(acc.old, [m EXCEPT !.to = to]) /\ e.modified = acc.modified
    <3>1. [m EXCEPT !.to = Shift(c.insertions, Unshift(c.deletions, @))] = [m EXCEPT !.to = to]
      OBVIOUS
    <3> HIDE DEF to, e
    <3> QED
      BY <2>1, <3>1
  <2>3. Leads(c, m.to, to)
    BY <1>3 DEF Leads, After
  <2> HIDE DEF to, e, again
  <2>7. ASSUME NEW x \in DOMAIN e.old
        PROVE  \E l \in DOMAIN b.moves :
                  /\ Leads(c, b.moves[l].to, e.old[x].to)
                  /\ b.moves[l].to \in b.modifications \cap c.deletions => e.old[x].to \in e.modified
    <3>1. CASE x \in DOMAIN acc.old /\ e.old[x] = acc.old[x]
      BY <2>2, <3>1 DEF Marking
    <3>2. CASE e.old[x].to = to
      BY <1>m, <1>3, <2>3, <3>2
    <3> QED
      BY <1>a, <2>2, <3>1, <3>2
  <2> QED
    BY <2>2, <2>7 DEF Marking, e, m
<1> QED
  BY <1>1, <1>2, <1>3

\* UpdateOldMoves leaves old moves that lead to where their rows are now, and new
\* moves of other rows.
LEMMA UpdatedSound ==
    ASSUME NEW s, RowList(s), NEW mid, RowList(mid), NEW r, RowList(r),
           NEW b, SoundBuilder(s, mid, b), NEW c, SoundBuilder(mid, r, c),
           NEW D3, D3 = MergedDeletions(b.deletions, b.insertions, c.deletions),
           NEW I3, I3 = MergedInsertions(b.insertions, c.deletions, c.insertions)
    PROVE  /\ Updating(s, r, D3, I3, b, c, Len(b.moves), UpdateOldMoves(b, c))
           /\ Marking(b, c, UpdateOldMoves(b, c))
<1> DEFINE N == Len(b.moves)
           updated == CHOOSE f : IsUpdated(b, c, N, f)
           T == {n \in 0 .. N : ~ (/\ Updating(s, r, D3, I3, b, c, n, updated[n])
                                  /\ Marking(b, c, updated[n]))}
<1>1. /\ N \in Nat /\ c.moves \in Seq(Pairs) /\ Apart(c.moves)
      /\ b.moves \in Seq(Pairs) /\ DOMAIN b.moves = 1 .. N
  BY DEF SoundBuilder, Sound
<1>2. updated = [k \in 0 .. N |->
                   IF k = 0 THEN [old |-> <<>>, new |-> c.moves, modified |-> c.modifications]
                   ELSE UpdateOldMove(b, c, updated[k - 1], b.moves[k])]
  <2> HIDE DEF N
  <2>1. IsUpdated(b, c, N, updated)
    BY <1>1, UpdatedExists
  <2> HIDE DEF updated
  <2> QED
    BY <2>1 DEF IsUpdated
<1>3. UpdateOldMoves(b, c) = updated[N]
  BY DEF UpdateOldMoves, IsUpdated
<1> HIDE DEF updated
<1>4. Updating(s, r, D3, I3, b, c, 0, updated[0]) /\ Marking(b, c, updated[0])
  <2>1. updated[0] = [old |-> <<>>, new |-> c.moves, modified |-> c.modifications]
    BY <1>1, <1>2
  <2>2. /\ DOMAIN updated[0] = {"old", "new", "modified"}
        /\ updated[0].old = <<>> /\ updated[0].new = c.moves
        /\ updated[0].modified = c.modifications
    BY <2>1
  <2>3. Updating(s, r, D3, I3, b, c, 0, updated[0])
    BY <1>1, <2>2 DEF Updating, OldMovesLead, TakenFrom, Apart
  <2>4. Marking(b, c, updated[0])
    BY <2>2 DEF Marking
  <2> QED
    BY <2>3, <2>4
<1>5. T = {}
  <2> SUFFICES ASSUME T # {} PROVE FALSE
    OBVIOUS
  <2>1. PICK n \in T : \A m \in T : n <= m
    <3>1. T \in SUBSET Nat
      BY <1>1
    <3> HIDE DEF T
    <3> QED
      BY <3>1, Least
  <2>2. n \in 0 .. N /\ n # 0
    BY <1>4, <2>1
  <2>3. n \in 1 .. N /\ n - 1 \in 0 .. N /\ n - 1 \notin T
    BY <1>1, <2>1, <2>2
  <2>4. Updating(s, r, D3, I3, b, c, n - 1, updated[n - 1]) /\ Marking(b, c, updated[n - 1])
    BY <2>3
  <2>5. updated[n] = UpdateOldMove(b, c, updated[n - 1], b.moves[n])
    BY <1>1, <1>2, <2>2
  <2>6. Updating(s, r, D3, I3, b, c, n, updated[n])
    BY <2>3, <2>4, <2>5, UpdatingStep
  <2>7. Marking(b, c, updated[n])
    <3>1. n \in DOMAIN b.moves
      BY <1>1, <2>3
    <3>2. /\ DOMAIN updated[n - 1] = {"old", "new", "modified"} /\ updated[n - 1].old \in Seq(Pairs)
          /\ TakenFrom(updated[n - 1].new, c.moves)
      BY <2>4 DEF Updating, OldMovesLead
    <3> QED
      BY <1>1, <2>4, <2>5, <3>1, <3>2, MarkingStep
  <2> QED
    BY <2>1, <2>6, <2>7
<1>6. Updating(s, r, D3, I3, b, c, N, updated[N]) /\ Marking(b, c, updated[N])
  BY <1>1, <1>5
<1> QED
  BY <1>3, <1>6

NewMovesAre(s, r, D3, I3, D, out) ==
    /\ out \in Seq(Pairs) /\ Apart(out)
    /\ \A k \in DOMAIN out : Follows(s, r, D3, I3, out[k]) /\ out[k].from \notin D

\* The new moves that are left, from where their rows were first.
LEMMA NewMovesLead ==
    ASSUME NEW s, RowList(s), NEW mid, RowList(mid), NEW r, RowList(r),
           NEW D, NEW I, Same(s, mid, D, I), NEW D2, NEW I2, NEW moves, Sound(mid, r, D2, I2, moves),
           NEW D3, D3 = MergedDeletions(D, I, D2), NEW I3, I3 = MergedInsertions(I, D2, I2),
           NEW rest, TakenFrom(rest, moves),
           NEW ofOldRows, ofOldRows = Without(rest, {k \in Positions(rest) : At(rest, k).from \in I}),
           NEW out, out = [k \in DOMAIN ofOldRows |->
                             [ofOldRows[k] EXCEPT !.from = Shift(D, Unshift(I, @))]]
    PROVE  NewMovesAre(s, r, D3, I3, D, out)
<1> DEFINE P == {k \in Positions(rest) : At(rest, k).from \in I}
           w == Without(rest, P)
<1>1. rest \in Seq(Pairs) /\ P \subseteq Positions(rest)
      /\ \A i \in Positions(rest) \ P : At(rest, i).from \notin I
  BY DEF TakenFrom
<1>w. w = ofOldRows
  OBVIOUS
<1> HIDE DEF P
<1>s. Sound(mid, r, D2, I2, rest)
  BY DEF Sound, TakenFrom
<1>2. Sound(mid, r, D2, I2, w)
  BY <1>1, <1>s, MovesTakenOut
<1>3. /\ w \in Seq(Pairs)
      /\ \A k \in Positions(w) : Shift(P, k) \in Positions(rest) \ P /\ At(w, k) = At(rest, Shift(P, k))
  BY <1>1, WithoutIs
<1> HIDE DEF w
<1>4. \A k \in DOMAIN w : k - 1 \in Positions(w) /\ At(w, k - 1) = w[k]
  BY <1>3 DEF Positions, At
<1>5. \A k \in DOMAIN w : /\ w[k] \in Pairs /\ w[k].from \in D2 \ I /\ w[k].to \in I2
                          /\ At(mid, w[k].from) = At(r, w[k].to)
  <2> TAKE k \in DOMAIN w
  <2>1. w[k] \in Pairs /\ w[k].from \in D2 /\ w[k].to \in I2 /\ At(mid, w[k].from) = At(r, w[k].to)
    BY <1>2 DEF Sound, Follows
  <2>2. w[k].from \notin I
    BY <1>1, <1>3, <1>4
  <2> QED
    BY <2>1, <2>2
<1>d. /\ D3 = D \cup {Before(D, I, i) : i \in D2 \ I}
      /\ I3 = I2 \cup {After(D2, I2, i) : i \in I \ D2}
  BY MergedAre
<1>m. D2 \subseteq Positions(mid)
  BY DEF Sound, Same
<1>6. \A i \in D2 \ I : /\ Before(D, I, i) \in Nat /\ Before(D, I, i) \notin D /\ Before(D, I, i) \in D3
                        /\ At(s, Before(D, I, i)) = At(mid, i)
  <2> TAKE i \in D2 \ I
  <2>1. Before(D, I, i) \in Positions(s) \ D /\ At(s, Before(D, I, i)) = At(mid, i)
    BY <1>m, BeforeIs
  <2>2. s \in Seq(Nat)
    BY DEF RowList
  <2> QED
    BY <1>d, <2>1, <2>2, PositionsAre
<1>7. \A k \in DOMAIN w : /\ out[k] \in Pairs /\ out[k].to = w[k].to
                          /\ out[k].from = Before(D, I, w[k].from)
  <2> TAKE k \in DOMAIN w
  <2> DEFINE f == Before(D, I, w[k].from)
  <2>1. out[k] = [w[k] EXCEPT !.from = f]
    BY <1>w DEF Before
  <2>2. f \in Nat /\ w[k] \in Pairs
    BY <1>5, <1>6
  <2> HIDE DEF f
  <2>3. out[k] \in Pairs /\ out[k].to = w[k].to /\ out[k].from = f
    BY <2>1, <2>2 DEF Pairs
  <2> QED
    BY <2>3 DEF f
<1>8. DOMAIN out = DOMAIN w
  BY <1>w
<1>o. out = [k \in DOMAIN w |-> out[k]]
  BY <1>w, <1>8
<1>9. out \in Seq(Pairs)
  <2> DEFINE n == Len(w)
  <2>1. n \in Nat /\ DOMAIN w = 1 .. n
    BY <1>3
  <2>2. out \in [1 .. n -> Pairs]
    BY <1>7, <1>o, <2>1
  <2> HIDE DEF n
  <2> QED
    BY <2>1, <2>2, TupleIsSeq
<1>10. ASSUME NEW k \in DOMAIN w PROVE Follows(s, r, D3, I3, out[k]) /\ out[k].from \notin D
  <2>1. /\ out[k].from \in D3 /\ out[k].from \notin D
        /\ At(s, out[k].from) = At(mid, w[k].from)
    BY <1>5, <1>6, <1>7
  <2>2. out[k].to \in I3 /\ At(r, out[k].to) = At(mid, w[k].from)
    BY <1>5, <1>7, <1>d
  <2> QED
    BY <2>1, <2>2 DEF Follows
<1>11. ASSUME NEW k \in DOMAIN w, NEW l \in DOMAIN w, out[k].from = out[l].from PROVE k = l
  <2>1. At(mid, w[k].from) = At(mid, w[l].from)
    <3>1. Before(D, I, w[k].from) = Before(D, I, w[l].from)
      BY <1>7, <1>11, Zenon
    <3>2. /\ At(s, Before(D, I, w[k].from)) = At(mid, w[k].from)
          /\ At(s, Before(D, I, w[l].from)) = At(mid, w[l].from)
      BY <1>5, <1>6, Zenon
    <3> QED
      BY <3>1, <3>2, Zenon
  <2>2. w[k].from = w[l].from
    BY <1>5, <1>m, <2>1 DEF RowList
  <2> QED
    BY <1>2, <2>2 DEF Sound, Apart
<1> QED
  BY <1>8, <1>9, <1>10, <1>11 DEF Apart, NewMovesAre

\* Moves after moves.
LEMMA MovesJoined ==
    ASSUME NEW s, NEW r, NEW D3, NEW I3, Same(s, r, D3, I3), NEW D, NEW p \in Seq(Pairs), NEW q \in Seq(Pairs),
           \A k \in DOMAIN p : Follows(s, r, D3, I3, p[k]) /\ p[k].from \in D,
           \A k \in DOMAIN q : Follows(s, r, D3, I3, q[k]) /\ q[k].from \notin D,
           Apart(p), Apart(q)
    PROVE  Sound(s, r, D3, I3, p \o q)
<1> DEFINE w == p \o q
<1>1. /\ w \in Seq(Pairs) /\ Len(w) = Len(p) + Len(q)
      /\ \A k \in 1 .. Len(p) + Len(q) : w[k] = IF k <= Len(p) THEN p[k] ELSE q[k - Len(p)]
  BY ConcatProperties
<1>2. Len(p) \in Nat /\ Len(q) \in Nat /\ DOMAIN p = 1 .. Len(p) /\ DOMAIN q = 1 .. Len(q)
  OBVIOUS
<1> HIDE DEF w
<1>3. DOMAIN w = 1 .. Len(p) + Len(q)
  BY <1>1, <1>2
<1>4. \A k \in DOMAIN w : \/ k \in DOMAIN p /\ w[k] = p[k]
                          \/ k - Len(p) \in DOMAIN q /\ w[k] = q[k - Len(p)]
  <2> TAKE k \in DOMAIN w
  <2>1. k \in 1 .. Len(p) + Len(q) /\ k \in Nat
    BY <1>2, <1>3
  <2>2. CASE k <= Len(p)
    BY <1>1, <1>2, <2>1, <2>2
  <2>3. CASE ~(k <= Len(p))
    <3>1. k - Len(p) \in 1 .. Len(q)
      BY <1>2, <2>1, <2>3
    <3> QED
      BY <1>1, <1>2, <2>1, <2>3, <3>1
  <2> QED
    BY <2>2, <2>3
<1>5. \A k \in DOMAIN w : Follows(s, r, D3, I3, w[k])
  BY <1>4
<1>6. ASSUME NEW k \in DOMAIN w, NEW l \in DOMAIN w, w[k].from = w[l].from PROVE k = l
  <2>n. k \in Nat /\ l \in Nat
    BY <1>2, <1>3
  <2>1. CASE k \in DOMAIN p /\ w[k] = p[k] /\ l \in DOMAIN p /\ w[l] = p[l]
    BY <1>6, <2>1 DEF Apart
  <2>2. CASE k - Len(p) \in DOMAIN q /\ w[k] = q[k - Len(p)] /\ l - Len(p) \in DOMAIN q /\ w[l] = q[l - Len(p)]
    <3>1. k - Len(p) = l - Len(p)
      BY <1>6, <2>2 DEF Apart
    <3> QED
      BY <1>2, <2>n, <3>1
  <2>3. CASE k \in DOMAIN p /\ w[k] = p[k] /\ l - Len(p) \in DOMAIN q /\ w[l] = q[l - Len(p)]
    BY <1>6, <2>3
  <2>4. CASE l \in DOMAIN p /\ w[l] = p[l] /\ k - Len(p) \in DOMAIN q /\ w[k] = q[k - Len(p)]
    BY <1>6, <2>4
  <2> QED
    BY <1>4, <2>1, <2>2, <2>3, <2>4
<1>7. Apart(w)
  BY <1>6 DEF Apart
<1> QED
  BY <1>1, <1>5, <1>7 DEF Sound, w

\* The new moves that are left are moves of c of rows that b has not inserted.
OldRowsMoved(moves, I, w) ==
    /\ w \in Seq(Pairs) /\ Elements(w) = {w[k] : k \in DOMAIN w}
    /\ \A k \in DOMAIN w : w[k].from \notin I /\ \E y \in DOMAIN moves : w[k] = moves[y]
\* So does MergeBuilders.
LEMMA OfOldRowsAre ==
    ASSUME NEW moves, NEW rest, TakenFrom(rest, moves), NEW I,
           NEW w, w = Without(rest, {k \in Positions(rest) : At(rest, k).from \in I})
    PROVE  OldRowsMoved(moves, I, w)
<1> DEFINE P == {k \in Positions(rest) : At(rest, k).from \in I}
<1>1. rest \in Seq(Pairs) /\ P \subseteq Positions(rest)
      /\ \A i \in Positions(rest) \ P : At(rest, i).from \notin I
  BY DEF TakenFrom
<1>w. w = Without(rest, P)
  OBVIOUS
<1> HIDE DEF P
<1> DEFINE v == Without(rest, P)
<1>v. /\ v \in Seq(Pairs)
      /\ \A k \in Positions(v) : Shift(P, k) \in Positions(rest) \ P /\ At(v, k) = At(rest, Shift(P, k))
  BY <1>1, WithoutIs
<1>2. /\ w \in Seq(Pairs)
      /\ \A k \in Positions(w) : Shift(P, k) \in Positions(rest) \ P /\ At(w, k) = At(rest, Shift(P, k))
  <2>1. w = v
    BY <1>w
  <2> HIDE DEF v
  <2> QED
    BY <1>v, <2>1
<1> HIDE DEF v
<1>3. \A i \in Positions(rest) : \E x \in DOMAIN rest : At(rest, i) = rest[x]
  <2> TAKE i \in Positions(rest)
  <2>1. i + 1 \in DOMAIN rest
    BY <1>1 DEF Positions
  <2> QED
    BY <2>1 DEF At
<1>4. ASSUME NEW k \in DOMAIN w
      PROVE  w[k].from \notin I /\ \E y \in DOMAIN moves : w[k] = moves[y]
  <2>1. k - 1 \in Positions(w) /\ At(w, k - 1) = w[k]
    BY <1>2 DEF Positions, At
  <2>2. PICK i \in Positions(rest) \ P : w[k] = At(rest, i)
    BY <1>2, <2>1
  <2>3. PICK x \in DOMAIN rest : w[k] = rest[x]
    BY <1>3, <2>2
  <2>4. \E y \in DOMAIN moves : w[k] = moves[y]
    BY <2>3 DEF TakenFrom
  <2> QED
    BY <1>1, <2>2, <2>4
<1> QED
  BY <1>2, <1>4 DEF Elements, OldRowsMoved

\* The merged changes e, and what is cleaned up in them.
MergedFrom(s, mid, r, b, c, all, e) ==
    /\ SoundBuilder(s, r, all)
    /\ all.insertions = MergedInsertions(b.insertions, c.deletions, c.insertions)
    /\ IsBuilder(e) /\ e.deletions = CleanUpStaleMoves(all).deletions
    /\ e.insertions = CleanUpStaleMoves(all).insertions /\ e.moves = CleanUpStaleMoves(all).moves
    /\ c.modifications \subseteq e.modifications
    /\ \A p \in b.modifications \ c.deletions :
          After(c.deletions, c.insertions, p) \in e.modifications
    /\ \A i \in e.modifications : \/ i \in c.modifications
                                  \/ \E p \in b.modifications : Leads(c, p, i)
    /\ \A x \in DOMAIN all.moves : \E p \in Positions(mid) :
          /\ Exact(b, p) /\ Leads(c, p, all.moves[x].to)
          /\ p \in b.modifications \cap c.deletions => all.moves[x].to \in e.modifications

\* What Merge makes of changes that say something.
LEMMA MergeIs ==
    ASSUME NEW s, RowList(s), NEW mid, RowList(mid), NEW r, RowList(r),
           NEW b, SoundBuilder(s, mid, b), NEW c, SoundBuilder(mid, r, c),
           c # Nothing, b # Nothing
    PROVE  \E all : MergedFrom(s, mid, r, b, c, all, Merge(b, c))
<1> DEFINE D3 == MergedDeletions(b.deletions, b.insertions, c.deletions)
           I3 == MergedInsertions(b.insertions, c.deletions, c.insertions)
           updated == UpdateOldMoves(b, c)
           ofOldRows == Without(updated.new, {k \in Positions(updated.new) :
                                                At(updated.new, k).from \in b.insertions})
           moves == [k \in DOMAIN ofOldRows |->
                       [ofOldRows[k] EXCEPT !.from = Shift(b.deletions, Unshift(b.insertions, @))]]
           all == [deletions |-> D3, insertions |-> I3, modifications |-> b.modifications,
                   moves |-> updated.old \o moves]
           cleaned == CleanUpStaleMoves(all)
           e == MergeBuilders(b, c)
           followed == ShiftForInsertAll(EraseAll(cleaned.modifications, c.deletions), c.insertions)
           again == {m.to : m \in {n \in Elements(ofOldRows) : n.from \in b.modifications}}
           mods == followed \cup (updated.modified \cup again)
<1>1. Updating(s, r, D3, I3, b, c, Len(b.moves), updated) /\ Marking(b, c, updated)
  <2>1. Updating(s, r, D3, I3, b, c, Len(b.moves), updated)
    BY UpdatedSound
  <2>2. Marking(b, c, updated)
    BY UpdatedSound
  <2> QED
    BY <2>1, <2>2
<1>2. /\ updated.old \in Seq(Pairs) /\ Apart(updated.old)
      /\ \A k \in DOMAIN updated.old : /\ Follows(s, r, D3, I3, updated.old[k])
                                       /\ updated.old[k].from \in b.deletions
      /\ TakenFrom(updated.new, c.moves)
  BY <1>1 DEF Updating, OldMovesLead
<1>b. /\ Same(s, mid, b.deletions, b.insertions)
      /\ \A l \in DOMAIN b.moves : Exact(b, b.moves[l].to) /\ b.moves[l].to \in Positions(mid)
  BY DEF SoundBuilder, Sound, Exact, Same, Follows
<1>c. Sound(mid, r, c.deletions, c.insertions, c.moves) /\ Same(mid, r, c.deletions, c.insertions)
      /\ \A y \in DOMAIN c.moves : c.moves[y].from \in Positions(mid)
  BY DEF SoundBuilder, Sound, Same, Follows
<1>3. Same(s, r, D3, I3)
  BY <1>b, <1>c, Composed
<1>e. /\ DOMAIN cleaned = {"deletions", "insertions", "modifications", "moves"}
         => /\ DOMAIN e = {"deletions", "insertions", "modifications", "moves"}
            /\ e.deletions = cleaned.deletions /\ e.insertions = cleaned.insertions
            /\ e.moves = cleaned.moves /\ e.modifications = mods
  <2>1. e = [cleaned EXCEPT !.modifications = mods]
    BY DEF MergeBuilders, MergedDeletions, MergedInsertions
  <2> HIDE DEF mods, cleaned, e
  <2> QED
    BY <2>1
<1>a. /\ all.deletions = D3 /\ all.insertions = I3 /\ all.moves = updated.old \o moves /\ IsBuilder(all)
      /\ all.modifications = b.modifications
  BY DEF IsBuilder
<1>o. ofOldRows = Without(updated.new, {k \in Positions(updated.new) :
                                          At(updated.new, k).from \in b.insertions})
  OBVIOUS
<1>m. moves = [k \in DOMAIN ofOldRows |->
                 [ofOldRows[k] EXCEPT !.from = Shift(b.deletions, Unshift(b.insertions, @))]]
  OBVIOUS
<1>d. D3 = MergedDeletions(b.deletions, b.insertions, c.deletions)
      /\ I3 = MergedInsertions(b.insertions, c.deletions, c.insertions)
  OBVIOUS
<1>f. /\ mods = followed \cup (updated.modified \cup again)
      /\ followed = ShiftForInsertAll(EraseAll(cleaned.modifications, c.deletions), c.insertions)
      /\ again = {m.to : m \in {n \in Elements(ofOldRows) : n.from \in b.modifications}}
  OBVIOUS
<1>g. cleaned = CleanUpStaleMoves(all) /\ Merge(b, c) = e
  BY DEF Merge
<1> HIDE DEF D3, I3, updated, ofOldRows, moves, all, e, cleaned, followed, again, mods
<1>4. NewMovesAre(s, r, D3, I3, b.deletions, moves)
  BY <1>2, <1>b, <1>c, <1>o, <1>m, <1>d, NewMovesLead
<1>5. Sound(s, r, D3, I3, updated.old \o moves)
  BY <1>2, <1>3, <1>4, MovesJoined DEF NewMovesAre
<1>6. SoundBuilder(s, r, all)
  BY <1>a, <1>5 DEF SoundBuilder
<1>7. SoundBuilder(s, r, cleaned) /\ cleaned.modifications = b.modifications
  BY <1>6, <1>a, <1>g, CleanSound, CleanExact
<1>8. /\ IsBuilder(e) /\ e.deletions = cleaned.deletions /\ e.insertions = cleaned.insertions
      /\ e.moves = cleaned.moves /\ e.modifications = mods
  BY <1>7, <1>e DEF SoundBuilder, IsBuilder
<1>9. followed = {After(c.deletions, c.insertions, p) : p \in b.modifications \ c.deletions}
  <2>1. followed = {Shift(c.insertions, x) :
                      x \in {Unshift(c.deletions, p) : p \in b.modifications \ c.deletions}}
    BY <1>f, <1>7 DEF ShiftForInsertAll, EraseAll
  <2> QED
    BY <2>1 DEF After
<1>10. /\ DOMAIN moves = DOMAIN ofOldRows
       /\ Elements(ofOldRows) = {ofOldRows[k] : k \in DOMAIN ofOldRows}
       /\ \A k \in DOMAIN ofOldRows : /\ ofOldRows[k].from \notin b.insertions
                                      /\ moves[k].to = ofOldRows[k].to
                                      /\ \E y \in DOMAIN c.moves : ofOldRows[k] = c.moves[y]
  <2>1. OldRowsMoved(c.moves, b.insertions, ofOldRows)
    BY <1>2, <1>o, OfOldRowsAre
  <2>2. DOMAIN moves = DOMAIN ofOldRows
    BY <1>m
  <2>3. ASSUME NEW k \in DOMAIN ofOldRows PROVE moves[k].to = ofOldRows[k].to
    <3>1. ofOldRows[k] \in Pairs
      BY <2>1 DEF OldRowsMoved
    <3> QED
      BY <1>m, <3>1 DEF Pairs
  <2> QED
    BY <2>1, <2>2, <2>3 DEF OldRowsMoved
<1>11. \A k \in DOMAIN ofOldRows : /\ Exact(b, ofOldRows[k].from) /\ ofOldRows[k].from \in Positions(mid)
                                   /\ MovesFrom(c, ofOldRows[k].from, moves[k].to)
                                   /\ ofOldRows[k].from \in b.modifications => moves[k].to \in again
  BY <1>c, <1>f, <1>10 DEF Exact, MovesFrom
<1>12. \A t \in again : \E p \in b.modifications : MovesFrom(c, p, t)
  <2> TAKE t \in again
  <2>1. PICK k \in DOMAIN ofOldRows : t = ofOldRows[k].to /\ ofOldRows[k].from \in b.modifications
    BY <1>f, <1>10
  <2> QED
    BY <1>10, <1>11, <2>1
<1>13. \A i \in mods : i \in c.modifications \/ \E p \in b.modifications : Leads(c, p, i)
  <2> TAKE i \in mods
  <2>1. CASE i \in followed
    BY <1>9, <2>1 DEF Leads
  <2>2. CASE i \in updated.modified
    BY <1>1, <2>2 DEF Marking, Leads
  <2>3. CASE i \in again
    BY <1>12, <2>3 DEF Leads
  <2> QED
    BY <1>f, <2>1, <2>2, <2>3
<1>14. \A x \in DOMAIN updated.old : \E p \in Positions(mid) :
          /\ Exact(b, p) /\ Leads(c, p, updated.old[x].to)
          /\ p \in b.modifications \cap c.deletions => updated.old[x].to \in mods
  BY <1>1, <1>b, <1>f DEF Marking
<1>15. \A x \in DOMAIN moves : \E p \in Positions(mid) :
          /\ Exact(b, p) /\ Leads(c, p, moves[x].to)
          /\ p \in b.modifications \cap c.deletions => moves[x].to \in mods
  BY <1>10, <1>11, <1>f DEF Leads
<1>16. \A x \in DOMAIN all.moves : \/ \E y \in DOMAIN updated.old : all.moves[x] = updated.old[y]
                                   \/ \E y \in DOMAIN moves : all.moves[x] = moves[y]
  <2> DEFINE p == updated.old
             q == moves
             w == p \o q
  <2>1. p \in Seq(Pairs) /\ q \in Seq(Pairs)
    BY <1>2, <1>4 DEF NewMovesAre
  <2> HIDE DEF p, q
  <2>2. /\ w \in Seq(Pairs) /\ Len(w) = Len(p) + Len(q)
        /\ \A k \in 1 .. Len(p) + Len(q) : w[k] = IF k <= Len(p) THEN p[k] ELSE q[k - Len(p)]
    BY <2>1, ConcatProperties
  <2>3. Len(p) \in Nat /\ Len(q) \in Nat /\ DOMAIN p = 1 .. Len(p) /\ DOMAIN q = 1 .. Len(q)
    BY <2>1
  <2> HIDE DEF w
  <2>4. DOMAIN w = 1 .. Len(p) + Len(q)
    BY <2>2, <2>3
  <2>5. ASSUME NEW x \in DOMAIN w
        PROVE  (\E y \in DOMAIN p : w[x] = p[y]) \/ (\E y \in DOMAIN q : w[x] = q[y])
    <3>1. x \in 1 .. Len(p) + Len(q) /\ x \in Nat
      BY <2>3, <2>4
    <3>2. CASE x <= Len(p)
      BY <2>2, <2>3, <3>1, <3>2
    <3>3. CASE ~(x <= Len(p))
      <4>1. x - Len(p) \in 1 .. Len(q)
        BY <2>3, <3>1, <3>3
      <4> QED
        BY <2>2, <2>3, <3>1, <3>3, <4>1
    <3> QED
      BY <3>2, <3>3
  <2> QED
    BY <1>a, <2>5 DEF w, p, q
<1>17. \A x \in DOMAIN all.moves : \E p \in Positions(mid) :
          /\ Exact(b, p) /\ Leads(c, p, all.moves[x].to)
          /\ p \in b.modifications \cap c.deletions => all.moves[x].to \in mods
  <2> TAKE x \in DOMAIN all.moves
  <2>1. CASE \E y \in DOMAIN updated.old : all.moves[x] = updated.old[y]
    BY <1>14, <2>1
  <2>2. CASE \E y \in DOMAIN moves : all.moves[x] = moves[y]
    BY <1>15, <2>2
  <2> QED
    BY <1>16, <2>1, <2>2
<1>18. c.modifications \subseteq mods
  BY <1>1, <1>f DEF Marking
<1>19. \A p \in b.modifications \ c.deletions : After(c.deletions, c.insertions, p) \in mods
  BY <1>9, <1>f
<1>20. MergedFrom(s, mid, r, b, c, all, e)
  BY <1>6, <1>8, <1>a, <1>d, <1>g, <1>13, <1>17, <1>18, <1>19 DEF MergedFrom
<1> QED
  BY <1>20, <1>g

\* Merge turns the changes of two stages into those of both.
THEOREM MergeSound ==
    ASSUME NEW s, RowList(s), NEW mid, RowList(mid), NEW r, RowList(r),
           NEW b, SoundBuilder(s, mid, b), NEW c, SoundBuilder(mid, r, c)
    PROVE  SoundBuilder(s, r, Merge(b, c))
<1>1. CASE c = Nothing
  <2>1. mid = r
    BY <1>1, NothingHasChanged
  <2> QED
    BY <1>1, <2>1 DEF Merge
<1>2. CASE c # Nothing /\ b = Nothing
  <2>1. s = mid
    BY <1>2, NothingHasChanged
  <2> QED
    BY <1>2, <2>1 DEF Merge
<1>3. CASE c # Nothing /\ b # Nothing
  <2>1. PICK all : MergedFrom(s, mid, r, b, c, all, Merge(b, c))
    BY <1>3, MergeIs
  <2>2. SoundBuilder(s, r, CleanUpStaleMoves(all))
    BY <2>1, CleanSound DEF MergedFrom
  <2> QED
    BY <2>1, <2>2 DEF MergedFrom, SoundBuilder
<1> QED
  BY <1>1, <1>2, <1>3

\* Merge leaves moves that really move their rows.
LEMMA MergeReal ==
    ASSUME NEW s, RowList(s), NEW mid, RowList(mid), NEW r, RowList(r),
           NEW b, SoundBuilder(s, mid, b), NEW c, SoundBuilder(mid, r, c), AllReal(b), AllReal(c)
    PROVE  AllReal(Merge(b, c))
<1>1. CASE c = Nothing \/ b = Nothing
  BY <1>1 DEF Merge
<1>2. CASE c # Nothing /\ b # Nothing
  <2>1. PICK all : MergedFrom(s, mid, r, b, c, all, Merge(b, c))
    BY <1>2, MergeIs
  <2>2. AllReal(CleanUpStaleMoves(all))
    BY <2>1, CleanReal DEF MergedFrom
  <2> QED
    BY <2>1, <2>2 DEF MergedFrom, AllReal, IsStale
<1> QED
  BY <1>1, <1>2

\* Of the rows that are not told to be inserted, and of those that are told to be moved, the
\* changes tell exactly those as modified that have been.
Modified(list, c, T) ==
    /\ c.modifications \subseteq Positions(list)
    /\ \A i \in Positions(list) : Exact(c, i) => (i \in c.modifications <=> At(list, i) \in T)

\* Where changes lead a row: it is the same row, and the changes know whether it was modified.
LEMMA LeadsAre ==
    ASSUME NEW mid, RowList(mid), NEW r, RowList(r), NEW c, SoundBuilder(mid, r, c),
           NEW p \in Positions(mid), NEW i, Leads(c, p, i)
    PROVE  i \in Positions(r) /\ At(r, i) = At(mid, p) /\ Exact(c, i)
<1>1. /\ Same(mid, r, c.deletions, c.insertions) /\ c.insertions \subseteq Positions(r)
      /\ \A y \in DOMAIN c.moves : Follows(mid, r, c.deletions, c.insertions, c.moves[y])
  BY DEF SoundBuilder, Sound, Same
<1>2. CASE p \notin c.deletions /\ i = After(c.deletions, c.insertions, p)
  BY <1>1, <1>2, AfterIs DEF Exact
<1>3. CASE MovesFrom(c, p, i)
  BY <1>1, <1>3 DEF MovesFrom, Follows, Exact
<1> QED
  BY <1>2, <1>3 DEF Leads

\* What has been modified in two stages: Merge tells of both.
THEOREM MergeModified ==
    ASSUME NEW s, RowList(s), NEW mid, RowList(mid), NEW r, RowList(r),
           NEW b, SoundBuilder(s, mid, b), NEW c, SoundBuilder(mid, r, c),
           NEW T, Modified(mid, b, T), NEW U, Modified(r, c, U)
    PROVE  Modified(r, Merge(b, c), T \cup U)
<1>1. CASE c = Nothing
  <2>1. mid = r
    BY <1>1, NothingHasChanged
  <2>2. \A i \in Positions(r) : At(r, i) \notin U
    BY <1>1 DEF Modified, Exact, Nothing
  <2> QED
    BY <1>1, <2>1, <2>2 DEF Merge, Modified
<1>2. CASE c # Nothing /\ b = Nothing
  <2>1. \A p \in Positions(mid) : At(mid, p) \notin T
    BY <1>2 DEF Modified, Exact, Nothing
  <2>2. ASSUME NEW i \in Positions(r), Exact(c, i) PROVE At(r, i) \notin T
    <3>1. \E p \in Positions(mid) : At(mid, p) = At(r, i)
      <4>1. /\ Same(mid, r, c.deletions, c.insertions) /\ c.deletions \subseteq Positions(mid)
            /\ \A y \in DOMAIN c.moves : Follows(mid, r, c.deletions, c.insertions, c.moves[y])
        BY DEF SoundBuilder, Sound, Same
      <4>2. CASE i \notin c.insertions
        <5>1. Same(r, mid, c.insertions, c.deletions)
          BY <4>1, SameBack DEF RowList
        <5> QED
          BY <4>2, <5>1, Remains
      <4>3. CASE \E y \in DOMAIN c.moves : c.moves[y].to = i
        BY <4>1, <4>3 DEF Follows
      <4> QED
        BY <2>2, <4>2, <4>3 DEF Exact
    <3> QED
      BY <2>1, <3>1
  <2> QED
    BY <1>2, <2>2 DEF Merge, Modified
<1>3. CASE c # Nothing /\ b # Nothing
  <2> DEFINE e == Merge(b, c)
  <2>1. PICK all : MergedFrom(s, mid, r, b, c, all, e)
    BY <1>3, MergeIs
  <2> HIDE DEF e
  <2>u. \A p, q \in Positions(mid) : At(mid, p) = At(mid, q) => p = q
    BY DEF RowList
  <2>b. /\ Same(s, mid, b.deletions, b.insertions) /\ b.insertions \subseteq Positions(mid)
        /\ b.modifications \subseteq Positions(mid)
    BY DEF SoundBuilder, Sound, Same, Modified
  <2>c. /\ Same(mid, r, c.deletions, c.insertions) /\ c.deletions \subseteq Positions(mid)
        /\ \A y \in DOMAIN c.moves : Follows(mid, r, c.deletions, c.insertions, c.moves[y])
    BY DEF SoundBuilder, Sound, Same
  <2>2. \A p \in Positions(mid) : \A i : Leads(c, p, i) =>
           i \in Positions(r) /\ At(r, i) = At(mid, p) /\ Exact(c, i)
    BY LeadsAre
  <2>3. e.modifications \subseteq Positions(r)
    BY <2>1, <2>2, <2>b DEF MergedFrom, Modified
  <2>4. ASSUME NEW i \in Positions(r), Exact(e, i)
        PROVE  \E p \in Positions(mid) : /\ Exact(b, p) /\ Leads(c, p, i)
                                         /\ p \in b.modifications => i \in e.modifications
    <3>1. Exact(all, i)
      <4>1. Exact(CleanUpStaleMoves(all), i)
        BY <2>1, <2>4 DEF MergedFrom, Exact
      <4> QED
        BY <2>1, <4>1, CleanExact DEF MergedFrom
    <3>2. CASE i \notin all.insertions
      <4>1. i \notin c.insertions /\ \A p \in b.insertions \ c.deletions : i # After(c.deletions, c.insertions, p)
        BY <2>1, <3>2, MergedAre DEF MergedFrom
      <4>2. Same(r, mid, c.insertions, c.deletions)
        BY <2>c, SameBack DEF RowList
      <4>3. PICK p \in Positions(mid) \ c.deletions : At(mid, p) = At(r, i)
        BY <4>1, <4>2, Remains
      <4>4. /\ After(c.deletions, c.insertions, p) \in Positions(r)
            /\ At(r, After(c.deletions, c.insertions, p)) = At(mid, p)
        BY <2>c, AfterIs
      <4>5. After(c.deletions, c.insertions, p) = i
        BY <4>3, <4>4 DEF RowList
      <4>6. p \notin b.insertions
        BY <4>1, <4>5
      <4> QED
        BY <2>1, <4>5, <4>6 DEF MergedFrom, Exact, Leads
    <3>3. CASE \E x \in DOMAIN all.moves : all.moves[x].to = i
      <4>1. PICK p \in Positions(mid) :
               /\ Exact(b, p) /\ Leads(c, p, i)
               /\ p \in b.modifications \cap c.deletions => i \in e.modifications
        BY <2>1, <3>3 DEF MergedFrom
      <4>2. p \in b.modifications \ c.deletions => i \in e.modifications
        BY <2>1, <2>c, <4>1 DEF MergedFrom, Leads, MovesFrom, Follows
      <4> QED
        BY <4>1, <4>2
    <3> QED
      BY <3>1, <3>2, <3>3 DEF Exact
  <2>5. ASSUME NEW i \in Positions(r), Exact(e, i)
        PROVE  i \in e.modifications <=> At(r, i) \in T \cup U
    <3>1. PICK p \in Positions(mid) : /\ Exact(b, p) /\ Leads(c, p, i)
                                      /\ p \in b.modifications => i \in e.modifications
      BY <2>4, <2>5
    <3>2. /\ At(r, i) = At(mid, p)
          /\ i \in c.modifications <=> At(r, i) \in U
          /\ p \in b.modifications <=> At(mid, p) \in T
      BY <2>2, <3>1 DEF Modified
    <3>3. c.modifications \subseteq e.modifications
      BY <2>1 DEF MergedFrom
    <3>4. ASSUME NEW q \in b.modifications, Leads(c, q, i) PROVE At(r, i) \in T
      BY <2>2, <2>b, <2>u, <3>1, <3>2, <3>4
    <3>5. i \in e.modifications => i \in c.modifications \/ \E q \in b.modifications : Leads(c, q, i)
      BY <2>1 DEF MergedFrom
    <3> QED
      BY <3>1, <3>2, <3>3, <3>4, <3>5
  <2>6. Modified(r, e, T \cup U)
    BY <2>3, <2>5 DEF Modified
  <2> QED
    BY <2>6 DEF e
<1> QED
  BY <1>1, <1>2, <1>3

-----------------------------------------------------------------------------
(* The rows of two runs of a query.                                         *)

\* The positions of the rows that are only in one of two lists.
OnlyIn(list, other) == {i \in Positions(list) : At(list, i) \notin Elements(other)}

\* The positions of some rows.
PositionsOf(list, R) == {i \in Positions(list) : At(list, i) \in R}

\* The rows of A are in the same order in both lists.
SameOrder(a, b, A) ==
    \A x, k \in Positions(a), y, l \in Positions(b) :
        /\ At(a, x) = At(b, y) /\ At(a, x) \in A
        /\ At(a, k) = At(b, l) /\ At(a, k) \in A
        => (x < k <=> y < l)

\* The rows of a list are those at its positions.
LEMMA ElementsAre ==
    ASSUME NEW list, RowList(list)
    PROVE  /\ list \in Seq(Nat)
           /\ \A i \in Positions(list) : At(list, i) \in Elements(list) /\ i \in Nat
           /\ \A v \in Elements(list) : \E i \in Positions(list) : At(list, i) = v
<1>1. list \in Seq(Nat)
  BY DEF RowList
<1> QED
  BY <1>1, PositionsAre

\* The rows in both lists that are in the same order, all others reported.
LEMMA Aligned ==
    ASSUME NEW old, RowList(old), NEW new, RowList(new),
           NEW R, SameOrder(old, new, (Elements(old) \cap Elements(new)) \ R)
    PROVE  Same(old, new, OnlyIn(old, new) \cup PositionsOf(old, R),
                          OnlyIn(new, old) \cup PositionsOf(new, R))
<1> DEFINE D == OnlyIn(old, new) \cup PositionsOf(old, R)
           I == OnlyIn(new, old) \cup PositionsOf(new, R)
           A == (Elements(old) \cap Elements(new)) \ R
<1>1. D \subseteq Positions(old) /\ I \subseteq Positions(new)
  BY DEF OnlyIn, PositionsOf
<1>e. /\ \A i \in Positions(old) : At(old, i) \in Elements(old)
      /\ \A v \in Elements(old) : \E i \in Positions(old) : At(old, i) = v
      /\ \A i \in Positions(new) : At(new, i) \in Elements(new)
      /\ \A v \in Elements(new) : \E i \in Positions(new) : At(new, i) = v
  BY ElementsAre
<1>2. \A i \in Positions(old) : i \notin D <=> At(old, i) \in A
  BY <1>e DEF OnlyIn, PositionsOf
<1>3. \A i \in Positions(new) : i \notin I <=> At(new, i) \in A
  BY <1>e DEF OnlyIn, PositionsOf
<1>a. A \subseteq Elements(old) /\ A \subseteq Elements(new)
  OBVIOUS
<1>s. SameOrder(old, new, A)
  OBVIOUS
<1> HIDE DEF D, I, A
<1>4. Left(old, D) = A
  <2>1. \A v \in Left(old, D) : v \in A
    BY <1>2 DEF Left
  <2>2. ASSUME NEW v \in A PROVE v \in Left(old, D)
    <3>1. PICK i \in Positions(old) : At(old, i) = v
      BY <1>a, <1>e
    <3>2. i \in Positions(old) \ D
      BY <1>2, <3>1
    <3> QED
      BY <3>1, <3>2 DEF Left
  <2> QED
    BY <2>1, <2>2
<1>5. Left(new, I) = A
  <2>1. \A v \in Left(new, I) : v \in A
    BY <1>3 DEF Left
  <2>2. ASSUME NEW v \in A PROVE v \in Left(new, I)
    <3>1. PICK i \in Positions(new) : At(new, i) = v
      BY <1>a, <1>e
    <3>2. i \in Positions(new) \ I
      BY <1>3, <3>1
    <3> QED
      BY <3>1, <3>2 DEF Left
  <2> QED
    BY <2>1, <2>2
<1>6. ASSUME NEW i \in Positions(old) \ D, NEW j \in Positions(new) \ I, At(old, i) = At(new, j),
             NEW k \in Positions(old) \ D, NEW l \in Positions(new) \ I, At(old, k) = At(new, l)
      PROVE  i < k <=> j < l
  BY <1>2, <1>3, <1>6, <1>s DEF SameOrder
<1>7. Same(old, new, D, I)
  BY <1>1, <1>4, <1>5, <1>6 DEF Same
<1> QED
  BY <1>7 DEF D, I

\* What is left of two lists without the rows that are only in one of them.
LEMMA Common ==
    ASSUME NEW old, RowList(old), NEW new, RowList(new),
           NEW a, a = Without(old, OnlyIn(old, new))
    PROVE  /\ RowList(a) /\ Elements(a) = Elements(old) \cap Elements(new)
           /\ \A i \in Positions(old) : At(old, i) \in Elements(new) =>
                 /\ Unshift(OnlyIn(old, new), i) \in Positions(a)
                 /\ At(a, Unshift(OnlyIn(old, new), i)) = At(old, i)
           /\ \A i, k \in Positions(old) : At(old, i) \in Elements(new) /\ At(old, k) \in Elements(new) =>
                 (i < k <=> Unshift(OnlyIn(old, new), i) < Unshift(OnlyIn(old, new), k))
<1> DEFINE D == OnlyIn(old, new)
<1>1. D \subseteq Positions(old)
  BY DEF OnlyIn
<1>2. \A i \in Positions(old) : i \notin D <=> At(old, i) \in Elements(new)
  BY DEF OnlyIn
<1> HIDE DEF D
<1>e. /\ old \in Seq(Nat)
      /\ \A i \in Positions(old) : At(old, i) \in Elements(old) /\ i \in Nat
      /\ \A v \in Elements(old) : \E i \in Positions(old) : At(old, i) = v
  BY ElementsAre
<1>d. D \in SUBSET Nat /\ IsFiniteSet(D)
  BY <1>1, <1>e, SubsetOfPositions
<1>a. a = Without(old, D)
  BY DEF D
<1>3. /\ a \in Seq(Nat)
      /\ \A k \in Positions(a) : Shift(D, k) \in Positions(old) \ D /\ At(a, k) = At(old, Shift(D, k))
      /\ \A i \in Positions(old) \ D : /\ Unshift(D, i) \in Positions(a)
                                       /\ At(a, Unshift(D, i)) = At(old, i)
  BY <1>1, <1>a, <1>e, WithoutIs
<1>p. Positions(a) \in SUBSET Nat /\ Elements(a) = {At(a, i) : i \in Positions(a)}
  BY <1>3, PositionsAre
<1>4. RowList(a)
  <2>1. ASSUME NEW k \in Positions(a), NEW l \in Positions(a), At(a, k) = At(a, l) PROVE k = l
    <3>1. Shift(D, k) = Shift(D, l)
      BY <1>3, <2>1 DEF RowList
    <3>2. Unshift(D, Shift(D, k)) = k /\ Unshift(D, Shift(D, l)) = l
      BY <1>d, <1>p, ShiftOf
    <3> QED
      BY <3>1, <3>2
  <2> QED
    BY <1>3, <2>1 DEF RowList
<1>5. Elements(a) = Elements(old) \cap Elements(new)
  <2>1. \A v \in Elements(a) : v \in Elements(old) /\ v \in Elements(new)
    BY <1>2, <1>3, <1>e, <1>p
  <2>2. ASSUME NEW v \in Elements(old) \cap Elements(new) PROVE v \in Elements(a)
    <3>1. PICK i \in Positions(old) : At(old, i) = v
      BY <1>e
    <3> QED
      BY <1>2, <1>3, <1>p, <3>1
  <2> QED
    BY <2>1, <2>2
<1>6. ASSUME NEW i \in Positions(old) \ D, NEW k \in Positions(old) \ D
      PROVE  i < k <=> Unshift(D, i) < Unshift(D, k)
  <2>1. i \in Nat /\ k \in Nat /\ i \notin D /\ k \notin D
    BY <1>e
  <2>2. /\ Unshift(D, i) \in Nat
        /\ i < k => Unshift(D, i) < Unshift(D, k)
    BY <1>d, <2>1, UnshiftOrder
  <2>3. /\ Unshift(D, k) \in Nat
        /\ k <= i => Unshift(D, k) <= Unshift(D, i)
    BY <1>d, <2>1, UnshiftOrder
  <2> QED
    BY <2>1, <2>2, <2>3
<1> QED
  BY <1>2, <1>3, <1>4, <1>5, <1>6 DEF D

\* Rows that are in the same order in what is left are in the same order.
LEMMA CommonOrder ==
    ASSUME NEW old, RowList(old), NEW new, RowList(new),
           NEW a, a = Without(old, OnlyIn(old, new)), NEW b, b = Without(new, OnlyIn(new, old)),
           NEW A, A \subseteq Elements(old) \cap Elements(new), SameOrder(a, b, A)
    PROVE  SameOrder(old, new, A)
<1> DEFINE D == OnlyIn(old, new)
           I == OnlyIn(new, old)
<1>1. /\ \A i \in Positions(old) : At(old, i) \in Elements(new) =>
                 Unshift(D, i) \in Positions(a) /\ At(a, Unshift(D, i)) = At(old, i)
      /\ \A i, k \in Positions(old) : At(old, i) \in Elements(new) /\ At(old, k) \in Elements(new) =>
                 (i < k <=> Unshift(D, i) < Unshift(D, k))
  BY Common
<1>2. /\ \A i \in Positions(new) : At(new, i) \in Elements(old) =>
                 Unshift(I, i) \in Positions(b) /\ At(b, Unshift(I, i)) = At(new, i)
      /\ \A i, k \in Positions(new) : At(new, i) \in Elements(old) /\ At(new, k) \in Elements(old) =>
                 (i < k <=> Unshift(I, i) < Unshift(I, k))
  BY Common
<1> HIDE DEF D, I
<1>3. ASSUME NEW x \in Positions(old), NEW k \in Positions(old), NEW y \in Positions(new), NEW l \in Positions(new),
             At(old, x) = At(new, y), At(old, x) \in A, At(old, k) = At(new, l), At(old, k) \in A
      PROVE  x < k <=> y < l
  <2>1. /\ Unshift(D, x) \in Positions(a) /\ At(a, Unshift(D, x)) = At(old, x)
        /\ Unshift(D, k) \in Positions(a) /\ At(a, Unshift(D, k)) = At(old, k)
        /\ x < k <=> Unshift(D, x) < Unshift(D, k)
    BY <1>1, <1>3
  <2>2. /\ Unshift(I, y) \in Positions(b) /\ At(b, Unshift(I, y)) = At(new, y)
        /\ Unshift(I, l) \in Positions(b) /\ At(b, Unshift(I, l)) = At(new, l)
        /\ y < l <=> Unshift(I, y) < Unshift(I, l)
    BY <1>2, <1>3
  <2> HIDE DEF SameOrder
  <2>3. Unshift(D, x) < Unshift(D, k) <=> Unshift(I, y) < Unshift(I, l)
    BY <1>3, <2>1, <2>2 DEF SameOrder
  <2> QED
    BY <2>1, <2>2, <2>3
<1> QED
  BY <1>3 DEF SameOrder

-----------------------------------------------------------------------------
(* The longest match of a window.                                           *)

\* A block of the window, the rows of which are the same in both lists, or none.
MatchIn(a, b, w, m) ==
    /\ DOMAIN m = {"i", "j", "size", "counted", "modified"}
    /\ m.i \in Nat /\ m.j \in Nat /\ m.size \in Nat
    /\ m.size # 0 => /\ w.begin1 <= m.i /\ m.i + m.size <= w.end1
                     /\ w.begin2 <= m.j /\ m.j + m.size <= w.end2
                     /\ \A k \in 0 .. m.size - 1 : At(a, m.i + k) = At(b, m.j + k)

\* The block that ends at a row of both lists.
LEMMA BlockFound ==
    ASSUME NEW a, NEW b, NEW n \in Nat, NEW w \in Windows(n),
           NEW i \in w.begin1 .. w.end1 - 1, NEW j \in w.begin2 .. w.end2 - 1, At(b, j) = At(a, i),
           NEW size, size = BlockSize(a, b, w, i, j)
    PROVE  MatchIn(a, b, w, [i |-> i - size + 1, j |-> j - size + 1, size |-> size,
                             counted |-> FALSE, modified |-> 0])
<1>n. w.begin1 \in Nat /\ w.end1 \in Nat /\ w.begin2 \in Nat /\ w.end2 \in Nat /\ i \in Nat /\ j \in Nat
      /\ w.begin1 <= i /\ w.begin2 <= j
  BY DEF Windows
<1>2. /\ size \in Nat \ {0} /\ size <= i - w.begin1 + 1 /\ size <= j - w.begin2 + 1
      /\ \A k \in 0 .. size - 1 : At(a, i - k) = At(b, j - k)
  <2> DEFINE P(l) == \A k \in 0 .. l - 1 : At(a, i - k) = At(b, j - k)
             T == {l \in 1 .. i - w.begin1 + 1 : l <= j - w.begin2 + 1 /\ P(l)}
  <2>1. size = Sets!Max(T)
    BY DEF BlockSize
  <2>2. P(1)
    <3>1. \A k \in 0 .. 1 - 1 : k = 0
      OBVIOUS
    <3>2. i - 0 = i /\ j - 0 = j
      BY <1>n
    <3> QED
      BY <3>1, <3>2
  <2>3. 1 \in T
    <3> HIDE DEF P
    <3> QED
      BY <1>n, <2>2
  <2>4. T \in SUBSET Nat /\ \A x \in T : x <= i - w.begin1 + 1 /\ x \in Nat \ {0}
    <3> HIDE DEF P
    <3> QED
      BY <1>n
  <2>5. i - w.begin1 + 1 \in Nat
    BY <1>n
  <2>t. \A x \in T : x <= j - w.begin2 + 1 /\ P(x)
    OBVIOUS
  <2> HIDE DEF T
  <2>6. size \in T
    BY <2>1, <2>3, <2>4, <2>5, Greatest
  <2> HIDE DEF P
  <2>7. /\ size \in Nat \ {0} /\ size <= i - w.begin1 + 1 /\ size <= j - w.begin2 + 1
        /\ P(size)
    BY <2>4, <2>6, <2>t
  <2> QED
    BY <2>7 DEF P
<1> DEFINE found == [i |-> i - size + 1, j |-> j - size + 1, size |-> size,
                     counted |-> FALSE, modified |-> 0]
<1>3. ASSUME NEW k \in 0 .. size - 1 PROVE At(a, (i - size + 1) + k) = At(b, (j - size + 1) + k)
  <2>1. size - 1 - k \in 0 .. size - 1
    BY <1>2
  <2>2. i - (size - 1 - k) = (i - size + 1) + k /\ j - (size - 1 - k) = (j - size + 1) + k
    BY <1>n, <1>2
  <2>3. At(a, i - (size - 1 - k)) = At(b, j - (size - 1 - k))
    BY <1>2, <2>1
  <2> QED
    BY <2>2, <2>3
<1>4. /\ i - size + 1 \in Nat /\ j - size + 1 \in Nat
      /\ w.begin1 <= i - size + 1 /\ (i - size + 1) + size <= w.end1
      /\ w.begin2 <= j - size + 1 /\ (j - size + 1) + size <= w.end2
  BY <1>n, <1>2
<1>5. found.i = i - size + 1 /\ found.j = j - size + 1 /\ found.size = size
      /\ DOMAIN found = {"i", "j", "size", "counted", "modified"}
  OBVIOUS
<1> HIDE DEF found
<1>6. MatchIn(a, b, w, found)
  BY <1>2, <1>3, <1>4, <1>5 DEF MatchIn
<1> QED
  BY <1>6 DEF found

\* Looking at one more row finds a block again.
LEMMA BetterMatchIs ==
    ASSUME NEW a, NEW b, NEW modified, NEW n \in Nat, NEW w \in Windows(n),
           NEW i \in w.begin1 .. w.end1 - 1, NEW best, MatchIn(a, b, w, best)
    PROVE  MatchIn(a, b, w, BetterMatch(a, b, modified, w, best, i))
<1>n. w.begin1 \in Nat /\ w.end1 \in Nat /\ w.begin2 \in Nat /\ w.end2 \in Nat /\ i \in Nat
      /\ w.begin1 <= i
  BY DEF Windows
<1> DEFINE js == {j \in w.begin2 .. w.end2 - 1 : At(b, j) = At(a, i)}
           j == CHOOSE x \in js : TRUE
           size == BlockSize(a, b, w, i, j)
           found == [i |-> i - size + 1, j |-> j - size + 1, size |-> size,
                     counted |-> FALSE, modified |-> 0]
           count == Count(modified, j - size + 1, j + 1)
           fewest == IF best.counted THEN best.modified
                     ELSE Count(modified, best.j - size + 1, best.j + 1)
           lower == IF count < fewest THEN count ELSE fewest
           result == BetterMatch(a, b, modified, w, best, i)
<1>1. js # {} => MatchIn(a, b, w, found)
  <2> SUFFICES ASSUME js # {} PROVE MatchIn(a, b, w, found)
    OBVIOUS
  <2>1. j \in w.begin2 .. w.end2 - 1 /\ At(b, j) = At(a, i)
    OBVIOUS
  <2>2. size = BlockSize(a, b, w, i, j)
    OBVIOUS
  <2> HIDE DEF j, js, size
  <2> QED
    BY <2>1, <2>2, BlockFound
<1>2. \/ result = best
      \/ js # {} /\ result = found
      \/ result = [best EXCEPT !.counted = TRUE, !.modified = lower]
      \/ js # {} /\ result = [found EXCEPT !.counted = TRUE, !.modified = lower]
  <2>1. result = IF js = {} \/ size < best.size THEN best
                 ELSE IF size > best.size THEN found
                 ELSE [(IF count < fewest THEN found ELSE best)
                         EXCEPT !.counted = TRUE, !.modified = lower]
    BY DEF BetterMatch
  <2> HIDE DEF js, size, found, count, fewest, lower, result
  <2> QED
    BY <2>1
<1>3. ASSUME NEW m, MatchIn(a, b, w, m), NEW x, NEW y
      PROVE  MatchIn(a, b, w, [m EXCEPT !.counted = x, !.modified = y])
  <2> DEFINE m2 == [m EXCEPT !.counted = x, !.modified = y]
  <2>1. DOMAIN m = {"i", "j", "size", "counted", "modified"}
    BY <1>3 DEF MatchIn
  <2>2. DOMAIN m2 = DOMAIN m /\ m2.i = m.i /\ m2.j = m.j /\ m2.size = m.size
    BY <2>1
  <2> HIDE DEF m2
  <2>3. MatchIn(a, b, w, m2)
    BY <1>3, <2>2 DEF MatchIn
  <2> QED
    BY <2>3 DEF m2
<1>4. MatchIn(a, b, w, result)
  <2> HIDE DEF js, found, lower, result, MatchIn
  <2>1. CASE result = best
    BY <2>1
  <2>2. CASE js # {} /\ result = found
    BY <1>1, <2>2
  <2>3. MatchIn(a, b, w, [best EXCEPT !.counted = TRUE, !.modified = lower])
    BY <1>3
  <2>4. js # {} => MatchIn(a, b, w, [found EXCEPT !.counted = TRUE, !.modified = lower])
    BY <1>1, <1>3
  <2> QED
    BY <1>2, <2>1, <2>2, <2>3, <2>4
<1> QED
  BY <1>4

IsBest(a, b, modified, w, N, f) ==
    f = [k \in 0 .. N |->
           IF k <= w.begin1
           THEN [i |-> w.begin1, j |-> w.begin2, size |-> 0, counted |-> TRUE, modified |-> 0]
           ELSE BetterMatch(a, b, modified, w, f[k - 1], k - 1)]

\* The function LongestMatch computes exists.
LEMMA BestExists ==
    ASSUME NEW a, NEW b, NEW modified, NEW w, w.begin1 \in Nat, NEW N \in Nat
    PROVE  \E f : IsBest(a, b, modified, w, N, f)
<1> DEFINE none == [i |-> w.begin1, j |-> w.begin2, size |-> 0, counted |-> TRUE, modified |-> 0]
<1> DEFINE E(f, n) == [k \in 0 .. n |-> IF k <= w.begin1 THEN none
                                        ELSE BetterMatch(a, b, modified, w, f[k - 1], k - 1)]
           T == {n \in Nat : ~ \E f : f = E(f, n)}
<1> HIDE DEF none
<1>1. SUFFICES ASSUME T # {} PROVE FALSE
  <2>1. T = {} => N \notin T
    OBVIOUS
  <2>2. T = {} => \E f : f = E(f, N)
    BY <2>1
  <2> QED
    BY <2>2 DEF none, IsBest
<1>2. PICK n \in T : \A m \in T : n <= m
  <2>1. T \in SUBSET Nat
    OBVIOUS
  <2> HIDE DEF T
  <2> QED
    BY <1>1, <2>1, Least
<1>3. n # 0
  <2>1. ASSUME n = 0 PROVE \E f : f = E(f, n)
    <3> DEFINE g == [k \in 0 .. 0 |-> none]
    <3>1. g = E(g, n)
      BY <2>1
    <3> QED
      BY <3>1
  <2> QED
    BY <1>2, <2>1
<1>4. n \in Nat /\ n - 1 \in Nat /\ n - 1 \notin T
  <2>1. n \in Nat
    OBVIOUS
  <2> HIDE DEF T
  <2> QED
    BY <1>2, <1>3, <2>1
<1>5. PICK f : f = E(f, n - 1)
  BY <1>4
<1> DEFINE g == [k \in 0 .. n |-> IF k = n /\ ~(n <= w.begin1)
                                  THEN BetterMatch(a, b, modified, w, f[n - 1], n - 1)
                                  ELSE IF k <= w.begin1 THEN none ELSE f[k]]
<1>6. ASSUME NEW k \in 0 .. n
      PROVE  g[k] = IF k <= w.begin1 THEN none ELSE BetterMatch(a, b, modified, w, g[k - 1], k - 1)
  <2>n. k \in Nat
    OBVIOUS
  <2>1. CASE k <= w.begin1
    <3>1. g[k] = none
      BY <2>1
    <3> HIDE DEF g
    <3> QED
      BY <2>1, <3>1
  <2>2. CASE ~(k <= w.begin1)
    <3>1. k # 0 /\ k - 1 \in 0 .. n /\ k - 1 \in 0 .. n - 1 /\ k - 1 # n
      BY <1>4, <2>2, <2>n
    <3>2. g[k - 1] = IF k - 1 <= w.begin1 THEN none ELSE f[k - 1]
      BY <3>1
    <3>3. f[k - 1] = IF k - 1 <= w.begin1 THEN none ELSE BetterMatch(a, b, modified, w, f[k - 1 - 1], k - 1 - 1)
      BY <1>5, <3>1
    <3>4. g[k - 1] = f[k - 1]
      BY <3>2, <3>3
    <3>5. g[k] = BetterMatch(a, b, modified, w, f[k - 1], k - 1)
      <4>1. CASE k = n
        BY <2>2, <4>1
      <4>2. CASE k # n
        <5>1. k \in 0 .. n - 1
          BY <1>4, <4>2
        <5>2. f[k] = BetterMatch(a, b, modified, w, f[k - 1], k - 1)
          BY <1>5, <2>2, <5>1
        <5>3. g[k] = f[k]
          BY <2>2, <4>2
        <5> QED
          BY <5>2, <5>3
      <4> QED
        BY <4>1, <4>2
    <3> HIDE DEF g
    <3> QED
      BY <2>2, <3>4, <3>5
  <2> QED
    BY <2>1, <2>2
<1>7. g = [k \in 0 .. n |-> g[k]]
  OBVIOUS
<1> HIDE DEF g
<1>8. g = E(g, n)
  BY <1>6, <1>7
<1> QED
  BY <1>2, <1>8

\* LongestMatch finds a block of the window, or none.
THEOREM LongestMatchIs ==
    ASSUME NEW a, NEW b, NEW modified, NEW n \in Nat, NEW w \in Windows(n)
    PROVE  MatchIn(a, b, w, LongestMatch(a, b, modified, w))
<1>n. w.begin1 \in Nat /\ w.end1 \in Nat /\ w.begin2 \in Nat /\ w.end2 \in Nat
  BY DEF Windows
<1> DEFINE best == CHOOSE f : IsBest(a, b, modified, w, w.end1, f)
<1>1. LongestMatch(a, b, modified, w) = best[w.end1]
  BY DEF LongestMatch, IsBest
<1>2. IsBest(a, b, modified, w, w.end1, best)
  BY <1>n, BestExists
<1> HIDE DEF best
<1>3. \A k \in 0 .. w.end1 : best[k] =
           IF k <= w.begin1
           THEN [i |-> w.begin1, j |-> w.begin2, size |-> 0, counted |-> TRUE, modified |-> 0]
           ELSE BetterMatch(a, b, modified, w, best[k - 1], k - 1)
  <2> DEFINE h(k) == IF k <= w.begin1
           THEN [i |-> w.begin1, j |-> w.begin2, size |-> 0, counted |-> TRUE, modified |-> 0]
           ELSE BetterMatch(a, b, modified, w, best[k - 1], k - 1)
  <2>1. best = [k \in 0 .. w.end1 |-> h(k)]
    BY <1>2 DEF IsBest
  <2> HIDE DEF h
  <2>2. \A k \in 0 .. w.end1 : best[k] = h(k)
    BY <2>1
  <2> QED
    BY <2>2 DEF h
<1> DEFINE T == {k \in Nat : k <= w.end1 /\ ~MatchIn(a, b, w, best[k])}
<1>4. SUFFICES ASSUME T # {} PROVE FALSE
  <2>1. w.end1 \notin T => MatchIn(a, b, w, best[w.end1])
    BY <1>n
  <2> HIDE DEF T
  <2> QED
    BY <1>1, <2>1
<1>5. PICK k \in T : \A m \in T : k <= m
  <2>1. T \in SUBSET Nat
    OBVIOUS
  <2> HIDE DEF T
  <2> QED
    BY <1>4, <2>1, Least
<1>6. k \in 0 .. w.end1 /\ k \in Nat /\ ~MatchIn(a, b, w, best[k])
  BY <1>n
<1>7. CASE k <= w.begin1
  <2>1. best[k] = [i |-> w.begin1, j |-> w.begin2, size |-> 0, counted |-> TRUE, modified |-> 0]
    BY <1>3, <1>6, <1>7
  <2>2. MatchIn(a, b, w, best[k])
    BY <1>n, <2>1 DEF MatchIn
  <2> QED
    BY <1>6, <2>2
<1>8. CASE ~(k <= w.begin1)
  <2>1. k - 1 \in w.begin1 .. w.end1 - 1 /\ k - 1 \in Nat /\ k - 1 < k
    BY <1>6, <1>8, <1>n
  <2>2. k - 1 \notin T
    <3> HIDE DEF T
    <3> QED
      BY <1>5, <1>6, <2>1
  <2>3. MatchIn(a, b, w, best[k - 1])
    BY <1>n, <2>1, <2>2
  <2>4. best[k] = BetterMatch(a, b, modified, w, best[k - 1], k - 1)
    BY <1>3, <1>6, <1>8
  <2> QED
    BY <1>6, <2>1, <2>3, <2>4, BetterMatchIs
<1> QED
  BY <1>7, <1>8

-----------------------------------------------------------------------------
(* The matches of a window, from the longest one outwards.                  *)

\* The windows before and after the longest match.
BeforeMatch(w, m) == [w EXCEPT !.end1 = m.i, !.end2 = m.j]
AfterMatch(w, m) == [w EXCEPT !.begin1 = m.i + m.size, !.begin2 = m.j + m.size]

\* The rows the window has of the first list: the recursion ends because there
\* are less and less of them.
Size(n, w) == w.end1 - w.begin1 + n

Narrower(n, w, m) ==
    /\ BeforeMatch(w, m) \in Windows(n) /\ AfterMatch(w, m) \in Windows(n)
    /\ Size(n, BeforeMatch(w, m)) < Size(n, w)
    /\ Size(n, AfterMatch(w, m)) < Size(n, w)
    /\ BeforeMatch(w, m).begin1 = w.begin1 /\ BeforeMatch(w, m).begin2 = w.begin2
    /\ BeforeMatch(w, m).end1 = m.i /\ BeforeMatch(w, m).end2 = m.j
    /\ AfterMatch(w, m).begin1 = m.i + m.size /\ AfterMatch(w, m).begin2 = m.j + m.size
    /\ AfterMatch(w, m).end1 = w.end1 /\ AfterMatch(w, m).end2 = w.end2

\* The windows on both sides of a match are smaller.
LEMMA SmallerWindows ==
    ASSUME NEW a, NEW b, NEW n \in Nat, NEW w \in Windows(n), NEW m, MatchIn(a, b, w, m), m.size # 0
    PROVE  Narrower(n, w, m)
<1>1. /\ m.i \in Nat /\ m.j \in Nat /\ m.size \in Nat
      /\ w.begin1 <= m.i /\ m.i + m.size <= w.end1
      /\ w.begin2 <= m.j /\ m.j + m.size <= w.end2
  BY DEF MatchIn
<1>2. /\ w.begin1 \in 0 .. n /\ w.end1 \in 0 .. n /\ w.begin2 \in 0 .. n /\ w.end2 \in 0 .. n
  BY DEF Windows
<1>3. /\ m.i \in 0 .. n /\ m.j \in 0 .. n
      /\ m.i + m.size \in 0 .. n /\ m.j + m.size \in 0 .. n
  BY <1>1, <1>2
<1>4. w \in [begin1 : 0 .. n, end1 : 0 .. n, begin2 : 0 .. n, end2 : 0 .. n]
  BY DEF Windows
<1>5. /\ BeforeMatch(w, m) \in Windows(n) 
      /\ BeforeMatch(w, m).begin1 = w.begin1 /\ BeforeMatch(w, m).begin2 = w.begin2
      /\ BeforeMatch(w, m).end1 = m.i /\ BeforeMatch(w, m).end2 = m.j
  BY <1>3, <1>4 DEF Windows, BeforeMatch
<1>6. /\ AfterMatch(w, m) \in Windows(n) 
      /\ AfterMatch(w, m).begin1 = m.i + m.size /\ AfterMatch(w, m).begin2 = m.j + m.size
      /\ AfterMatch(w, m).end1 = w.end1 /\ AfterMatch(w, m).end2 = w.end2
  BY <1>3, <1>4 DEF Windows, AfterMatch
<1>7. Size(n, BeforeMatch(w, m)) < Size(n, w)
  <2>1. m.i - w.begin1 < w.end1 - w.begin1
    BY <1>1, <1>2
  <2> QED
    BY <1>1, <1>2, <1>5, <2>1 DEF Size
<1>8. Size(n, AfterMatch(w, m)) < Size(n, w)
  <2>1. w.end1 - (m.i + m.size) < w.end1 - w.begin1
    BY <1>1, <1>2
  <2> QED
    BY <1>1, <1>2, <1>6, <2>1 DEF Size
<1> QED
  BY <1>5, <1>6, <1>7, <1>8 DEF Narrower

IsAround(f, w, m, out) ==
    /\ m.size = 0 => out = <<>>
    /\ m.size # 0 => \E p \in {<<>>, f[BeforeMatch(w, m)]}, q \in {<<>>, f[AfterMatch(w, m)]} :
                        out = (p \o <<m>>) \o q

\* MatchesAround puts the longest match between those of smaller windows.
LEMMA MatchesAroundIs ==
    ASSUME NEW a, NEW b, NEW modified, NEW f, NEW w
    PROVE  IsAround(f, w, LongestMatch(a, b, modified, w), MatchesAround(a, b, modified, f, w))
<1> DEFINE m == LongestMatch(a, b, modified, w)
<1> DEFINE p == IF m.i > w.begin1 /\ m.j > w.begin2
                THEN f[[w EXCEPT !.end1 = m.i, !.end2 = m.j]] ELSE <<>>
           q == IF m.i + m.size < w.end2 /\ m.j + m.size < w.end2
                THEN f[[w EXCEPT !.begin1 = m.i + m.size, !.begin2 = m.j + m.size]] ELSE <<>>
<1>1. MatchesAround(a, b, modified, f, w) = IF m.size = 0 THEN <<>> ELSE (p \o <<m>>) \o q
  BY DEF MatchesAround
<1>2. p \in {<<>>, f[BeforeMatch(w, m)]} /\ q \in {<<>>, f[AfterMatch(w, m)]}
  BY DEF BeforeMatch, AfterMatch
<1> HIDE DEF p, q, m
<1>3. IsAround(f, w, m, MatchesAround(a, b, modified, f, w))
  BY <1>1, <1>2 DEF IsAround
<1> QED
  BY <1>3 DEF m

\* The matches depend only on those of smaller windows.
LEMMA MatchesAroundSame ==
    ASSUME NEW a, NEW b, NEW modified, NEW n \in Nat, NEW w \in Windows(n), NEW f, NEW g,
           \A v \in Windows(n) : Size(n, v) < Size(n, w) => f[v] = g[v]
    PROVE  MatchesAround(a, b, modified, f, w) = MatchesAround(a, b, modified, g, w)
<1> DEFINE m == LongestMatch(a, b, modified, w)
           p(h) == IF m.i > w.begin1 /\ m.j > w.begin2
                   THEN h[BeforeMatch(w, m)] ELSE <<>>
           q(h) == IF m.i + m.size < w.end2 /\ m.j + m.size < w.end2
                   THEN h[AfterMatch(w, m)] ELSE <<>>
<1>1. \A h : MatchesAround(a, b, modified, h, w) = IF m.size = 0 THEN <<>> ELSE (p(h) \o <<m>>) \o q(h)
  BY DEF MatchesAround, BeforeMatch, AfterMatch
<1>2. MatchIn(a, b, w, m)
  BY LongestMatchIs
<1> HIDE DEF m
<1>3. m.size # 0 => f[BeforeMatch(w, m)] = g[BeforeMatch(w, m)] /\ f[AfterMatch(w, m)] = g[AfterMatch(w, m)]
  <2>1. m.size # 0 => Narrower(n, w, m)
    BY <1>2, SmallerWindows
  <2> QED
    BY <2>1 DEF Narrower
<1>4. m.size # 0 => p(f) = p(g) /\ q(f) = q(g)
  BY <1>3
<1> HIDE DEF p, q
<1> QED
  BY <1>1, <1>4

IsMatches(a, b, modified, n, f) ==
    f = [w \in Windows(n) |-> MatchesAround(a, b, modified, f, w)]

\* The function LongestMatches computes exists.
LEMMA MatchesExist ==
    ASSUME NEW a, NEW b, NEW modified, NEW n \in Nat
    PROVE  \E f : IsMatches(a, b, modified, n, f)
<1> DEFINE R(f, w) == MatchesAround(a, b, modified, f, w)
           W == Windows(n)
           S(w) == Size(n, w)
           E(f, s) == \A w \in W : S(w) < s => f[w] = R(f, w)
           T == {s \in Nat : ~ \E f : E(f, s)}
<1>s. \A w \in W : S(w) \in Nat /\ S(w) < 2 * n + 1
  BY DEF Windows, Size
<1>r. ASSUME NEW w \in W, NEW f, NEW g, \A v \in W : S(v) < S(w) => f[v] = g[v]
      PROVE  R(f, w) = R(g, w)
  BY <1>r, MatchesAroundSame
<1> HIDE DEF R, W, S
<1>1. ASSUME T # {} PROVE FALSE
  <2>1. PICK s \in T : \A t \in T : s <= t
    <3>1. T \in SUBSET Nat
      OBVIOUS
    <3> HIDE DEF T
    <3> QED
      BY <1>1, <3>1, Least
  <2>2. s # 0
    <3>1. s = 0 => E(<<>>, s)
      BY <1>s
    <3> QED
      BY <2>1, <3>1
  <2>3. s \in Nat /\ s - 1 \in Nat /\ s - 1 \notin T
    <3>1. s \in Nat
      OBVIOUS
    <3> HIDE DEF T
    <3> QED
      BY <2>1, <2>2, <3>1
  <2>4. PICK f : E(f, s - 1)
    BY <2>3
  <2> DEFINE g == [w \in W |-> R(f, w)]
  <2>5. ASSUME NEW w \in W, S(w) < s PROVE g[w] = R(g, w)
    <3>1. \A v \in W : S(v) < S(w) => f[v] = R(f, v)
      BY <1>s, <2>3, <2>4, <2>5
    <3>2. \A v \in W : S(v) < S(w) => f[v] = g[v]
      BY <3>1
    <3>3. g[w] = R(f, w)
      OBVIOUS
    <3> HIDE DEF g
    <3>4. R(f, w) = R(g, w)
      BY <1>r, <3>2
    <3> QED
      BY <3>3, <3>4
  <2> HIDE DEF g
  <2>6. E(g, s)
    BY <2>5
  <2> QED
    BY <2>1, <2>6
<1>2. \E f : E(f, 2 * n + 1)
  <2>1. T = {} => 2 * n + 1 \notin T
    OBVIOUS
  <2>2. T = {}
    <3> HIDE DEF T
    <3> QED
      BY <1>1
  <2>3. 2 * n + 1 \in Nat
    OBVIOUS
  <2> HIDE DEF E
  <2> QED
    BY <2>1, <2>2, <2>3
<1>3. PICK f : \A w \in W : f[w] = R(f, w)
  BY <1>2, <1>s
<1> DEFINE g == [w \in W |-> f[w]]
<1>4. ASSUME NEW w \in W PROVE g[w] = R(g, w)
  <2>1. \A v \in W : f[v] = g[v]
    OBVIOUS
  <2>2. g[w] = f[w]
    OBVIOUS
  <2> HIDE DEF g
  <2>3. R(f, w) = R(g, w)
    BY <1>r, <2>1
  <2> QED
    BY <1>3, <2>2, <2>3
<1>5. g = [w \in W |-> g[w]]
  OBVIOUS
<1> HIDE DEF g
<1>6. g = [w \in W |-> R(g, w)]
  BY <1>4, <1>5
<1>7. IsMatches(a, b, modified, n, g)
  BY <1>6 DEF IsMatches, R, W
<1> QED
  BY <1>7

\* Matches of one window, each before the next in both lists.
InOrder(a, b, w, X, out) ==
    /\ out \in Seq(X)
    /\ \A k \in DOMAIN out : MatchIn(a, b, w, out[k]) /\ out[k].size # 0
    /\ \A k, l \in DOMAIN out : k < l => /\ out[k].i + out[k].size <= out[l].i
                                         /\ out[k].j + out[k].size <= out[l].j

\* Matches before a position and matches after it are in order.
LEMMA InOrderJoined ==
    ASSUME NEW a, NEW b, NEW w, NEW X, NEW p, InOrder(a, b, w, X, p), NEW q, InOrder(a, b, w, X, q),
           \A k \in DOMAIN p, l \in DOMAIN q : /\ p[k].i + p[k].size <= q[l].i
                                               /\ p[k].j + p[k].size <= q[l].j
    PROVE  InOrder(a, b, w, X, p \o q)
<1> DEFINE c == p \o q
<1>0. p \in Seq(X) /\ q \in Seq(X)
  BY DEF InOrder
<1>1. /\ c \in Seq(X) /\ Len(c) = Len(p) + Len(q)
      /\ \A k \in 1 .. Len(p) + Len(q) : c[k] = IF k <= Len(p) THEN p[k] ELSE q[k - Len(p)]
  BY <1>0, ConcatProperties
<1>2. Len(p) \in Nat /\ Len(q) \in Nat /\ DOMAIN p = 1 .. Len(p) /\ DOMAIN q = 1 .. Len(q)
  BY <1>0
<1> HIDE DEF c
<1>3. DOMAIN c = 1 .. Len(p) + Len(q)
  BY <1>1, <1>2
<1>4. \A k \in DOMAIN c : /\ k \in Nat
                          /\ \/ k \in DOMAIN p /\ c[k] = p[k]
                             \/ k - Len(p) \in DOMAIN q /\ c[k] = q[k - Len(p)]
  <2> TAKE k \in DOMAIN c
  <2>1. k \in 1 .. Len(p) + Len(q) /\ k \in Nat
    BY <1>2, <1>3
  <2>2. CASE k <= Len(p)
    BY <1>1, <1>2, <2>1, <2>2
  <2>3. CASE ~(k <= Len(p))
    <3>1. k - Len(p) \in 1 .. Len(q)
      BY <1>2, <2>1, <2>3
    <3> QED
      BY <1>1, <1>2, <2>1, <2>3, <3>1
  <2> QED
    BY <2>2, <2>3
<1>5. \A k \in DOMAIN c : MatchIn(a, b, w, c[k]) /\ c[k].size # 0
  BY <1>4 DEF InOrder
<1>6. ASSUME NEW k \in DOMAIN c, NEW l \in DOMAIN c, k < l
      PROVE  c[k].i + c[k].size <= c[l].i /\ c[k].j + c[k].size <= c[l].j
  <2>n. k \in Nat /\ l \in Nat
    BY <1>4
  <2>1. CASE k \in DOMAIN p /\ c[k] = p[k] /\ l \in DOMAIN p /\ c[l] = p[l]
    BY <1>6, <2>1 DEF InOrder
  <2>2. CASE k - Len(p) \in DOMAIN q /\ c[k] = q[k - Len(p)] /\ l - Len(p) \in DOMAIN q /\ c[l] = q[l - Len(p)]
    <3>1. k - Len(p) < l - Len(p)
      BY <1>2, <1>6, <2>n
    <3> QED
      BY <2>2, <3>1 DEF InOrder
  <2>3. CASE k \in DOMAIN p /\ c[k] = p[k] /\ l - Len(p) \in DOMAIN q /\ c[l] = q[l - Len(p)]
    BY <2>3
  <2>4. CASE l \in DOMAIN p /\ c[l] = p[l] /\ k - Len(p) \in DOMAIN q /\ c[k] = q[k - Len(p)]
    <3>1. l <= Len(p) /\ k - Len(p) >= 1
      BY <1>2, <2>4, <2>n
    <3> QED
      BY <1>2, <1>6, <2>n, <3>1
  <2> QED
    BY <1>4, <2>1, <2>2, <2>3, <2>4
<1>7. InOrder(a, b, w, X, c)
  BY <1>1, <1>5, <1>6 DEF InOrder
<1> QED
  BY <1>7 DEF c

\* A match in a smaller window is one of the window.
LEMMA Widened ==
    ASSUME NEW a, NEW b, NEW v, NEW w, NEW X, NEW out, InOrder(a, b, v, X, out),
           /\ v.begin1 \in Nat /\ v.end1 \in Nat /\ v.begin2 \in Nat /\ v.end2 \in Nat
           /\ w.begin1 \in Nat /\ w.end1 \in Nat /\ w.begin2 \in Nat /\ w.end2 \in Nat
           /\ w.begin1 <= v.begin1 /\ v.end1 <= w.end1 /\ w.begin2 <= v.begin2 /\ v.end2 <= w.end2
    PROVE  InOrder(a, b, w, X, out)
<1>1. ASSUME NEW k \in DOMAIN out PROVE MatchIn(a, b, w, out[k]) /\ out[k].size # 0
  <2>1. MatchIn(a, b, v, out[k]) /\ out[k].size # 0
    BY DEF InOrder
  <2> QED
    BY <2>1 DEF MatchIn
<1> QED
  BY <1>1 DEF InOrder

\* No matches are in order.
LEMMA NoneInOrder ==
    ASSUME NEW a, NEW b, NEW w, NEW X
    PROVE  InOrder(a, b, w, X, <<>>)
<1>1. <<>> \in Seq(X) /\ DOMAIN <<>> = {}
  OBVIOUS
<1> QED
  BY <1>1 DEF InOrder

\* A single match is in order.
LEMMA OneInOrder ==
    ASSUME NEW a, NEW b, NEW w, NEW X, NEW m \in X, MatchIn(a, b, w, m), m.size # 0
    PROVE  InOrder(a, b, w, X, <<m>>)
<1>1. <<m>> \in Seq(X) /\ DOMAIN <<m>> = {1} /\ <<m>>[1] = m
  OBVIOUS
<1> DEFINE s == <<m>>
<1>2. s \in Seq(X) /\ DOMAIN s = {1} /\ s[1] = m
  BY <1>1
<1> HIDE DEF s
<1>3. InOrder(a, b, w, X, s)
  BY <1>2 DEF InOrder
<1> QED
  BY <1>3 DEF s

\* The longest match with those of the windows before and after it.
LEMMA AroundInOrder ==
    ASSUME NEW a, NEW b, NEW n \in Nat, NEW w \in Windows(n), NEW X,
           NEW m \in X, MatchIn(a, b, w, m), m.size # 0,
           NEW p, InOrder(a, b, BeforeMatch(w, m), X, p) \/ p = <<>>,
           NEW q, InOrder(a, b, AfterMatch(w, m), X, q) \/ q = <<>>
    PROVE  InOrder(a, b, w, X, (p \o <<m>>) \o q)
<1>1. /\ BeforeMatch(w, m) \in Windows(n) /\ AfterMatch(w, m) \in Windows(n)
      /\ BeforeMatch(w, m).begin1 = w.begin1 /\ BeforeMatch(w, m).begin2 = w.begin2
      /\ BeforeMatch(w, m).end1 = m.i /\ BeforeMatch(w, m).end2 = m.j
      /\ AfterMatch(w, m).begin1 = m.i + m.size /\ AfterMatch(w, m).begin2 = m.j + m.size
      /\ AfterMatch(w, m).end1 = w.end1 /\ AfterMatch(w, m).end2 = w.end2
  <2>1. Narrower(n, w, m)
    BY SmallerWindows
  <2> QED
    BY <2>1 DEF Narrower
<1>2. /\ m.i \in Nat /\ m.j \in Nat /\ m.size \in Nat
      /\ w.begin1 <= m.i /\ m.i + m.size <= w.end1
      /\ w.begin2 <= m.j /\ m.j + m.size <= w.end2
  BY DEF MatchIn
<1>3. \A v \in Windows(n) : v.begin1 \in Nat /\ v.end1 \in Nat /\ v.begin2 \in Nat /\ v.end2 \in Nat
  BY DEF Windows
<1>4. InOrder(a, b, BeforeMatch(w, m), X, p) /\ InOrder(a, b, AfterMatch(w, m), X, q)
  BY NoneInOrder
<1> DEFINE u == BeforeMatch(w, m)
           v == AfterMatch(w, m)
<1> HIDE DEF u, v
<1>u. /\ u \in Windows(n) /\ v \in Windows(n)
      /\ u.begin1 = w.begin1 /\ u.begin2 = w.begin2 /\ u.end1 = m.i /\ u.end2 = m.j
      /\ v.begin1 = m.i + m.size /\ v.begin2 = m.j + m.size /\ v.end1 = w.end1 /\ v.end2 = w.end2
  BY <1>1 DEF u, v
<1>5. /\ u.begin1 \in Nat /\ u.end1 \in Nat /\ u.begin2 \in Nat /\ u.end2 \in Nat
      /\ v.begin1 \in Nat /\ v.end1 \in Nat /\ v.begin2 \in Nat /\ v.end2 \in Nat
      /\ w.begin1 \in Nat /\ w.end1 \in Nat /\ w.begin2 \in Nat /\ w.end2 \in Nat
      /\ w.begin1 <= u.begin1 /\ u.end1 <= w.end1 /\ w.begin2 <= u.begin2 /\ u.end2 <= w.end2
      /\ w.begin1 <= v.begin1 /\ v.end1 <= w.end1 /\ w.begin2 <= v.begin2 /\ v.end2 <= w.end2
  <2>1. u.begin1 \in Nat /\ u.end1 \in Nat /\ u.begin2 \in Nat /\ u.end2 \in Nat
    BY <1>3, <1>u
  <2>2. v.begin1 \in Nat /\ v.end1 \in Nat /\ v.begin2 \in Nat /\ v.end2 \in Nat
    BY <1>3, <1>u
  <2>3. w.begin1 \in Nat /\ w.end1 \in Nat /\ w.begin2 \in Nat /\ w.end2 \in Nat
    BY <1>3
  <2>4. w.begin1 <= u.begin1 /\ u.end1 <= w.end1 /\ w.begin2 <= u.begin2 /\ u.end2 <= w.end2
    <3>1. m.i <= w.end1 /\ m.j <= w.end2
      BY <1>2, <2>3
    <3> QED
      BY <1>u, <2>3, <3>1
  <2>5. w.begin1 <= v.begin1 /\ v.end1 <= w.end1 /\ w.begin2 <= v.begin2 /\ v.end2 <= w.end2
    <3>1. w.begin1 <= m.i + m.size /\ w.begin2 <= m.j + m.size
      BY <1>2, <2>3
    <3> QED
      BY <1>u, <2>3, <3>1
  <2> QED
    BY <2>1, <2>2, <2>3, <2>4, <2>5
<1>6. InOrder(a, b, w, X, p)
  <2>1. InOrder(a, b, u, X, p)
    BY <1>4 DEF u
  <2> QED
    BY <1>5, <2>1, Widened
<1>7. InOrder(a, b, w, X, q)
  <2>1. InOrder(a, b, v, X, q)
    BY <1>4 DEF v
  <2> QED
    BY <1>5, <2>1, Widened
<1>8. InOrder(a, b, w, X, <<m>>)
  BY OneInOrder
<1>9. \A k \in DOMAIN p : p[k].i + p[k].size <= m.i /\ p[k].j + p[k].size <= m.j
  BY <1>1, <1>4 DEF InOrder, MatchIn
<1>10. \A l \in DOMAIN q : m.i + m.size <= q[l].i /\ m.j + m.size <= q[l].j
  BY <1>1, <1>4 DEF InOrder, MatchIn
<1> DEFINE s == <<m>>
<1>11. DOMAIN s = {1} /\ s[1] = m /\ Len(s) = 1
  OBVIOUS
<1> HIDE DEF s
<1>12. InOrder(a, b, w, X, p \o s)
  <2>1. InOrder(a, b, w, X, s)
    BY <1>8 DEF s
  <2>2. \A k \in DOMAIN p, l \in DOMAIN s : p[k].i + p[k].size <= s[l].i /\ p[k].j + p[k].size <= s[l].j
    BY <1>9, <1>11
  <2> QED
    BY <1>6, <2>1, <2>2, InOrderJoined
<1> DEFINE c == p \o s
<1>13. \A k \in DOMAIN c : c[k].i + c[k].size <= m.i + m.size /\ c[k].j + c[k].size <= m.j + m.size
  <2>1. p \in Seq(X) /\ s \in Seq(X)
    BY <1>6, <1>8 DEF InOrder, s
  <2>2. /\ c \in Seq(X) /\ Len(c) = Len(p) + Len(s)
        /\ \A k \in 1 .. Len(p) + Len(s) : c[k] = IF k <= Len(p) THEN p[k] ELSE s[k - Len(p)]
    BY <2>1, ConcatProperties
  <2>3. Len(p) \in Nat /\ DOMAIN p = 1 .. Len(p)
    BY <2>1
  <2> HIDE DEF c
  <2>4. DOMAIN c = 1 .. Len(p) + 1
    BY <1>11, <2>2, <2>3
  <2> TAKE k \in DOMAIN c
  <2>5. k \in 1 .. Len(p) + 1
    BY <2>4
  <2>6. CASE k <= Len(p)
    <3>1. k \in DOMAIN p /\ c[k] = p[k]
      BY <1>11, <2>2, <2>3, <2>5, <2>6
    <3>2. p[k].i + p[k].size <= m.i /\ p[k].j + p[k].size <= m.j
      BY <1>9, <3>1
    <3>3. p[k].i \in Nat /\ p[k].j \in Nat /\ p[k].size \in Nat
      BY <1>6, <3>1 DEF InOrder, MatchIn
    <3> QED
      BY <1>2, <3>1, <3>2, <3>3
  <2>7. CASE ~(k <= Len(p))
    <3>1. k - Len(p) = 1
      BY <2>3, <2>5, <2>7
    <3>2. c[k] = m
      BY <1>11, <2>2, <2>5, <2>7, <3>1
    <3> QED
      BY <1>2, <3>2
  <2> QED
    BY <2>6, <2>7
<1>14. \A k \in DOMAIN c, l \in DOMAIN q : c[k].i + c[k].size <= q[l].i /\ c[k].j + c[k].size <= q[l].j
  <2> TAKE k \in DOMAIN c, l \in DOMAIN q
  <2>1. c[k].i \in Nat /\ c[k].j \in Nat /\ c[k].size \in Nat
    <3> HIDE DEF c
    <3> QED
      BY <1>12 DEF InOrder, MatchIn, c
  <2>2. q[l].i \in Nat /\ q[l].j \in Nat
    BY <1>7 DEF InOrder, MatchIn
  <2>3. c[k].i + c[k].size <= m.i + m.size /\ c[k].j + c[k].size <= m.j + m.size
    BY <1>13
  <2> HIDE DEF c
  <2>4. m.i + m.size <= q[l].i /\ m.j + m.size <= q[l].j
    BY <1>10
  <2>5. /\ c[k].i + c[k].size \in Nat /\ c[k].j + c[k].size \in Nat
        /\ m.i + m.size \in Nat /\ m.j + m.size \in Nat
    <3>1. \A x, y \in Nat : x + y \in Nat
      OBVIOUS
    <3> QED
      BY <1>2, <2>1, <3>1, Zenon
  <2>6. \A x, y, z \in Nat : x <= y /\ y <= z => x <= z
    OBVIOUS
  <2>7. c[k].i + c[k].size <= q[l].i
    BY <2>2, <2>3, <2>4, <2>5, <2>6, Zenon
  <2>8. c[k].j + c[k].size <= q[l].j
    BY <2>2, <2>3, <2>4, <2>5, <2>6, Zenon
  <2> QED
    BY <2>7, <2>8
<1>15. InOrder(a, b, w, X, c)
  BY <1>12
<1> HIDE DEF c
<1>16. InOrder(a, b, w, X, c \o q)
  BY <1>7, <1>14, <1>15, InOrderJoined
<1> QED
  BY <1>16 DEF c, s

\* The matches of LongestMatches are in order.
LEMMA MatchesInOrder ==
    ASSUME NEW a, NEW b, NEW modified, Len(a) \in Nat, NEW w \in Windows(Len(a)),
           NEW X, X = {LongestMatch(a, b, modified, v) : v \in Windows(Len(a))}
    PROVE  InOrder(a, b, w, X, LongestMatches(a, b, modified)[w])
<1> DEFINE n == Len(a)
           f == CHOOSE g : IsMatches(a, b, modified, n, g)
           T == {s \in Nat : \E v \in Windows(n) : Size(n, v) = s /\ ~InOrder(a, b, v, X, f[v])}
<1>1. LongestMatches(a, b, modified) = f
  BY DEF LongestMatches, IsMatches
<1>2. IsMatches(a, b, modified, n, f)
  BY MatchesExist
<1> HIDE DEF f
<1>3. \A v \in Windows(n) : f[v] = MatchesAround(a, b, modified, f, v)
  <2> DEFINE h(v) == MatchesAround(a, b, modified, f, v)
  <2>1. f = [v \in Windows(n) |-> h(v)]
    BY <1>2 DEF IsMatches
  <2> HIDE DEF h
  <2>2. \A v \in Windows(n) : f[v] = h(v)
    BY <2>1
  <2> QED
    BY <2>2 DEF h
<1>s. \A v \in Windows(n) : Size(n, v) \in Nat
  BY DEF Windows, Size
<1>4. SUFFICES ASSUME T # {} PROVE FALSE
  <2>1. n \in Nat /\ w \in Windows(n)
    OBVIOUS
  <2> HIDE DEF n
  <2>2. ~InOrder(a, b, w, X, f[w]) => Size(n, w) \in T
    BY <1>s, <2>1
  <2> HIDE DEF T
  <2> QED
    BY <1>1, <2>2
<1>n. n \in Nat /\ X = {LongestMatch(a, b, modified, v) : v \in Windows(n)}
  OBVIOUS
<1> HIDE DEF n
<1>5. PICK s \in T : \A t \in T : s <= t
  <2>1. T \in SUBSET Nat
    OBVIOUS
  <2> HIDE DEF T
  <2> QED
    BY <1>4, <2>1, Least
<1>6. PICK v \in Windows(n) : Size(n, v) = s /\ ~InOrder(a, b, v, X, f[v])
  OBVIOUS
<1>7. \A u \in Windows(n) : Size(n, u) < s => InOrder(a, b, u, X, f[u])
  <2> TAKE u \in Windows(n)
  <2>1. s \in Nat /\ Size(n, u) \in Nat
    BY <1>s, <1>6
  <2>2. ~InOrder(a, b, u, X, f[u]) => Size(n, u) \in T
    BY <1>s
  <2> HIDE DEF T
  <2> QED
    BY <1>5, <2>1, <2>2
<1> HIDE DEF T
<1> DEFINE m == LongestMatch(a, b, modified, v)
<1>8. MatchIn(a, b, v, m) /\ m \in X
  BY <1>n, LongestMatchIs
<1>f. IsAround(f, v, m, MatchesAround(a, b, modified, f, v))
  BY MatchesAroundIs
<1> HIDE DEF m
<1>9. CASE m.size = 0
  <2>1. f[v] = <<>>
    BY <1>3, <1>9, <1>f DEF IsAround
  <2> QED
    BY <1>6, <2>1, NoneInOrder
<1>10. CASE m.size # 0
  <2>1. PICK p \in {<<>>, f[BeforeMatch(v, m)]}, q \in {<<>>, f[AfterMatch(v, m)]} :
            MatchesAround(a, b, modified, f, v) = (p \o <<m>>) \o q
    BY <1>10, <1>f DEF IsAround
  <2>2. /\ BeforeMatch(v, m) \in Windows(n) /\ AfterMatch(v, m) \in Windows(n)
        /\ Size(n, BeforeMatch(v, m)) < Size(n, v)
        /\ Size(n, AfterMatch(v, m)) < Size(n, v)
    <3>1. Narrower(n, v, m)
      BY <1>n, <1>8, <1>10, SmallerWindows
    <3> QED
      BY <3>1 DEF Narrower
  <2>3. /\ InOrder(a, b, BeforeMatch(v, m), X, f[BeforeMatch(v, m)])
        /\ InOrder(a, b, AfterMatch(v, m), X, f[AfterMatch(v, m)])
    BY <1>6, <1>7, <2>2
  <2>4. /\ InOrder(a, b, BeforeMatch(v, m), X, p) \/ p = <<>>
        /\ InOrder(a, b, AfterMatch(v, m), X, q) \/ q = <<>>
    BY <2>1, <2>3
  <2>5. InOrder(a, b, v, X, (p \o <<m>>) \o q)
    BY <1>n, <1>8, <1>10, <2>4, AroundInOrder
  <2> QED
    BY <1>3, <1>6, <2>1, <2>5
<1> QED
  BY <1>9, <1>10

\* There are as many rows as positions.
LEMMA RowsCount ==
    ASSUME NEW a, RowList(a)
    PROVE  /\ IsFiniteSet(Elements(a)) /\ Cardinality(Elements(a)) = Len(a)
           /\ Len(a) \in Nat
<1>1. a \in Seq(Nat)
  BY DEF RowList
<1>2. /\ Len(a) \in Nat
      /\ IsFiniteSet(Positions(a)) /\ Cardinality(Positions(a)) = Len(a)
      /\ Elements(a) = {At(a, i) : i \in Positions(a)}
  BY <1>1, PositionsAre
<1> DEFINE f == [i \in Positions(a) |-> At(a, i)]
<1>3. f \in Bijection(Positions(a), Elements(a))
  <2>1. f \in [Positions(a) -> Elements(a)]
    BY <1>2
  <2>2. \A i, k \in Positions(a) : f[i] = f[k] => i = k
    BY DEF RowList
  <2>3. \A v \in Elements(a) : \E i \in Positions(a) : f[i] = v
    BY <1>2
  <2> HIDE DEF f
  <2> QED
    BY <2>1, <2>2, <2>3 DEF Bijection, Injection, Surjection, IsInjective
<1>4. ExistsBijection(Positions(a), Elements(a))
  BY <1>3 DEF ExistsBijection
<1> QED
  BY <1>2, <1>4, FS_Bijection

\* The rows before the first difference, and those of matches in order after it.
AlignedRows(a, first, out) ==
    {At(a, i) : i \in 0 .. first - 1} \cup
    UNION {{At(a, m.i + k) : k \in 0 .. m.size - 1} : m \in Elements(out)}

\* Two rows of one block.
LEMMA BlockOrder ==
    ASSUME NEW i \in Nat, NEW j \in Nat, NEW d \in Nat, NEW e \in Nat
    PROVE  (i + d < i + e <=> d < e) /\ (j + d < j + e <=> d < e)
OBVIOUS

\* A row of a block and one of a later block.
LEMMA OrderedBlocks ==
    ASSUME NEW a, NEW b, NEW w, NEW X, NEW out, InOrder(a, b, w, X, out),
           NEW k \in DOMAIN out, NEW l \in DOMAIN out, k < l,
           NEW d \in Nat, d < out[k].size, NEW e \in Nat
    PROVE  out[k].i + d < out[l].i + e /\ out[k].j + d < out[l].j + e
<1> DEFINE m == out[k]
           n == out[l]
<1>1. /\ m.i \in Nat /\ m.j \in Nat /\ m.size \in Nat /\ n.i \in Nat /\ n.j \in Nat
      /\ m.i + m.size <= n.i /\ m.j + m.size <= n.j
  BY DEF InOrder, MatchIn
<1>2. d < m.size
  OBVIOUS
<1> HIDE DEF m, n
<1>3. m.i + d < n.i + e /\ m.j + d < n.j + e
  BY <1>1, <1>2
<1> QED
  BY <1>3 DEF m, n

\* Blocks do not reach beyond the rows.
LEMMA RowOfBlock ==
    ASSUME NEW i \in Nat, NEW size \in Nat, NEW n \in Nat, i + size <= n, NEW d \in Nat, d < size
    PROVE  i + d \in Nat /\ i + d < n
OBVIOUS

\* The aligned rows are in the same order in both lists.
LEMMA AlignedOrder ==
    ASSUME NEW a, RowList(a), NEW b, RowList(b), Len(a) = Len(b),
           NEW first \in 0 .. Len(a), \A i \in 0 .. first - 1 : At(a, i) = At(b, i),
           NEW w, w.begin1 = first, w.end1 = Len(a), w.begin2 = first, w.end2 = Len(b),
           NEW X, NEW out, InOrder(a, b, w, X, out)
    PROVE  SameOrder(a, b, AlignedRows(a, first, out))
<1>1. /\ a \in Seq(Nat) /\ b \in Seq(Nat)
      /\ \A i, k \in Positions(a) : At(a, i) = At(a, k) => i = k
      /\ \A i, k \in Positions(b) : At(b, i) = At(b, k) => i = k
  BY DEF RowList
<1>2. /\ Len(a) \in Nat /\ Len(b) \in Nat
      /\ \A i \in Nat : i \in Positions(a) <=> i < Len(a)
      /\ \A i \in Nat : i \in Positions(b) <=> i < Len(b)
      /\ Positions(a) \in SUBSET Nat /\ Positions(b) \in SUBSET Nat
  BY <1>1, PositionsAre
<1> DEFINE InBlock(x, y) == \E k \in DOMAIN out : \E d \in Nat :
               d < out[k].size /\ x = out[k].i + d /\ y = out[k].j + d
           Matched(x, y) == (x < first /\ y = x) \/ InBlock(x, y)
<1>3. \A k \in DOMAIN out : /\ out[k].i \in Nat /\ out[k].j \in Nat /\ out[k].size \in Nat
                            /\ first <= out[k].i /\ out[k].i + out[k].size <= Len(a)
                            /\ first <= out[k].j /\ out[k].j + out[k].size <= Len(a)
                            /\ \A d \in 0 .. out[k].size - 1 : At(a, out[k].i + d) = At(b, out[k].j + d)
  BY DEF InOrder, MatchIn
<1>4. ASSUME NEW x \in Positions(a), NEW y \in Positions(b), At(a, x) = At(b, y),
             At(a, x) \in AlignedRows(a, first, out)
      PROVE  Matched(x, y)
  <2>1. \/ \E i \in 0 .. first - 1 : At(a, x) = At(a, i)
        \/ \E k \in DOMAIN out : \E d \in 0 .. out[k].size - 1 : At(a, x) = At(a, out[k].i + d)
    BY <1>4 DEF AlignedRows, Elements
  <2>2. CASE \E i \in 0 .. first - 1 : At(a, x) = At(a, i)
    <3>1. PICK i \in 0 .. first - 1 : At(a, x) = At(a, i)
      BY <2>2
    <3>2. i \in Nat /\ i < first /\ i \in Positions(a) /\ i \in Positions(b)
      BY <1>2
    <3>3. x = i
      BY <1>1, <3>1, <3>2
    <3>4. At(b, y) = At(b, i)
      BY <1>4, <3>1
    <3>5. y = i
      BY <1>1, <3>2, <3>4
    <3> QED
      BY <3>2, <3>3, <3>5
  <2>3. CASE \E k \in DOMAIN out : \E d \in 0 .. out[k].size - 1 : At(a, x) = At(a, out[k].i + d)
    <3>1. PICK k \in DOMAIN out : \E d \in 0 .. out[k].size - 1 : At(a, x) = At(a, out[k].i + d)
      BY <2>3
    <3>2. PICK d \in 0 .. out[k].size - 1 : At(a, x) = At(a, out[k].i + d)
      BY <3>1
    <3>k. /\ out[k].i \in Nat /\ out[k].j \in Nat /\ out[k].size \in Nat
          /\ out[k].i + out[k].size <= Len(a) /\ out[k].j + out[k].size <= Len(a)
          /\ At(a, out[k].i + d) = At(b, out[k].j + d)
      BY <1>3
    <3>3. d \in Nat /\ d < out[k].size
      BY <3>k
    <3>4. /\ out[k].i + d \in Nat /\ out[k].i + d < Len(a)
          /\ out[k].j + d \in Nat /\ out[k].j + d < Len(b)
      BY <1>2, <3>k, <3>3, RowOfBlock
    <3>5. out[k].i + d \in Positions(a) /\ out[k].j + d \in Positions(b)
      BY <1>2, <3>4
    <3>6. x = out[k].i + d
      BY <1>1, <3>2, <3>5
    <3>7. y = out[k].j + d
      BY <1>1, <1>4, <3>2, <3>k, <3>5
    <3>8. InBlock(x, y)
      BY <3>3, <3>6, <3>7
    <3> QED
      BY <3>8
  <2> QED
    BY <2>1, <2>2, <2>3
<1>5. ASSUME NEW x, NEW y, InBlock(x, y)
      PROVE  x \in Nat /\ y \in Nat /\ first <= x /\ first <= y
  <2>1. PICK k \in DOMAIN out, d \in Nat : x = out[k].i + d /\ y = out[k].j + d
    BY <1>5
  <2> DEFINE i == out[k].i
             j == out[k].j
  <2>2. i \in Nat /\ j \in Nat /\ first <= i /\ first <= j /\ first \in Nat
    BY <1>3
  <2>3. x = i + d /\ y = j + d
    BY <2>1
  <2> HIDE DEF i, j
  <2> QED
    BY <2>2, <2>3
<1>6. ASSUME NEW x, NEW y, InBlock(x, y), NEW u, NEW v, InBlock(u, v)
      PROVE  x < u <=> y < v
  <2>1. PICK k \in DOMAIN out : \E d \in Nat : d < out[k].size /\ x = out[k].i + d /\ y = out[k].j + d
    BY <1>6
  <2>2. PICK l \in DOMAIN out : \E d \in Nat : d < out[l].size /\ u = out[l].i + d /\ v = out[l].j + d
    BY <1>6
  <2>3. PICK d \in Nat : d < out[k].size /\ x = out[k].i + d /\ y = out[k].j + d
    BY <2>1
  <2>4. PICK e \in Nat : e < out[l].size /\ u = out[l].i + e /\ v = out[l].j + e
    BY <2>2
  <2>5. /\ out[k].i \in Nat /\ out[k].j \in Nat /\ out[k].size \in Nat
        /\ out[l].i \in Nat /\ out[l].j \in Nat /\ out[l].size \in Nat
    BY <1>3
  <2>6. k \in Nat /\ l \in Nat
    BY DEF InOrder
  <2> HIDE DEF InBlock
  <2>7. CASE k = l
    BY <2>3, <2>4, <2>5, <2>7, BlockOrder
  <2>8. CASE k < l
    <3>2. /\ out[k].i + d < out[l].i + e /\ out[k].j + d < out[l].j + e
      BY <2>3, <2>4, <2>8, OrderedBlocks
    <3> QED
      BY <2>3, <2>4, <3>2
  <2>9. CASE l < k
    <3>2. /\ out[l].i + e < out[k].i + d /\ out[l].j + e < out[k].j + d
      BY <2>3, <2>4, <2>9, OrderedBlocks
    <3>3. u < x /\ v < y
      BY <2>3, <2>4, <3>2
    <3>4. x \in Nat /\ y \in Nat /\ u \in Nat /\ v \in Nat
      BY <1>5, <1>6
    <3> QED
      BY <3>3, <3>4
  <2> QED
    BY <2>6, <2>7, <2>8, <2>9
<1> HIDE DEF InBlock
<1>7. ASSUME NEW x \in Positions(a), NEW u \in Positions(a), NEW y \in Positions(b), NEW v \in Positions(b),
             Matched(x, y), Matched(u, v)
      PROVE  x < u <=> y < v
  <2>n. x \in Nat /\ u \in Nat /\ y \in Nat /\ v \in Nat /\ first \in Nat
    BY <1>2
  <2>1. CASE (x < first /\ y = x) /\ (u < first /\ v = u)
    BY <2>1
  <2>2. CASE (x < first /\ y = x) /\ InBlock(u, v)
    BY <1>5, <2>2, <2>n
  <2>3. CASE InBlock(x, y) /\ (u < first /\ v = u)
    BY <1>5, <2>3, <2>n
  <2>4. CASE InBlock(x, y) /\ InBlock(u, v)
    BY <1>6, <2>4
  <2> QED
    BY <1>7, <2>1, <2>2, <2>3, <2>4
<1> HIDE DEF Matched
<1> QED
  BY <1>4, <1>7 DEF SameOrder

\* Some of the rows that are in the same order are in the same order.
LEMMA FewerInOrder ==
    ASSUME NEW a, NEW b, NEW A, SameOrder(a, b, A), NEW B, B \subseteq A
    PROVE  SameOrder(a, b, B)
BY DEF SameOrder

\* What AlignSorted finds of the rows of both results.
LEMMA SortedAligned ==
    ASSUME NEW a, RowList(a), NEW b, RowList(b), Elements(a) = Elements(b), a # b,
           NEW modified,
           NEW first, first = Sets!Min({i \in Positions(a) : At(a, i) # At(b, i)}),
           NEW out, out = LongestMatches(a, b, modified)
                     [[begin1 |-> first, end1 |-> Len(a), begin2 |-> first, end2 |-> Len(b)]]
    PROVE  SameOrder(a, b, AlignedRows(a, first, out))
<1>1. Len(a) = Len(b) /\ Len(a) \in Nat
  BY RowsCount
<1>2. a \in Seq(Nat) /\ b \in Seq(Nat)
  BY DEF RowList
<1>3. /\ Positions(a) \in SUBSET Nat
      /\ \A i \in Nat : i \in Positions(a) <=> i < Len(a)
  BY <1>2, PositionsAre
<1> DEFINE T == {i \in Positions(a) : At(a, i) # At(b, i)}
<1>4. T # {}
  <2>1. SUFFICES ASSUME T = {} PROVE FALSE
    OBVIOUS
  <2>2. \A i \in Positions(a) : At(a, i) = At(b, i)
    BY <2>1
  <2>3. \A k \in 1 .. Len(a) : a[k] = b[k]
    <3> TAKE k \in 1 .. Len(a)
    <3>1. k - 1 \in Positions(a) /\ (k - 1) + 1 = k
      BY <1>1 DEF Positions
    <3>2. At(a, k - 1) = At(b, k - 1)
      BY <2>2, <3>1
    <3> QED
      BY <3>1, <3>2 DEF At
  <2>4. a = b
    BY <1>1, <1>2, <2>3
  <2> QED
    BY <2>4
<1>5. T \in SUBSET Nat
  BY <1>3
<1>l. \A i \in T : i < Len(a)
  BY <1>3
<1>6. first = Sets!Min(T)
  OBVIOUS
<1>t. \A i \in Positions(a) : i \notin T => At(a, i) = At(b, i)
  OBVIOUS
<1> HIDE DEF T
<1>7. first \in T /\ \A x \in T : first <= x
  <2>1. Sets!Min(T) \in T /\ \A x \in T : Sets!Min(T) <= x
    BY <1>4, <1>5, Smallest
  <2> HIDE DEF Sets!Min
  <2> QED
    BY <1>6, <2>1
<1>8. first \in 0 .. Len(a) /\ first \in Nat /\ first < Len(a)
  BY <1>1, <1>5, <1>7, <1>l
<1>9. \A i \in 0 .. first - 1 : At(a, i) = At(b, i)
  <2> TAKE i \in 0 .. first - 1
  <2>1. i \in Nat /\ i < first /\ i < Len(a)
    BY <1>1, <1>8
  <2>2. i \in Positions(a)
    BY <1>3, <2>1
  <2>3. i \notin T
    BY <1>7, <1>8, <2>1
  <2> QED
    BY <1>t, <2>2, <2>3
<1> DEFINE w == [begin1 |-> first, end1 |-> Len(a), begin2 |-> first, end2 |-> Len(b)]
           X == {LongestMatch(a, b, modified, v) : v \in Windows(Len(a))}
<1>10. w \in Windows(Len(a))
  <2>1. Len(a) \in 0 .. Len(a) /\ Len(b) \in 0 .. Len(a)
    BY <1>1
  <2> QED
    BY <1>8, <2>1 DEF Windows
<1>11. w.begin1 = first /\ w.end1 = Len(a) /\ w.begin2 = first /\ w.end2 = Len(b)
  OBVIOUS
<1>12. out = LongestMatches(a, b, modified)[w]
  OBVIOUS
<1> HIDE DEF w
<1>13. InOrder(a, b, w, X, out)
  <2>1. X = {LongestMatch(a, b, modified, v) : v \in Windows(Len(a))}
    OBVIOUS
  <2> HIDE DEF X
  <2> QED
    BY <1>1, <1>10, <1>12, <2>1, MatchesInOrder
<1> HIDE DEF X
<1> QED
  BY <1>1, <1>8, <1>9, <1>11, <1>13, AlignedOrder

\* The rows of equal lists are in the same order.
LEMMA EqualInOrder ==
    ASSUME NEW a, RowList(a), NEW A
    PROVE  SameOrder(a, a, A)
BY DEF SameOrder, RowList

InAscendingOrder(list) == \A i, k \in Positions(list) : i < k => At(list, i) < At(list, k)

\* Ascending rows are in the same order.
LEMMA AscendingInOrder ==
    ASSUME NEW a, RowList(a), InAscendingOrder(a), NEW b, RowList(b), InAscendingOrder(b), NEW A
    PROVE  SameOrder(a, b, A)
<1>1. a \in Seq(Nat) /\ b \in Seq(Nat)
  BY DEF RowList
<1>2. /\ Positions(a) \in SUBSET Nat /\ \A i \in Positions(a) : At(a, i) \in Nat
      /\ Positions(b) \in SUBSET Nat /\ \A i \in Positions(b) : At(b, i) \in Nat
  BY <1>1, PositionsAre
<1>3. ASSUME NEW x \in Positions(a), NEW k \in Positions(a), NEW y \in Positions(b), NEW l \in Positions(b),
             At(a, x) = At(b, y), At(a, k) = At(b, l)
      PROVE  x < k <=> y < l
  <2>n. /\ x \in Nat /\ k \in Nat /\ y \in Nat /\ l \in Nat
        /\ At(a, x) \in Nat /\ At(a, k) \in Nat /\ At(b, y) \in Nat /\ At(b, l) \in Nat
    BY <1>2
  <2>1. /\ x < k => At(a, x) < At(a, k)
        /\ k < x => At(a, k) < At(a, x)
        /\ y < l => At(b, y) < At(b, l)
        /\ l < y => At(b, l) < At(b, y)
    BY DEF InAscendingOrder
  <2>2. /\ x = k => At(a, x) = At(a, k)
        /\ y = l => At(b, y) = At(b, l)
    OBVIOUS
  <2> QED
    BY <1>3, <2>n, <2>1, <2>2
<1> QED
  BY <1>3 DEF SameOrder

\* The changes of two runs are those of rows in only one of them and of others
\* that are left out; the rest are in the same order.
LEMMA OnlySound ==
    ASSUME NEW old, RowList(old), NEW new, RowList(new),
           NEW R, SameOrder(old, new, (Elements(old) \cap Elements(new)) \ R),
           NEW c, IsBuilder(c), c.moves = <<>>,
           c.deletions = OnlyIn(old, new) \cup PositionsOf(old, R),
           c.insertions = OnlyIn(new, old) \cup PositionsOf(new, R)
    PROVE  SoundBuilder(old, new, c)
<1>1. Same(old, new, c.deletions, c.insertions)
  BY Aligned
<1>2. Sound(old, new, c.deletions, c.insertions, <<>>)
  BY <1>1 DEF Sound, Apart
<1> QED
  BY <1>2 DEF SoundBuilder

\* Calculate turns the rows of one run of a query into those of the next.
THEOREM CalculateSound ==
    ASSUME NEW old, RowList(old), NEW new, RowList(new), NEW changed, NEW inTableOrder \in BOOLEAN,
           inTableOrder => InAscendingOrder(old) /\ InAscendingOrder(new)
    PROVE  SoundBuilder(old, new, Calculate(old, new, changed, inTableOrder))
<1> DEFINE D == OnlyIn(old, new)
           I == OnlyIn(new, old)
           M == {i \in Positions(new) : At(new, i) \in Elements(old) \cap changed}
           c == [Nothing EXCEPT !.deletions = D, !.insertions = I, !.modifications = M]
           all == Elements(old) \cap Elements(new)
<1>1. Calculate(old, new, changed, inTableOrder) = IF inTableOrder THEN c ELSE AlignSorted(c, old, new)
  BY DEF Calculate, OnlyIn
<1> HIDE DEF D, I, M
<1>2. /\ c.deletions = D /\ c.insertions = I /\ c.modifications = M /\ c.moves = <<>>
      /\ IsBuilder(c)
  BY DEF IsBuilder, Nothing
<1> HIDE DEF c
<1>d. D = OnlyIn(old, new) /\ I = OnlyIn(new, old)
  BY DEF D, I
<1>3. ASSUME SameOrder(old, new, all) PROVE SoundBuilder(old, new, c)
  <2>1. all \ {} = all
    OBVIOUS
  <2>2. /\ c.deletions = OnlyIn(old, new) \cup PositionsOf(old, {})
        /\ c.insertions = OnlyIn(new, old) \cup PositionsOf(new, {})
    BY <1>2, <1>d DEF PositionsOf
  <2>3. SameOrder(old, new, all \ {})
    BY <1>3, <2>1
  <2> QED
    BY <1>2, <2>2, <2>3, OnlySound
<1>4. CASE inTableOrder
  <2>1. SameOrder(old, new, all)
    BY <1>4, AscendingInOrder
  <2> QED
    BY <1>1, <1>3, <1>4, <2>1
<1>5. CASE ~inTableOrder
  <2> DEFINE a == Without(old, D)
             b == Without(new, I)
             first == Sets!Min({i \in Positions(a) : At(a, i) # At(b, i)})
             out == LongestMatches(a, b, M)
                        [[begin1 |-> first, end1 |-> Len(a), begin2 |-> first, end2 |-> Len(b)]]
             R == Elements(a) \ AlignedRows(a, first, out)
             d == [c EXCEPT !.deletions = @ \cup PositionsOf(old, R),
                            !.insertions = @ \cup PositionsOf(new, R)]
  <2>1. AlignSorted(c, old, new) = IF a = b THEN c ELSE d
    BY <1>2 DEF AlignSorted, AlignedRows, PositionsOf
  <2>0. a = Without(old, OnlyIn(old, new)) /\ b = Without(new, OnlyIn(new, old))
    BY <1>d
  <2> HIDE DEF a, b
  <2>2. RowList(a) /\ Elements(a) = all
    BY <2>0, Common
  <2>3. RowList(b) /\ Elements(b) = all
    <3>1. Elements(b) = Elements(new) \cap Elements(old) /\ RowList(b)
      BY <2>0, Common
    <3> QED
      BY <3>1
  <2>4. CASE a = b
    <3>1. SameOrder(a, b, all)
      BY <2>2, <2>4, EqualInOrder
    <3>3. SameOrder(old, new, all)
      BY <2>0, <3>1, CommonOrder
    <3> QED
      BY <1>1, <1>3, <1>5, <2>1, <2>4, <3>3
  <2>5. CASE a # b
    <3>1. SameOrder(a, b, AlignedRows(a, first, out))
      BY <2>2, <2>3, <2>5, SortedAligned
    <3>2. all \ R \subseteq AlignedRows(a, first, out)
      BY <2>2
    <3> HIDE DEF first, out
    <3>3. SameOrder(a, b, all \ R)
      BY <3>1, <3>2, FewerInOrder
    <3>4. SameOrder(old, new, all \ R)
      BY <2>0, <3>3, CommonOrder
    <3> HIDE DEF R
    <3>5. /\ IsBuilder(d) /\ d.moves = <<>>
          /\ d.deletions = D \cup PositionsOf(old, R)
          /\ d.insertions = I \cup PositionsOf(new, R)
      BY <1>2 DEF IsBuilder
    <3> HIDE DEF d
    <3>6. SoundBuilder(old, new, d)
      BY <1>d, <3>4, <3>5, OnlySound
    <3> QED
      BY <1>1, <1>5, <2>1, <2>5, <3>6
  <2> QED
    BY <2>4, <2>5
<1> QED
  BY <1>4, <1>5

-----------------------------------------------------------------------------
(* The rows of the list and of the results.                                 *)

\* A finite set of natural numbers has a bound.
LEMMA Bounded ==
    ASSUME NEW T \in SUBSET Nat, IsFiniteSet(T)
    PROVE  \E b \in Nat : \A x \in T : x <= b
<1>1. PICK n \in Nat : ExistsBijection(1 .. n, T)
  BY FS_NatBijection
<1>2. PICK f \in Bijection(1 .. n, T) : TRUE
  BY <1>1 DEF ExistsBijection
<1>3. /\ \A k \in 1 .. n : f[k] \in Nat
      /\ \A x \in T : \E k \in 1 .. n : f[k] = x
  BY <1>2 DEF Bijection, Injection, Surjection
<1> DEFINE B(k, b) == \A l \in 1 .. k : f[l] <= b
           U == {k \in Nat : k <= n /\ ~ \E b \in Nat : B(k, b)}
<1>4. ASSUME U # {} PROVE FALSE
  <2>1. PICK k \in U : \A m \in U : k <= m
    <3>1. U \in SUBSET Nat
      OBVIOUS
    <3> HIDE DEF U
    <3> QED
      BY <1>4, <3>1, Least
  <2>2. k \in Nat /\ k <= n /\ ~ \E b \in Nat : B(k, b)
    OBVIOUS
  <2>3. k # 0
    <3>1. B(0, 0)
      OBVIOUS
    <3> HIDE DEF B
    <3> QED
      BY <2>2, <3>1
  <2>4. k - 1 \in Nat /\ k - 1 \notin U
    <3> HIDE DEF U
    <3> QED
      BY <2>1, <2>2, <2>3
  <2>5. PICK b \in Nat : B(k - 1, b)
    <3> HIDE DEF B
    <3> QED
      BY <2>2, <2>4
  <2>6. f[k] \in Nat
    BY <1>3, <2>2, <2>3
  <2>7. PICK c \in Nat : b <= c /\ f[k] <= c
    <3> DEFINE y == f[k]
    <3>1. y \in Nat
      BY <2>6
    <3> HIDE DEF y
    <3>2. b <= y \/ y <= b
      BY <3>1
    <3>3. \E c \in Nat : b <= c /\ y <= c
      <4>1. CASE b <= y
        <5>1. y \in Nat /\ b <= y /\ y <= y
          BY <3>1, <4>1
        <5> QED
          BY <5>1
      <4>2. CASE y <= b
        <5>1. b \in Nat /\ b <= b /\ y <= b
          BY <4>2
        <5> QED
          BY <5>1
      <4> QED
        BY <3>2, <4>1, <4>2
    <3> QED
      BY <3>3 DEF y
  <2>8. B(k, c)
    <3> SUFFICES ASSUME NEW l \in 1 .. k PROVE f[l] <= c
      OBVIOUS
    <3>1. CASE l = k
      BY <2>6, <2>7, <3>1
    <3>2. CASE l # k
      <4>1. l \in 1 .. k - 1 /\ l \in 1 .. n
        BY <2>2, <3>2
      <4>2. f[l] <= b /\ f[l] \in Nat
        BY <1>3, <2>5, <4>1
      <4>3. b <= c
        BY <2>7
      <4> DEFINE y == f[l]
      <4>4. y <= b /\ y \in Nat
        BY <4>2
      <4> HIDE DEF y
      <4>5. y <= c
        BY <4>3, <4>4
      <4> QED
        BY <4>5 DEF y
    <3> QED
      BY <3>1, <3>2
  <2> HIDE DEF B
  <2> QED
    BY <2>2, <2>8
<1>5. PICK b \in Nat : B(n, b)
  <2>1. n \notin U
    <3> HIDE DEF U
    <3> QED
      BY <1>4
  <2> HIDE DEF B
  <2> QED
    BY <2>1
<1> QED
  BY <1>3, <1>5

\* The rows of a list are finitely many.
LEMMA RowsAreFinite ==
    ASSUME NEW list, RowList(list)
    PROVE  Elements(list) \in SUBSET Nat /\ IsFiniteSet(Elements(list))
<1>1. /\ list \in Seq(Nat)
  BY DEF RowList
<1>2. /\ \A i \in Positions(list) : At(list, i) \in Nat
      /\ Elements(list) = {At(list, i) : i \in Positions(list)}
  BY <1>1, PositionsAre
<1>3. IsFiniteSet(Elements(list))
  BY RowsCount
<1> QED
  BY <1>2, <1>3

\* A new row of the list is none of the rows there have been.
LEMMA FreshRowIsNew ==
    ASSUME RowList(start), RowList(middle), RowList(rows), touched \in SUBSET Nat, IsFiniteSet(touched)
    PROVE  FreshRow \in Nat /\ FreshRow \notin Elements(rows)
<1> DEFINE T == {0} \cup Elements(start) \cup Elements(middle) \cup Elements(rows) \cup touched
<1>1. /\ Elements(start) \in SUBSET Nat /\ IsFiniteSet(Elements(start))
      /\ Elements(middle) \in SUBSET Nat /\ IsFiniteSet(Elements(middle))
      /\ Elements(rows) \in SUBSET Nat /\ IsFiniteSet(Elements(rows))
  BY RowsAreFinite
<1>2. IsFiniteSet({0})
  BY FS_Singleton
<1>3. IsFiniteSet(T)
  BY <1>1, <1>2, FS_Union
<1>4. T \in SUBSET Nat /\ T # {} /\ Elements(rows) \subseteq T
  <2>1. 0 \in T /\ Elements(rows) \subseteq T
    OBVIOUS
  <2>2. \A x \in T : x \in Nat
    BY <1>1
  <2> HIDE DEF T
  <2> QED
    BY <2>1, <2>2
<1>f. FreshRow = Sets!Max(T) + 1
  BY DEF FreshRow
<1> HIDE DEF T
<1>5. PICK b \in Nat : \A x \in T : x <= b
  BY <1>3, <1>4, Bounded
<1>6. Sets!Max(T) \in T /\ \A x \in T : Sets!Max(T) >= x
  BY <1>4, <1>5, Greatest
<1>7. Sets!Max(T) \in Nat /\ \A x \in T : x \in Nat
  BY <1>4, <1>6
<1> HIDE DEF Sets!Max
<1> QED
  BY <1>4, <1>6, <1>7, <1>f

\* The keys of a table in any order, each at most once.
LEMMA SortedIsRows ==
    ASSUME NEW list \in Sorted
    PROVE  RowList(list) /\ list \in UNION {[1 .. n -> Keys] : n \in Nat}
<1>k. MaxKeys \in Nat /\ Keys \subseteq Nat
  BY CollectionChangesAssumption DEF Keys
<1>1. PICK n \in 0 .. MaxKeys : /\ list \in [1 .. n -> Keys]
                                /\ \A i, k \in 1 .. n : i # k => list[i] # list[k]
  BY DEF Sorted
<1>2. n \in Nat
  BY <1>k
<1>3. list \in [1 .. n -> Nat]
  BY <1>1, <1>k
<1>4. list \in Seq(Nat) /\ Len(list) = n
  BY <1>2, <1>3, TupleIsSeq
<1>5. ASSUME NEW i \in Positions(list), NEW k \in Positions(list), At(list, i) = At(list, k) PROVE i = k
  <2>1. i + 1 \in 1 .. n /\ k + 1 \in 1 .. n /\ i \in Nat /\ k \in Nat
    BY <1>2, <1>4 DEF Positions
  <2>2. list[i + 1] = list[k + 1]
    BY <1>5 DEF At
  <2>3. i + 1 = k + 1
    BY <1>1, <2>1, <2>2
  <2> QED
    BY <2>1, <2>3
<1> QED
  BY <1>1, <1>2, <1>4, <1>5 DEF RowList

\* The keys of a table in its order.
LEMMA AscendingIsRows ==
    ASSUME NEW list \in Ascending
    PROVE  RowList(list) /\ InAscendingOrder(list)
<1>1. list \in Sorted /\ \A i, k \in DOMAIN list : i < k => list[i] < list[k]
  BY DEF Ascending
<1>2. RowList(list)
  BY <1>1, SortedIsRows
<1>3. list \in Seq(Nat)
  BY <1>2 DEF RowList
<1>4. ASSUME NEW i \in Positions(list), NEW k \in Positions(list), i < k PROVE At(list, i) < At(list, k)
  <2>1. i + 1 \in DOMAIN list /\ k + 1 \in DOMAIN list /\ i + 1 < k + 1
    BY <1>3, <1>4 DEF Positions
  <2> QED
    BY <1>1, <2>1 DEF At
<1> QED
  BY <1>2, <1>4 DEF InAscendingOrder

\* The rows a list starts with are numbered in their order.
LEMMA NumberedIsRows ==
    ASSUME NEW n \in Nat, NEW list, list = [i \in 1 .. n |-> i]
    PROVE  RowList(list)
<1>1. list \in [1 .. n -> Nat]
  OBVIOUS
<1>2. list \in Seq(Nat) /\ Len(list) = n
  BY <1>1, TupleIsSeq
<1>3. ASSUME NEW i \in Positions(list), NEW k \in Positions(list), At(list, i) = At(list, k) PROVE i = k
  <2>1. i + 1 \in 1 .. n /\ k + 1 \in 1 .. n /\ i \in Nat /\ k \in Nat
    BY <1>2 DEF Positions
  <2>2. At(list, i) = i + 1 /\ At(list, k) = k + 1
    BY <2>1 DEF At
  <2>3. i + 1 = k + 1
    BY <1>3, <2>2
  <2> QED
    BY <2>1, <2>3
<1> QED
  BY <1>2, <1>3 DEF RowList

-----------------------------------------------------------------------------
(* Modifications: which rows the changes tell to have been modified.        *)

\* The changes go on to tell of the same modifications when their rows go along.
LEMMA ModifiedGoAlong ==
    ASSUME NEW new, NEW c, NEW T, Modified(new, c, T),
           NEW new2, NEW e, e.modifications \subseteq Positions(new2),
           \A i \in Positions(new2) : Exact(e, i) =>
              \E t \in Positions(new) : /\ Exact(c, t) /\ At(new2, i) = At(new, t)
                                        /\ i \in e.modifications <=> t \in c.modifications
    PROVE  Modified(new2, e, T)
BY DEF Modified

\* InsertRow keeps the modifications with their rows.
LEMMA InsertModified ==
    ASSUME NEW old, RowList(old), NEW new, RowList(new), NEW c, SoundBuilder(old, new, c),
           NEW T, Modified(new, c, T),
           NEW index \in 0 .. Len(new), NEW r \in Nat,
           NEW new2, new2 = Seqs!InsertAt(new, index + 1, r)
    PROVE  Modified(new2, InsertRow(c, index), T)
<1> DEFINE e == InsertRow(c, index)
<1>t. new \in Seq(Nat) /\ Len(new) \in Nat /\ index \in Nat
  BY DEF RowList
<1>p. /\ Positions(new) \in SUBSET Nat /\ \A k \in Nat : k \in Positions(new) <=> k < Len(new)
      /\ c.modifications \in SUBSET Nat /\ c.modifications \subseteq Positions(new)
      /\ c.insertions \in SUBSET Nat /\ c.moves \in Seq(Pairs)
  BY <1>t, PositionsAre DEF Modified, SoundBuilder, Sound, Same
<1>1. /\ new2 \in Seq(Nat) /\ Len(new2) = Len(new) + 1
      /\ \A k \in 0 .. Len(new) : /\ k < index => At(new2, k) = At(new, k)
                                  /\ k > index => At(new2, k) = At(new, k - 1)
  <2>1. new2 \in Seq(Nat) /\ Len(new2) = Len(new) + 1
    BY <1>t, InsertedAt
  <2>2. ASSUME NEW k \in 0 .. Len(new)
        PROVE  /\ k < index => At(new2, k) = At(new, k)
               /\ k = index => At(new2, k) = r
               /\ k > index => At(new2, k) = At(new, k - 1)
    <3>1. k < index => At(new2, k) = At(new, k)
      BY <1>t, InsertedAt
    <3>2. k = index => At(new2, k) = r
      BY <1>t, InsertedAt
    <3>3. k > index => At(new2, k) = At(new, k - 1)
      BY <1>t, InsertedAt
    <3> QED
      BY <3>1, <3>2, <3>3
  <2> QED
    BY <2>1, <2>2
<1>2. Positions(new2) \in SUBSET Nat /\ \A k \in Nat : k \in Positions(new2) <=> k <= Len(new)
  <2>1. Positions(new2) \in SUBSET Nat /\ \A k \in Nat : k \in Positions(new2) <=> k < Len(new2)
    BY <1>1, PositionsAre
  <2> QED
    BY <1>1, <1>t, <2>1
<1>u. \A i, k \in Nat : /\ Up(index, i) \in Nat /\ Up(index, i) # index
                        /\ Up(index, i) = Up(index, k) => i = k
  BY <1>t DEF Up
<1>3. /\ e.modifications = {Up(index, t) : t \in c.modifications}
      /\ e.insertions = {Up(index, t) : t \in c.insertions} \cup {index}
      /\ DOMAIN e.moves = DOMAIN c.moves
  BY DEF InsertRow, InsertAt, ShiftForInsert, Up
<1>4. \A k \in DOMAIN c.moves : c.moves[k].to \in Nat /\ e.moves[k].to = Up(index, c.moves[k].to)
  <2> TAKE k \in DOMAIN c.moves
  <2>1. c.moves[k] \in Pairs
    BY <1>p
  <2>2. e.moves[k] = [c.moves[k] EXCEPT !.to = IF @ >= index THEN @ + 1 ELSE @]
    BY DEF InsertRow
  <2> HIDE DEF e
  <2> QED
    BY <2>1, <2>2 DEF Pairs, Up
<1> HIDE DEF e
<1>5. e.modifications \subseteq Positions(new2)
  <2> SUFFICES ASSUME NEW t \in c.modifications PROVE Up(index, t) \in Positions(new2)
    BY <1>3
  <2>1. t \in Nat /\ t < Len(new)
    BY <1>p
  <2>2. Up(index, t) \in Nat /\ Up(index, t) <= Len(new)
    BY <1>t, <2>1 DEF Up
  <2> QED
    BY <1>2, <2>2
<1>6. ASSUME NEW i \in Positions(new2), Exact(e, i)
      PROVE  \E t \in Positions(new) : /\ Exact(c, t) /\ At(new2, i) = At(new, t)
                                       /\ i \in e.modifications <=> t \in c.modifications
  <2>1. i # index
    BY <1>3, <1>4, <1>6, <1>u DEF Exact
  <2>2. i \in Nat /\ i <= Len(new)
    BY <1>2
  <2> DEFINE t == IF i < index THEN i ELSE i - 1
  <2>3. t \in Nat /\ t < Len(new) /\ Up(index, t) = i
    BY <1>t, <2>1, <2>2 DEF Up
  <2>4. At(new2, i) = At(new, t)
    BY <1>1, <1>t, <2>1, <2>2
  <2> HIDE DEF t
  <2>5. t \in Positions(new)
    BY <1>p, <2>3
  <2>6. Exact(c, t)
    BY <1>3, <1>4, <1>6, <1>u, <2>3 DEF Exact
  <2>7. i \in e.modifications <=> t \in c.modifications
    <3>1. \A x \in c.modifications : x \in Nat
      BY <1>p
    <3> QED
      BY <1>3, <1>u, <2>3, <3>1
  <2> QED
    BY <2>4, <2>5, <2>6, <2>7
<1> QED
  BY <1>5, <1>6, ModifiedGoAlong DEF e

\* EraseRow keeps the other modifications with their rows.
LEMMA EraseModified ==
    ASSUME NEW old, RowList(old), NEW new, RowList(new), NEW c, SoundBuilder(old, new, c),
           NEW T, Modified(new, c, T),
           NEW index \in Positions(new), NEW new2, new2 = Seqs!RemoveAt(new, index + 1)
    PROVE  Modified(new2, EraseRow(c, index), T)
<1> DEFINE e == EraseRow(c, index)
           P == {k \in Positions(c.moves) : At(c.moves, k).to = index}
           kept == Without(c.moves, P)
<1>t. new \in Seq(Nat) /\ Len(new) \in Nat
  BY DEF RowList
<1>p. /\ Positions(new) \in SUBSET Nat /\ \A k \in Nat : k \in Positions(new) <=> k < Len(new)
      /\ index \in Nat /\ index < Len(new)
      /\ c.modifications \in SUBSET Nat /\ c.modifications \subseteq Positions(new)
      /\ c.insertions \in SUBSET Nat /\ c.moves \in Seq(Pairs)
  BY <1>t, PositionsAre DEF Modified, SoundBuilder, Sound, Same
<1>1. /\ new2 \in Seq(Nat) /\ Len(new2) = Len(new) - 1
      /\ \A k \in Positions(new2) : /\ k < index => At(new2, k) = At(new, k)
                                    /\ k >= index => At(new2, k) = At(new, k + 1)
  BY <1>t, RemovedAt
<1>2. Positions(new2) \in SUBSET Nat /\ \A k \in Nat : k \in Positions(new2) <=> k + 1 < Len(new)
  <2>1. Positions(new2) \in SUBSET Nat /\ \A k \in Nat : k \in Positions(new2) <=> k < Len(new2)
    BY <1>1, PositionsAre
  <2> QED
    BY <1>1, <1>t, <2>1
<1>u. \A i, k \in Nat : /\ Down(index, i) \in Nat
                        /\ i # index /\ k # index /\ Down(index, i) = Down(index, k) => i = k
  BY <1>p DEF Down
<1>3. /\ e.modifications = {Down(index, t) : t \in c.modifications \ {index}}
      /\ e.insertions = {Down(index, t) : t \in c.insertions \ {index}}
      /\ DOMAIN e.moves = DOMAIN kept
  BY DEF EraseRow, EraseAt, Down
<1>4. \A k \in DOMAIN kept : e.moves[k] = [kept[k] EXCEPT !.to = IF @ > index THEN @ - 1 ELSE @]
  BY DEF EraseRow
<1> HIDE DEF e
<1>5. /\ kept \in Seq(Pairs)
      /\ \A k \in DOMAIN kept : /\ kept[k].to # index
                                /\ \E y \in DOMAIN c.moves : kept[k] = c.moves[y]
  <2>1. P \subseteq Positions(c.moves) /\ \A i \in Positions(c.moves) \ P : At(c.moves, i).to # index
    OBVIOUS
  <2> HIDE DEF P
  <2>2. /\ kept \in Seq(Pairs)
        /\ \A k \in Positions(kept) : Shift(P, k) \in Positions(c.moves) \ P
                                      /\ At(kept, k) = At(c.moves, Shift(P, k))
    BY <1>p, <2>1, WithoutIs
  <2> HIDE DEF kept
  <2>3. \A k \in DOMAIN kept : k - 1 \in Positions(kept) /\ At(kept, k - 1) = kept[k]
    BY <2>2 DEF Positions, At
  <2>4. \A i \in Positions(c.moves) : \E y \in DOMAIN c.moves : At(c.moves, i) = c.moves[y]
    <3> TAKE i \in Positions(c.moves)
    <3> DEFINE l == c.moves
    <3>1. l \in Seq(Pairs) /\ i \in 0 .. Len(l) - 1
      BY <1>p DEF Positions
    <3> HIDE DEF l
    <3>2. i + 1 \in DOMAIN l
      BY <3>1
    <3> QED
      BY <3>2 DEF At, l
  <2>5. ASSUME NEW k \in DOMAIN kept
        PROVE  kept[k].to # index /\ \E y \in DOMAIN c.moves : kept[k] = c.moves[y]
    <3>1. PICK i \in Positions(c.moves) \ P : kept[k] = At(c.moves, i)
      BY <2>2, <2>3
    <3> QED
      BY <2>1, <2>4, <3>1
  <2> QED
    BY <2>2, <2>5
<1> HIDE DEF kept
<1>6. \A k \in DOMAIN kept : kept[k].to \in Nat /\ e.moves[k].to = Down(index, kept[k].to)
  <2> TAKE k \in DOMAIN kept
  <2>1. kept[k] \in Pairs
    BY <1>5
  <2> QED
    BY <1>4, <2>1 DEF Pairs, Down
<1>7. e.modifications \subseteq Positions(new2)
  <2> SUFFICES ASSUME NEW t \in c.modifications \ {index} PROVE Down(index, t) \in Positions(new2)
    BY <1>3
  <2>1. t \in Nat /\ t < Len(new) /\ t # index
    BY <1>p
  <2>2. Down(index, t) \in Nat /\ Down(index, t) + 1 < Len(new)
    BY <1>t, <1>p, <2>1 DEF Down
  <2> QED
    BY <1>2, <2>2
<1>8. ASSUME NEW i \in Positions(new2), Exact(e, i)
      PROVE  \E t \in Positions(new) : /\ Exact(c, t) /\ At(new2, i) = At(new, t)
                                       /\ i \in e.modifications <=> t \in c.modifications
  <2>2. i \in Nat /\ i + 1 < Len(new)
    BY <1>2
  <2> DEFINE t == IF i < index THEN i ELSE i + 1
  <2>3. t \in Nat /\ t < Len(new) /\ t # index /\ Down(index, t) = i
    BY <1>t, <1>p, <2>2 DEF Down
  <2>4. At(new2, i) = At(new, t)
    BY <1>1, <1>p, <2>2
  <2> HIDE DEF t
  <2>5. t \in Positions(new)
    BY <1>p, <2>3
  <2>6. Exact(c, t)
    <3>1. CASE i \notin e.insertions
      BY <1>3, <2>3, <3>1 DEF Exact
    <3>2. CASE \E k \in DOMAIN e.moves : e.moves[k].to = i
      <4>1. PICK k \in DOMAIN kept : Down(index, kept[k].to) = i
        BY <1>3, <1>6, <3>2
      <4>2. kept[k].to = t
        BY <1>5, <1>6, <1>u, <2>3, <4>1
      <4> QED
        BY <1>5, <4>2 DEF Exact
    <3> QED
      BY <1>8, <3>1, <3>2 DEF Exact
  <2>7. i \in e.modifications <=> t \in c.modifications
    <3>1. \A x \in c.modifications : x \in Nat
      BY <1>p
    <3> QED
      BY <1>3, <1>u, <2>3, <3>1
  <2> QED
    BY <2>4, <2>5, <2>6, <2>7
<1> QED
  BY <1>7, <1>8, ModifiedGoAlong DEF e

\* MoveRow takes the modification of the row along.
LEMMA MoveModified ==
    ASSUME NEW old, RowList(old), NEW new, RowList(new), NEW c, SoundBuilder(old, new, c),
           NEW T, Modified(new, c, T),
           NEW from \in Positions(new), NEW to \in Positions(new),
           NEW new2, new2 = Moved(new, from, to)
    PROVE  Modified(new2, MoveRow(c, from, to), T)
<1> DEFINE e == MoveRow(c, from, to)
           P == Positions(new)
           again == \E k \in DOMAIN c.moves : c.moves[k].to = from
           old2 == Shift(c.deletions, Unshift(c.insertions, from))
           others == [k \in DOMAIN c.moves |->
                        [c.moves[k] EXCEPT !.to = IF @ = from THEN to ELSE Displaced(@, from, to)]]
<1>t. new \in Seq(Nat) /\ Len(new) \in Nat
  BY DEF RowList
<1>p. /\ P \in SUBSET Nat /\ \A k \in Nat : k \in P <=> k < Len(new)
      /\ from \in Nat /\ to \in Nat /\ from < Len(new) /\ to < Len(new)
      /\ c.modifications \in SUBSET Nat /\ c.modifications \subseteq P
      /\ c.insertions \in SUBSET Nat /\ c.moves \in Seq(Pairs)
  BY <1>t, PositionsAre DEF Modified, SoundBuilder, Sound, Same
<1>1. /\ RowList(new2) /\ Len(new2) = Len(new) /\ At(new2, to) = At(new, from)
      /\ \A t \in P : t # from => At(new2, Displaced(t, from, to)) = At(new, t)
  <2>s. Same(new, new, P, P)
    BY DEF Same, Left
  <2>1. RowList(new2) /\ Len(new2) = Len(new) /\ At(new2, to) = At(new, from)
    BY <2>s, MovedIs
  <2>2. \A t \in P : t # from => At(new2, Displaced(t, from, to)) = At(new, t)
    BY <2>s, MovedIs
  <2> QED
    BY <2>1, <2>2
<1>2. Positions(new2) = P
  BY <1>1 DEF Positions
<1>u. /\ \A i, k \in Nat : /\ Displaced(i, from, to) \in Nat
                           /\ i # from => Displaced(i, from, to) # to
                           /\ i # from => Displaced(i, from, to) = Up(to, Down(from, i))
                           /\ i # from /\ k # from /\ Displaced(i, from, to) = Displaced(k, from, to) => i = k
      /\ Displaced(from, to, from) \in Nat
  BY <1>p DEF Displaced, Up, Down
<1>3. \A set \in SUBSET Nat : /\ ShiftForInsert(EraseAt(set, from), to) = {Displaced(t, from, to) : t \in set \ {from}}
  <2> TAKE set \in SUBSET Nat
  <2>1. ShiftForInsert(EraseAt(set, from), to) = {Up(to, x) : x \in {Down(from, t) : t \in set \ {from}}}
    BY DEF ShiftForInsert, EraseAt, Up, Down
  <2>2. \A t \in set \ {from} : t \in Nat /\ t # from
    OBVIOUS
  <2> QED
    BY <1>u, <2>1, <2>2
<1>m. e.modifications = ShiftForInsert(EraseAt(c.modifications, from), to) \cup
                        IF from \in c.modifications THEN {to} ELSE {}
  BY DEF MoveRow
<1>i. e.insertions = ShiftForInsert(EraseAt(c.insertions, from), to) \cup {to}
  BY DEF MoveRow, InsertAt
<1>o. e.moves = IF again \/ from \in c.insertions THEN others ELSE Append(others, [from |-> old2, to |-> to])
  BY DEF MoveRow
<1> HIDE DEF e, P, old2
<1>4. /\ e.modifications = {Displaced(t, from, to) : t \in c.modifications \ {from}} \cup
                           IF from \in c.modifications THEN {to} ELSE {}
      /\ e.insertions = {Displaced(t, from, to) : t \in c.insertions \ {from}} \cup {to}
  BY <1>3, <1>i, <1>m, <1>p
<1>5. /\ DOMAIN others = DOMAIN c.moves
      /\ \A k \in DOMAIN c.moves :
            /\ c.moves[k].to \in Nat
            /\ others[k].to = IF c.moves[k].to = from THEN to ELSE Displaced(c.moves[k].to, from, to)
  <2>1. DOMAIN others = DOMAIN c.moves
    OBVIOUS
  <2>2. ASSUME NEW k \in DOMAIN c.moves
        PROVE  /\ c.moves[k].to \in Nat
               /\ others[k].to = IF c.moves[k].to = from THEN to ELSE Displaced(c.moves[k].to, from, to)
    <3>1. c.moves[k] \in Pairs
      BY <1>p
    <3>2. others[k] = [c.moves[k] EXCEPT !.to = IF @ = from THEN to ELSE Displaced(@, from, to)]
      OBVIOUS
    <3> HIDE DEF others
    <3> QED
      BY <3>1, <3>2 DEF Pairs
  <2> QED
    BY <2>1, <2>2
<1>6. \A k \in DOMAIN e.moves : \/ k \in DOMAIN c.moves /\ e.moves[k] = others[k]
                                \/ e.moves[k].to = to /\ ~again /\ from \notin c.insertions
  <2> DEFINE q == [from |-> old2, to |-> to]
  <2>1. q.to = to
    OBVIOUS
  <2>2. others \in Seq({others[k] : k \in DOMAIN c.moves})
    <3> DEFINE n == Len(c.moves)
               S == {others[k] : k \in DOMAIN c.moves}
    <3>1. n \in Nat /\ DOMAIN c.moves = 1 .. n
      BY <1>p
    <3>2. others \in [1 .. n -> S]
      BY <3>1
    <3> HIDE DEF n, S, others
    <3>3. others \in Seq(S)
      BY <3>1, <3>2, TupleIsSeq
    <3> QED
      BY <3>3 DEF S
  <2> HIDE DEF q, others
  <2>3. \A k \in DOMAIN Append(others, q) : \/ k \in DOMAIN others /\ Append(others, q)[k] = others[k]
                                            \/ Append(others, q)[k] = q
    BY <2>2
  <2> QED
    BY <1>5, <1>o, <2>1, <2>3 DEF q
<1> HIDE DEF others
<1>7. e.modifications \subseteq Positions(new2)
  <2> SUFFICES ASSUME NEW t \in c.modifications, t # from PROVE Displaced(t, from, to) \in P
    BY <1>2, <1>4, <1>p DEF P
  <2>1. t \in Nat /\ t < Len(new)
    BY <1>p
  <2>2. Displaced(t, from, to) \in Nat /\ Displaced(t, from, to) < Len(new)
    BY <1>p, <2>1 DEF Displaced
  <2> QED
    BY <1>p, <2>2
<1>8. ASSUME NEW i \in Positions(new2), Exact(e, i)
      PROVE  \E t \in P : /\ Exact(c, t) /\ At(new2, i) = At(new, t)
                          /\ i \in e.modifications <=> t \in c.modifications
  <2>0. i \in Nat /\ i < Len(new)
    BY <1>2, <1>p
  <2>n. \A x \in c.modifications : x \in Nat
    BY <1>p
  <2>1. CASE i = to
    <3>1. \E k \in DOMAIN e.moves : e.moves[k].to = to
      BY <1>4, <1>8, <2>1 DEF Exact
    <3>2. from \notin c.insertions \/ again
      BY <1>5, <1>6, <1>u, <3>1
    <3>3. Exact(c, from)
      BY <3>2 DEF Exact
    <3>4. to \in e.modifications <=> from \in c.modifications
      BY <1>4, <1>u, <2>n
    <3>5. from \in P
      BY DEF P
    <3> QED
      BY <1>1, <2>1, <3>3, <3>4, <3>5
  <2>2. CASE i # to
    <3> DEFINE t == Displaced(i, to, from)
    <3>1. t \in Nat /\ t < Len(new) /\ t # from /\ Displaced(t, from, to) = i
      BY <1>p, <2>0, <2>2 DEF Displaced
    <3> HIDE DEF t
    <3>2. t \in P
      BY <1>p, <3>1
    <3>3. At(new2, i) = At(new, t)
      BY <1>1, <3>1, <3>2
    <3>4. Exact(c, t)
      <4>1. CASE i \notin e.insertions
        BY <1>4, <3>1, <4>1 DEF Exact
      <4>2. CASE \E k \in DOMAIN e.moves : e.moves[k].to = i
        <5>1. PICK k \in DOMAIN c.moves : others[k].to = i
          BY <1>6, <2>2, <4>2
        <5>2. c.moves[k].to = t
          BY <1>5, <1>u, <2>2, <3>1, <5>1
        <5> QED
          BY <5>2 DEF Exact
      <4> QED
        BY <1>8, <4>1, <4>2 DEF Exact
    <3>5. i \in e.modifications <=> t \in c.modifications
      BY <1>4, <1>u, <2>2, <2>n, <3>1
    <3> QED
      BY <3>2, <3>3, <3>4, <3>5
  <2> QED
    BY <2>1, <2>2
<1> QED
  BY <1>7, <1>8, ModifiedGoAlong DEF e, P

\* A swap takes the modifications of both rows along.
LEMMA SwapModified ==
    ASSUME NEW old, RowList(old), NEW new, RowList(new), NEW c, SoundBuilder(old, new, c),
           NEW T, Modified(new, c, T),
           NEW i \in Positions(new), NEW j \in Positions(new), i < j,
           NEW new2, new2 = Swapped(new, i, j)
    PROVE  Modified(new2, SwapRows(c, i, j), T)
<1> DEFINE first == Moved(new, i, j)
           c1 == MoveRow(c, i, j)
<1>1. RowList(first) /\ SoundBuilder(old, first, c1)
  BY MoveSound
<1>2. Modified(first, c1, T)
  BY MoveModified
<1>3. /\ j - 1 \in Positions(first) /\ i \in Positions(first)
      /\ new2 = IF i + 1 = j THEN first ELSE Moved(first, j - 1, i)
  BY SwapIsMoves
<1>4. SwapRows(c, i, j) = IF i + 1 = j THEN c1 ELSE MoveRow(c1, j - 1, i)
  BY DEF SwapRows
<1> HIDE DEF first, c1
<1>5. CASE i + 1 = j
  BY <1>2, <1>3, <1>4, <1>5
<1>6. CASE i + 1 # j
  <2>1. new2 = Moved(first, j - 1, i)
    BY <1>3, <1>6
  <2>2. Modified(new2, MoveRow(c1, j - 1, i), T)
    BY <1>1, <1>2, <1>3, <2>1, MoveModified
  <2> QED
    BY <1>4, <1>6, <2>2
<1> QED
  BY <1>5, <1>6

\* ModifyRow tells of one more row that has been modified.
LEMMA SetModified ==
    ASSUME NEW new, RowList(new), NEW c, IsBuilder(c), NEW T, Modified(new, c, T),
           NEW index \in Positions(new)
    PROVE  Modified(new, ModifyRow(c, index), T \cup {At(new, index)})
<1> DEFINE e == ModifyRow(c, index)
<1>1. /\ e.insertions = c.insertions /\ e.moves = c.moves
      /\ e.modifications = c.modifications \cup {index}
  BY DEF ModifyRow, IsBuilder
<1> HIDE DEF e
<1>2. \A i \in Positions(new) : At(new, i) = At(new, index) => i = index
  BY DEF RowList
<1> QED
  BY <1>1, <1>2 DEF Modified, Exact, e

\* Of a list without rows there is nothing to tell.
LEMMA NoneModified ==
    ASSUME NEW c, c.modifications = {}, NEW T
    PROVE  Modified(<<>>, c, T)
<1>1. Positions(<<>>) = {}
  BY DEF Positions
<1> QED
  BY <1>1 DEF Modified

\* No changes tell of no modifications.
LEMMA NothingModified ==
    ASSUME NEW list
    PROVE  Modified(list, Nothing, {})
BY DEF Modified, Exact, Nothing

\* CleanUpStaleMoves leaves the modifications as they are.
LEMMA CleanModified ==
    ASSUME NEW old, RowList(old), NEW new, RowList(new), NEW c, SoundBuilder(old, new, c),
           NEW T, Modified(new, c, T)
    PROVE  Modified(new, CleanUpStaleMoves(c), T)
<1>1. /\ CleanUpStaleMoves(c).modifications = c.modifications
      /\ \A i : Exact(CleanUpStaleMoves(c), i) => Exact(c, i)
  <2>1. CleanUpStaleMoves(c).modifications = c.modifications
    BY CleanExact
  <2>2. \A i : Exact(CleanUpStaleMoves(c), i) => Exact(c, i)
    BY CleanExact
  <2> QED
    BY <2>1, <2>2
<1> QED
  BY <1>1 DEF Modified

\* Calculate tells of the rows of both runs that have been modified, and of no moves.
LEMMA CalculateModified ==
    ASSUME NEW old, RowList(old), NEW new, RowList(new), NEW changed, NEW inTableOrder \in BOOLEAN
    PROVE  LET c == Calculate(old, new, changed, inTableOrder)
           IN  Modified(new, c, changed) /\ c.moves = <<>>
<1> DEFINE D == OnlyIn(old, new)
           I == OnlyIn(new, old)
           M == {i \in Positions(new) : At(new, i) \in Elements(old) \cap changed}
           c == [Nothing EXCEPT !.deletions = D, !.insertions = I, !.modifications = M]
           e == Calculate(old, new, changed, inTableOrder)
<1>1. e = IF inTableOrder THEN c ELSE AlignSorted(c, old, new)
  BY DEF Calculate, OnlyIn
<1>2. \A i \in Positions(new) : i \notin I => At(new, i) \in Elements(old)
  BY DEF OnlyIn
<1>m. M \subseteq Positions(new)
      /\ \A i \in Positions(new) : i \in M <=> At(new, i) \in Elements(old) /\ At(new, i) \in changed
  OBVIOUS
<1> HIDE DEF D, I, M, e
<1>3. /\ c.deletions = D /\ c.insertions = I /\ c.modifications = M /\ c.moves = <<>>
      /\ DOMAIN c = {"deletions", "insertions", "modifications", "moves"}
  BY DEF Nothing
<1> HIDE DEF c
<1>4. \/ e = c
      \/ \E X, Y : e = [c EXCEPT !.deletions = @ \cup X, !.insertions = @ \cup Y]
  BY <1>1 DEF AlignSorted
<1>5. I \subseteq e.insertions /\ e.modifications = M /\ e.moves = <<>>
  <2>1. CASE e = c
    BY <1>3, <2>1
  <2>2. ASSUME NEW X, NEW Y, e = [c EXCEPT !.deletions = @ \cup X, !.insertions = @ \cup Y]
        PROVE  I \subseteq e.insertions /\ e.modifications = M /\ e.moves = <<>>
    BY <1>3, <2>2
  <2> QED
    BY <1>4, <2>1, <2>2
<1>6. \A i : Exact(e, i) => i \notin I
  BY <1>5 DEF Exact
<1>7. Modified(new, e, changed)
  BY <1>2, <1>m, <1>5, <1>6 DEF Modified
<1> QED
  BY <1>5, <1>7 DEF e

\* What is true of changes with true modifications and real moves: what the callback is told.
LEMMA TruePromise ==
    ASSUME NEW s, RowList(s), NEW mid, RowList(mid), NEW b, SoundBuilder(s, mid, b),
           AllReal(b), NEW T, Modified(mid, b, T)
    PROVE  LET c == Finalize(b)
           IN  /\ \A m \in Elements(c.moves) : IsReal(s, mid, c, m)
               /\ c.modificationsNew = {i \in Positions(mid) : i \notin c.insertions /\ At(mid, i) \in T}
               /\ c.modifications = {i \in Positions(s) : i \notin c.deletions /\ At(s, i) \in T}
<1> DEFINE c == Finalize(b)
           D == b.deletions
           I == b.insertions
<1>1. /\ c.deletions = D /\ c.insertions = I /\ c.moves = b.moves
      /\ c.modificationsNew = b.modifications \ I
      /\ c.modifications = {Before(D, I, i) : i \in b.modifications \ I}
  <2>1. /\ c.deletions = D /\ c.insertions = I /\ c.moves = b.moves
        /\ c.modificationsNew = b.modifications \ I
        /\ c.modifications = ShiftForInsertAll(EraseAll(b.modifications, I), D)
    BY DEF Finalize
  <2>2. ShiftForInsertAll(EraseAll(b.modifications, I), D) =
          {Shift(D, x) : x \in {Unshift(I, i) : i \in b.modifications \ I}}
    BY DEF ShiftForInsertAll, EraseAll
  <2>3. {Shift(D, x) : x \in {Unshift(I, i) : i \in b.modifications \ I}} =
          {Before(D, I, i) : i \in b.modifications \ I}
    BY DEF Before
  <2> QED
    BY <2>1, <2>2, <2>3
<1>2. /\ Same(s, mid, D, I) /\ D \subseteq Positions(s) /\ I \subseteq Positions(mid)
      /\ \A k \in DOMAIN b.moves : Follows(s, mid, D, I, b.moves[k])
  BY DEF SoundBuilder, Sound, Same
<1>t. s \in Seq(Nat) /\ mid \in Seq(Nat)
  BY DEF RowList
<1>n. D \in SUBSET Nat /\ I \in SUBSET Nat
  BY <1>2, <1>t, SubsetOfPositions
<1>3. ASSUME NEW m \in Elements(c.moves) PROVE IsReal(s, mid, c, m)
  <2>1. PICK k \in DOMAIN b.moves : m = b.moves[k]
    BY <1>1, <1>3 DEF Elements
  <2>2. m.from \in D /\ m.to \in I /\ At(s, m.from) = At(mid, m.to)
    BY <1>2, <2>1 DEF Follows
  <2>3. Unshift(D, m.from) # Unshift(I, m.to)
    BY <2>1 DEF AllReal, IsStale, Unshift
  <2> DEFINE d == [c EXCEPT !.deletions = @ \ {m.from}, !.insertions = @ \ {m.to}]
             D2 == D \ {m.from}
             I2 == I \ {m.to}
  <2>d. d.deletions = D2 /\ d.insertions = I2
    <3>1. c.deletions = D /\ c.insertions = I /\ "deletions" \in DOMAIN c /\ "insertions" \in DOMAIN c
      BY <1>1 DEF Finalize
    <3> HIDE DEF c, D, I
    <3> QED
      BY <3>1
  <2>4. ASSUME Rebuilds(s, mid, d) PROVE FALSE
    <3>1. Same(s, mid, D2, I2)
      BY <2>4, <2>d, RebuildsIsSame
    <3> DEFINE i == m.from
               j == m.to
    <3>2. i \in D /\ j \in I /\ D2 = D \ {i} /\ I2 = I \ {j} /\ At(s, i) = At(mid, j)
      BY <2>2
    <3>3. Unshift(D, i) # Unshift(I, j)
      BY <2>3
    <3> HIDE DEF i, j, D, I, D2, I2
    <3>4. i \in Positions(s) \ D2 /\ j \in Positions(mid) \ I2 /\ i \in Nat /\ j \in Nat
      BY <1>2, <1>n, <3>2
    <3>5. Unshift(D2, i) = Unshift(I2, j)
      BY <3>1, <3>2, <3>4, SameRank
    <3>6. Unshift(D2, i) = Unshift(D, i) + IF i < i THEN 1 ELSE 0
      BY <1>n, <3>2, <3>4, UnshiftWithout
    <3>7. Unshift(I2, j) = Unshift(I, j) + IF j < j THEN 1 ELSE 0
      BY <1>n, <3>2, <3>4, UnshiftWithout
    <3>8. Unshift(D, i) \in Nat /\ Unshift(I, j) \in Nat
      BY <1>n, <3>4, UnshiftOrder
    <3>9. ~(i < i) /\ ~(j < j)
      BY <3>4
    <3>10. Unshift(D2, i) = Unshift(D, i) /\ Unshift(I2, j) = Unshift(I, j)
      BY <3>6, <3>7, <3>8, <3>9
    <3> QED
      BY <3>3, <3>5, <3>10
  <2> QED
    BY <2>4 DEF IsReal
<1> HIDE DEF c, D, I
<1>4. \A i \in Positions(mid) \ I : i \in b.modifications <=> At(mid, i) \in T
  BY DEF Modified, Exact, I
<1>m. b.modifications \subseteq Positions(mid)
  BY DEF Modified
<1>5. c.modificationsNew = {i \in Positions(mid) : i \notin c.insertions /\ At(mid, i) \in T}
  BY <1>1, <1>4, <1>m
<1>6. \A i \in Positions(mid) \ I : Before(D, I, i) \in Positions(s) \ D /\ At(s, Before(D, I, i)) = At(mid, i)
  BY <1>2, BeforeIs
<1>7. ASSUME NEW i \in Positions(s) \ D, At(s, i) \in T PROVE i \in c.modifications
  <2>1. PICK j \in Positions(mid) \ I : At(mid, j) = At(s, i)
    BY <1>2, Remains
  <2>2. Before(D, I, j) = i
    BY <1>6, <2>1 DEF RowList
  <2> QED
    BY <1>1, <1>4, <1>7, <2>1, <2>2
<1>8. ASSUME NEW x \in c.modifications PROVE x \in Positions(s) /\ x \notin D /\ At(s, x) \in T
  <2>1. PICK i \in b.modifications \ I : x = Before(D, I, i)
    BY <1>1
  <2> QED
    BY <1>4, <1>6, <1>m, <2>1
<1>9. c.modifications = {i \in Positions(s) : i \notin c.deletions /\ At(s, i) \in T}
  BY <1>1, <1>7, <1>8
<1> QED
  BY <1>3, <1>5, <1>9 DEF c

-----------------------------------------------------------------------------
(* The changes of a pass and those that are waiting.                        *)

RowsAreRows == RowList(start) /\ RowList(middle) /\ RowList(rows)
TouchedAreRows == touched \in SUBSET Nat /\ IsFiniteSet(touched)
PassIsSound == SoundBuilder(middle, rows, pass)
WholeIsSound == ~stranded => SoundBuilder(start, middle, whole)
\* A query has no changes before it runs, and a table stays in its order.
RunsStartAfresh ==
    /\ kind \in {"sorted", "table"} => pass = Nothing /\ middle = rows
    /\ kind = "table" => InAscendingOrder(rows)
ListsAreNotStranded == stranded => kind = "deleted"
MovesAreReal == ~stranded => AllReal(whole)
\* Rows have been modified before the last run of the notifier, or during the pass.
Told(before, during) ==
    /\ touched = before \cup during /\ Modified(rows, pass, during)
    /\ ~stranded => Modified(middle, whole, before)
ModificationsAreTold == \E before, during : Told(before, during)

IInv ==
    /\ RowsAreRows /\ TouchedAreRows /\ PassIsSound /\ WholeIsSound /\ RunsStartAfresh
    /\ ListsAreNotStranded /\ MovesAreReal /\ ModificationsAreTold

\* The invariant holds when the callback has just been called.
LEMMA InitInvariant == Init => IInv
<1> SUFFICES ASSUME Init PROVE IInv
  OBVIOUS
<1>1. RowList(start)
  <2>1. CASE kind = "table"
    BY <2>1, AscendingIsRows DEF Init
  <2>2. CASE kind # "table"
    <3>1. PICK n \in 0 .. IF kind = "list" THEN MaxRows ELSE MaxKeys : start = [i \in 1 .. n |-> i]
      BY <2>2 DEF Init
    <3>2. n \in Nat
      BY CollectionChangesAssumption
    <3> QED
      BY <3>1, <3>2, NumberedIsRows
  <2> QED
    BY <2>1, <2>2
<1>2. /\ middle = start /\ rows = start /\ touched = {} /\ whole = Nothing /\ pass = Nothing
      /\ stranded = FALSE
  BY DEF Init
<1>3. SoundBuilder(start, start, Nothing)
  BY <1>1, NothingSound
<1>4. kind = "table" => InAscendingOrder(rows)
  BY <1>2, AscendingIsRows DEF Init
<1>5. IsFiniteSet(touched)
  BY <1>2, FS_EmptySet
<1>6. AllReal(whole)
  BY <1>2 DEF AllReal, Nothing
<1>7. Told({}, {})
  BY <1>2, NothingModified DEF Told
<1>8. MovesAreReal /\ ModificationsAreTold
  BY <1>6, <1>7 DEF MovesAreReal, ModificationsAreTold
<1> QED
  BY <1>1, <1>2, <1>3, <1>4, <1>5, <1>8
     DEF IInv, RowsAreRows, TouchedAreRows, PassIsSound, WholeIsSound, RunsStartAfresh, ListsAreNotStranded

\* An operation on a list keeps the invariant when it adds to the changes of the
\* pass what it does to the rows.
LEMMA OperationInvariant ==
    ASSUME IInv, NEW c, NEW list, Operation(c, list), RowList(list), SoundBuilder(middle, list, c),
           NEW more \in SUBSET Nat, IsFiniteSet(more), touched' = touched \cup more,
           \A T : Modified(rows, pass, T) => Modified(list, c, T \cup more)
    PROVE  IInv'
<1>1. /\ kind = "list" /\ pass' = c /\ rows' = list
      /\ kind' = kind /\ start' = start /\ middle' = middle /\ whole' = whole /\ stranded' = stranded
  BY DEF Operation
<1>2. RowsAreRows' /\ TouchedAreRows' /\ PassIsSound'
  <2>1. touched \in SUBSET Nat /\ IsFiniteSet(touched)
    BY DEF IInv, TouchedAreRows
  <2>2. IsFiniteSet(touched \cup more)
    BY <2>1, FS_Union
  <2> QED
    BY <1>1, <2>1, <2>2 DEF IInv, RowsAreRows, TouchedAreRows, PassIsSound
<1>3. WholeIsSound' /\ ListsAreNotStranded' /\ MovesAreReal'
  BY <1>1 DEF IInv, WholeIsSound, ListsAreNotStranded, MovesAreReal
<1>4. RunsStartAfresh'
  BY <1>1 DEF RunsStartAfresh
<1>5. ModificationsAreTold'
  <2>1. PICK before, during : Told(before, during)
    BY DEF IInv, ModificationsAreTold
  <2>2. touched' = before \cup (during \cup more) /\ Modified(list, c, during \cup more)
    BY <2>1 DEF Told
  <2>3. Told(before, during \cup more)'
    BY <1>1, <2>1, <2>2 DEF Told
  <2> QED
    BY <2>3 DEF ModificationsAreTold
<1> QED
  BY <1>2, <1>3, <1>4, <1>5 DEF IInv

\* So does one that modifies no row.
LEMMA OtherOperationInvariant ==
    ASSUME IInv, NEW c, NEW list, Operation(c, list), RowList(list), SoundBuilder(middle, list, c),
           touched' = touched, \A T : Modified(rows, pass, T) => Modified(list, c, T)
    PROVE  IInv'
<1>1. IsFiniteSet({}) /\ {} \in SUBSET Nat /\ touched' = touched \cup {}
  BY FS_EmptySet
<1>2. \A T : Modified(rows, pass, T) => Modified(list, c, T \cup {})
  <2>1. \A T : T \cup {} = T
    OBVIOUS
  <2> QED
    BY <2>1
<1> QED
  BY <1>1, <1>2, OperationInvariant

\* Inserting a row keeps the invariant.
LEMMA InsertInvariant ==
    ASSUME IInv, NEW index \in 0 .. Len(rows), Insert(index)
    PROVE  IInv'
<1>1. /\ RowList(middle) /\ RowList(rows) /\ SoundBuilder(middle, rows, pass)
      /\ touched \in SUBSET Nat /\ IsFiniteSet(touched)
  BY DEF IInv, RowsAreRows, TouchedAreRows, PassIsSound
<1>2. FreshRow \in Nat /\ FreshRow \notin Elements(rows)
  BY FreshRowIsNew DEF IInv, RowsAreRows, TouchedAreRows
<1> DEFINE r == FreshRow
           list == Seqs!InsertAt(rows, index + 1, r)
<1>3. Operation(InsertRow(pass, index), list) /\ touched' = touched
  BY DEF Insert
<1>4. list = Seqs!InsertAt(rows, index + 1, r)
  OBVIOUS
<1>r. r \in Nat /\ r \notin Elements(rows)
  BY <1>2
<1> HIDE DEF list, r
<1>5. RowList(list) /\ SoundBuilder(middle, list, InsertRow(pass, index))
  BY <1>1, <1>4, <1>r, InsertSound
<1>6. \A T : Modified(rows, pass, T) => Modified(list, InsertRow(pass, index), T)
  BY <1>1, <1>4, <1>r, InsertModified
<1> QED
  BY <1>1, <1>3, <1>5, <1>6, OtherOperationInvariant

\* Erasing a row keeps the invariant.
LEMMA EraseInvariant ==
    ASSUME IInv, NEW index \in Positions(rows), Erase(index)
    PROVE  IInv'
<1>1. /\ RowList(middle) /\ RowList(rows) /\ SoundBuilder(middle, rows, pass)
      /\ touched \in SUBSET Nat /\ IsFiniteSet(touched)
  BY DEF IInv, RowsAreRows, TouchedAreRows, PassIsSound
<1> DEFINE list == Seqs!RemoveAt(rows, index + 1)
<1>2. Operation(EraseRow(pass, index), list) /\ touched' = touched
  BY DEF Erase
<1>3. list = Seqs!RemoveAt(rows, index + 1)
  OBVIOUS
<1> HIDE DEF list
<1>4. RowList(list) /\ SoundBuilder(middle, list, EraseRow(pass, index))
  BY <1>1, <1>3, EraseSound
<1>5. \A T : Modified(rows, pass, T) => Modified(list, EraseRow(pass, index), T)
  BY <1>1, <1>3, EraseModified
<1> QED
  BY <1>1, <1>2, <1>4, <1>5, OtherOperationInvariant

\* Moving a row keeps the invariant.
LEMMA MoveInvariant ==
    ASSUME IInv, NEW from \in Positions(rows), NEW to \in Positions(rows), Move(from, to)
    PROVE  IInv'
<1>1. /\ RowList(middle) /\ RowList(rows) /\ SoundBuilder(middle, rows, pass)
      /\ touched \in SUBSET Nat /\ IsFiniteSet(touched)
  BY DEF IInv, RowsAreRows, TouchedAreRows, PassIsSound
<1> DEFINE list == Moved(rows, from, to)
<1>2. Operation(MoveRow(pass, from, to), list) /\ touched' = touched
  BY DEF Move, Moved
<1>3. list = Moved(rows, from, to)
  OBVIOUS
<1> HIDE DEF list
<1>4. RowList(list) /\ SoundBuilder(middle, list, MoveRow(pass, from, to))
  BY <1>1, <1>3, MoveSound
<1>5. \A T : Modified(rows, pass, T) => Modified(list, MoveRow(pass, from, to), T)
  BY <1>1, <1>3, MoveModified
<1> QED
  BY <1>1, <1>2, <1>4, <1>5, OtherOperationInvariant

\* Swapping two rows keeps the invariant.
LEMMA SwapInvariant ==
    ASSUME IInv, NEW i \in Positions(rows), NEW j \in Positions(rows), Swap(i, j)
    PROVE  IInv'
<1>1. /\ RowList(middle) /\ RowList(rows) /\ SoundBuilder(middle, rows, pass)
      /\ touched \in SUBSET Nat /\ IsFiniteSet(touched)
  BY DEF IInv, RowsAreRows, TouchedAreRows, PassIsSound
<1> DEFINE list == Swapped(rows, i, j)
<1>2. i < j /\ Operation(SwapRows(pass, i, j), list) /\ touched' = touched
  BY DEF Swap, Swapped
<1>3. list = Swapped(rows, i, j)
  OBVIOUS
<1> HIDE DEF list
<1>4. RowList(list) /\ SoundBuilder(middle, list, SwapRows(pass, i, j))
  BY <1>1, <1>2, <1>3, SwapSound
<1>5. \A T : Modified(rows, pass, T) => Modified(list, SwapRows(pass, i, j), T)
  BY <1>1, <1>2, <1>3, SwapModified
<1> QED
  BY <1>1, <1>2, <1>4, <1>5, OtherOperationInvariant

\* Setting a row keeps the invariant.
LEMMA SetInvariant ==
    ASSUME IInv, NEW index \in Positions(rows), Set(index)
    PROVE  IInv'
<1>1. /\ RowList(middle) /\ RowList(rows) /\ SoundBuilder(middle, rows, pass)
      /\ touched \in SUBSET Nat /\ IsFiniteSet(touched)
  BY DEF IInv, RowsAreRows, TouchedAreRows, PassIsSound
<1>2. Operation(ModifyRow(pass, index), rows) /\ touched' = touched \cup {At(rows, index)}
  BY DEF Set
<1>3. SoundBuilder(middle, rows, ModifyRow(pass, index))
  BY <1>1, SetSound
<1>4. At(rows, index) \in Nat
  <2>1. rows \in Seq(Nat)
    BY <1>1 DEF RowList
  <2> QED
    BY <2>1, PositionsAre
<1> DEFINE more == {At(rows, index)}
           c == ModifyRow(pass, index)
<1>5. more \in SUBSET Nat /\ IsFiniteSet(more)
  BY <1>4, FS_Singleton
<1>6. \A T : Modified(rows, pass, T) => Modified(rows, c, T \cup more)
  BY <1>1, SetModified DEF SoundBuilder
<1>7. Operation(c, rows) /\ touched' = touched \cup more /\ SoundBuilder(middle, rows, c)
  BY <1>2, <1>3
<1> HIDE DEF c, more
<1> QED
  BY <1>1, <1>5, <1>6, <1>7, OperationInvariant

\* Clearing the list keeps the invariant.
LEMMA ClearInvariant ==
    ASSUME IInv, Clear
    PROVE  IInv'
<1>1. /\ RowList(middle) /\ RowList(rows) /\ SoundBuilder(middle, rows, pass)
      /\ touched \in SUBSET Nat /\ IsFiniteSet(touched)
  BY DEF IInv, RowsAreRows, TouchedAreRows, PassIsSound
<1>2. Operation(ClearRows(pass, Len(rows)), <<>>) /\ touched' = touched
  BY DEF Clear
<1>3. RowList(<<>>) /\ SoundBuilder(middle, <<>>, ClearRows(pass, Len(rows)))
  BY <1>1, ClearSound
<1>4. \A T : Modified(<<>>, ClearRows(pass, Len(rows)), T)
  <2>1. ClearRows(pass, Len(rows)).modifications = {}
    BY DEF ClearRows, Nothing
  <2> QED
    BY <2>1, NoneModified
<1> QED
  BY <1>1, <1>2, <1>3, <1>4, OtherOperationInvariant

\* The end of a pass keeps the invariant when the changes it adds are true.
LEMMA EndPassInvariant ==
    ASSUME IInv, NEW c, NEW list, EndPass(c, list), RowList(list),
           ~stranded' => ~stranded /\ SoundBuilder(middle, list, c) /\ AllReal(c),
           NEW T, NEW U, touched' = T \cup U,
           ~stranded' => Modified(middle, whole, T) /\ Modified(list, c, U),
           stranded' => kind' = "deleted",
           kind' = "table" => InAscendingOrder(list),
           touched' \in SUBSET Nat, IsFiniteSet(touched')
    PROVE  IInv'
<1>1. /\ whole' = Merge(whole, c) /\ pass' = Nothing /\ middle' = list /\ rows' = list
      /\ start' = start
  BY DEF EndPass
<1>2. RowList(start) /\ RowList(middle)
  BY DEF IInv, RowsAreRows
<1>3. RowsAreRows' /\ TouchedAreRows' /\ ListsAreNotStranded' /\ RunsStartAfresh'
  BY <1>1, <1>2 DEF RowsAreRows, TouchedAreRows, ListsAreNotStranded, RunsStartAfresh
<1>4. PassIsSound'
  BY <1>1, NothingSound DEF PassIsSound
<1>5. WholeIsSound'
  <2> SUFFICES ASSUME ~stranded' PROVE SoundBuilder(start, list, Merge(whole, c))
    BY <1>1 DEF WholeIsSound
  <2>1. SoundBuilder(start, middle, whole) /\ SoundBuilder(middle, list, c)
    BY DEF IInv, WholeIsSound
  <2> QED
    BY <1>2, <2>1, MergeSound
<1>6. MovesAreReal'
  <2> SUFFICES ASSUME ~stranded' PROVE AllReal(Merge(whole, c))
    BY <1>1 DEF MovesAreReal
  <2>1. /\ SoundBuilder(start, middle, whole) /\ SoundBuilder(middle, list, c)
        /\ AllReal(whole) /\ AllReal(c)
    BY DEF IInv, WholeIsSound, MovesAreReal
  <2> QED
    BY <1>2, <2>1, MergeReal
<1>7. Told(T \cup U, {})'
  <2>1. ASSUME ~stranded' PROVE Modified(list, Merge(whole, c), T \cup U)
    <3>1. SoundBuilder(start, middle, whole) /\ SoundBuilder(middle, list, c)
      BY <2>1 DEF IInv, WholeIsSound
    <3> QED
      BY <1>2, <2>1, <3>1, MergeModified
  <2>2. touched' = (T \cup U) \cup {} /\ Modified(list, Nothing, {})
    BY NothingModified
  <2> QED
    BY <1>1, <2>1, <2>2 DEF Told
<1>8. ModificationsAreTold'
  BY <1>7 DEF ModificationsAreTold
<1> QED
  BY <1>3, <1>4, <1>5, <1>6, <1>8 DEF IInv

\* When no operation is waiting, the changes that are waiting tell of all modifications.
LEMMA Settled ==
    ASSUME IInv, ~stranded, pass = Nothing
    PROVE  middle = rows /\ Modified(middle, whole, touched)
<1>1. middle = rows
  <2>1. RowList(middle) /\ RowList(rows) /\ SoundBuilder(middle, rows, Nothing)
    BY DEF IInv, RowsAreRows, PassIsSound
  <2> QED
    BY <2>1, NothingHasChanged
<1>2. PICK before, during : Told(before, during)
  BY DEF IInv, ModificationsAreTold
<1>3. \A i \in Positions(rows) : At(rows, i) \notin during
  BY <1>2 DEF Told, Modified, Exact, Nothing
<1>4. /\ Modified(middle, whole, before) /\ touched = before \cup during
  BY <1>2 DEF Told
<1> QED
  BY <1>1, <1>3, <1>4 DEF Modified

\* A pass over a list keeps the invariant.
LEMMA RunListInvariant ==
    ASSUME IInv, RunList
    PROVE  IInv'
<1>1. /\ RowList(middle) /\ RowList(rows) /\ SoundBuilder(middle, rows, pass)
      /\ touched \in SUBSET Nat /\ IsFiniteSet(touched)
  BY DEF IInv, RowsAreRows, TouchedAreRows, PassIsSound
<1>2. /\ kind = "list" /\ EndPass(CleanUpStaleMoves(pass), rows)
      /\ kind' = kind /\ touched' = touched /\ stranded' = stranded
  BY DEF RunList
<1>3. SoundBuilder(middle, rows, CleanUpStaleMoves(pass))
  BY <1>1, CleanSound
<1>4. ~stranded
  BY <1>2 DEF IInv, ListsAreNotStranded
<1>5. AllReal(CleanUpStaleMoves(pass))
  BY <1>1, CleanReal
<1>6. PICK before, during : Told(before, during)
  BY DEF IInv, ModificationsAreTold
<1>7. Modified(rows, CleanUpStaleMoves(pass), during)
  BY <1>1, <1>6, CleanModified DEF Told
<1>8. /\ touched' = before \cup during
      /\ ~stranded' => /\ Modified(middle, whole, before)
                       /\ Modified(rows, CleanUpStaleMoves(pass), during)
  BY <1>2, <1>4, <1>6, <1>7 DEF Told
<1> QED
  BY <1>1, <1>2, <1>3, <1>4, <1>5, <1>8, EndPassInvariant

\* Deleting a list keeps the invariant.
LEMMA DeleteListInvariant ==
    ASSUME IInv, NEW told, DeleteList(told)
    PROVE  IInv'
<1> DEFINE c == IF middle # <<>> THEN [told EXCEPT !.deletions = Positions(middle)] ELSE Nothing
<1>1. /\ RowList(middle)
      /\ touched \in SUBSET Nat /\ IsFiniteSet(touched)
  BY DEF IInv, RowsAreRows, TouchedAreRows
<1>2. /\ kind = "list" /\ kind' = "deleted" /\ EndPass(c, <<>>)
      /\ stranded' = (middle # <<>> /\ told # Nothing) /\ touched' = touched
  BY DEF DeleteList
<1>3. ~stranded
  BY <1>2 DEF IInv, ListsAreNotStranded
<1>4. RowList(<<>>) /\ SoundBuilder(middle, <<>>, [Nothing EXCEPT !.deletions = Positions(middle)])
  BY <1>1, AllDeleted
<1>5. ~stranded' => SoundBuilder(middle, <<>>, c)
  <2>1. CASE middle = <<>>
    <3>1. SoundBuilder(<<>>, <<>>, Nothing)
      BY <1>4, NothingSound
    <3> QED
      BY <2>1, <3>1
  <2>2. CASE middle # <<>>
    BY <1>2, <1>4, <2>2
  <2> QED
    BY <2>1, <2>2
<1>6. ~stranded' => c.moves = <<>> /\ c.modifications = {}
  <2>1. CASE middle = <<>>
    <3>1. c = Nothing
      BY <2>1
    <3> QED
      BY <3>1 DEF Nothing
  <2>2. CASE middle # <<>>
    <3>1. SUFFICES ASSUME told = Nothing
                   PROVE  c.moves = <<>> /\ c.modifications = {}
      BY <1>2, <2>2
    <3>2. c = [Nothing EXCEPT !.deletions = Positions(middle)]
      BY <2>2, <3>1
    <3> HIDE DEF c
    <3> QED
      BY <3>2 DEF Nothing
  <2> QED
    BY <2>1, <2>2
<1> HIDE DEF c
<1>7. ~stranded' => AllReal(c) /\ \A T : Modified(<<>>, c, T)
  BY <1>6, NoneModified DEF AllReal
<1>8. PICK before, during : Told(before, during)
  BY DEF IInv, ModificationsAreTold
<1>9. /\ touched' = before \cup during
      /\ ~stranded' => Modified(middle, whole, before) /\ Modified(<<>>, c, during)
  BY <1>2, <1>3, <1>7, <1>8 DEF Told
<1> QED
  BY <1>1, <1>2, <1>3, <1>4, <1>5, <1>7, <1>9, EndPassInvariant

\* Another run of a query keeps the invariant.
LEMMA RunQueryInvariant ==
    ASSUME IInv, NEW list \in IF kind = "table" THEN Ascending ELSE Sorted,
           NEW changed \in AtMostOne(Keys), RunQuery(list, changed)
    PROVE  IInv'
<1>1. /\ RowList(rows) /\ touched \in SUBSET Nat /\ IsFiniteSet(touched)
  BY DEF IInv, RowsAreRows, TouchedAreRows
<1> DEFINE inTableOrder == kind = "table"
           c == Calculate(rows, list, changed, inTableOrder)
<1>2. /\ kind \in {"sorted", "table"} /\ EndPass(c, list) /\ touched' = touched \cup changed
      /\ kind' = kind /\ stranded' = stranded
  BY DEF RunQuery
<1>3. ~stranded /\ middle = rows
  BY <1>2 DEF IInv, ListsAreNotStranded, RunsStartAfresh
<1>4. RowList(list) /\ (kind = "table" => InAscendingOrder(list))
  BY SortedIsRows, AscendingIsRows
<1>5. changed \in SUBSET Nat /\ IsFiniteSet(changed)
  <2>1. Keys \subseteq Nat
    BY DEF Keys
  <2>2. changed = {} \/ \E x \in Nat : changed = {x}
    BY <2>1 DEF AtMostOne
  <2>3. changed \in SUBSET Nat
    BY <2>2
  <2>4. IsFiniteSet(changed)
    BY <2>2, FS_EmptySet, FS_Singleton
  <2> QED
    BY <2>3, <2>4
<1>6. touched' \in SUBSET Nat /\ IsFiniteSet(touched')
  <2>1. IsFiniteSet(touched \cup changed)
    BY <1>1, <1>5, FS_Union
  <2> QED
    BY <1>1, <1>2, <1>5, <2>1
<1>7. inTableOrder \in BOOLEAN /\ (inTableOrder => InAscendingOrder(rows) /\ InAscendingOrder(list))
  BY <1>4 DEF IInv, RunsStartAfresh
<1>8. c = Calculate(rows, list, changed, inTableOrder)
  OBVIOUS
<1> HIDE DEF c, inTableOrder
<1>9. SoundBuilder(middle, list, c)
  BY <1>1, <1>3, <1>4, <1>7, <1>8, CalculateSound
<1>10. Modified(list, c, changed) /\ c.moves = <<>>
  BY <1>1, <1>4, <1>7, <1>8, CalculateModified
<1>11. AllReal(c)
  BY <1>10 DEF AllReal
<1>12. Modified(middle, whole, touched)
  BY <1>2, <1>3, Settled DEF IInv, RunsStartAfresh
<1> QED
  BY <1>2, <1>3, <1>4, <1>6, <1>9, <1>10, <1>11, <1>12, EndPassInvariant

\* Deleting a table keeps the invariant.
LEMMA DeleteTableInvariant ==
    ASSUME IInv, DeleteTable
    PROVE  IInv'
<1> DEFINE c == [Nothing EXCEPT !.deletions = Positions(rows)]
<1>1. /\ RowList(rows) /\ touched \in SUBSET Nat /\ IsFiniteSet(touched)
  BY DEF IInv, RowsAreRows, TouchedAreRows
<1>2. /\ kind \in {"sorted", "table"} /\ kind' = "deleted" /\ EndPass(c, <<>>)
      /\ touched' = touched /\ stranded' = stranded
  BY DEF DeleteTable
<1>3. ~stranded /\ middle = rows
  BY <1>2 DEF IInv, ListsAreNotStranded, RunsStartAfresh
<1>4. RowList(<<>>) /\ SoundBuilder(rows, <<>>, c)
  BY <1>1, AllDeleted
<1>5. c.moves = <<>> /\ c.modifications = {}
  BY DEF Nothing
<1> HIDE DEF c
<1>6. AllReal(c) /\ Modified(<<>>, c, {})
  BY <1>5, NoneModified DEF AllReal
<1>7. Modified(middle, whole, touched) /\ touched' = touched \cup {}
  BY <1>2, <1>3, Settled DEF IInv, RunsStartAfresh
<1> QED
  BY <1>1, <1>2, <1>3, <1>4, <1>6, <1>7, EndPassInvariant

\* Every step keeps the invariant.
LEMMA NextInvariant == IInv /\ [Next]_vars => IInv'
<1> SUFFICES ASSUME IInv, [Next]_vars PROVE IInv'
  OBVIOUS
<1>1. ASSUME NEW index \in 0 .. Len(rows), Insert(index) PROVE IInv'
  BY <1>1, InsertInvariant
<1>2. ASSUME NEW index \in Positions(rows), Erase(index) \/ Set(index) PROVE IInv'
  BY <1>2, EraseInvariant, SetInvariant
<1>3. ASSUME NEW i \in Positions(rows), NEW j \in Positions(rows), Move(i, j) \/ Swap(i, j) PROVE IInv'
  BY <1>3, MoveInvariant, SwapInvariant
<1>4. CASE Clear
  BY <1>4, ClearInvariant
<1>5. CASE RunList
  BY <1>5, RunListInvariant
<1>6. ASSUME NEW told, DeleteList(told) PROVE IInv'
  BY <1>6, DeleteListInvariant
<1>7. ASSUME NEW list \in IF kind = "table" THEN Ascending ELSE Sorted,
             NEW changed \in AtMostOne(Keys), RunQuery(list, changed)
      PROVE  IInv'
  BY <1>7, RunQueryInvariant
<1>8. CASE DeleteTable
  BY <1>8, DeleteTableInvariant
<1>9. CASE UNCHANGED vars
  BY <1>9 DEF vars, IInv, RowsAreRows, TouchedAreRows, PassIsSound, WholeIsSound, RunsStartAfresh,
              ListsAreNotStranded, MovesAreReal, ModificationsAreTold, Told
<1> QED
  BY <1>1, <1>2, <1>3, <1>4, <1>5, <1>6, <1>7, <1>8, <1>9 DEF Next

\* The rows are rows, the changes of a pass and those that are waiting are true
\* of them and tell of their modifications, the moves that are waiting move
\* something, and a query starts each run afresh.
THEOREM Invariant == Spec => []IInv
<1> QED
  BY InitInvariant, NextInvariant, PTL DEF Spec

\* Whatever the operations, passes and runs, and however many rows there are, the
\* deletions and insertions a callback is going to be told turn the rows it had
\* into the rows there are, and every move takes one row from a deletion to an
\* insertion.
THEOREM ChangesAreTrue == Spec => []ChangesRebuildRows
<1>1. IInv => ChangesRebuildRows
  <2> SUFFICES ASSUME IInv PROVE ChangesRebuildRows
    OBVIOUS
  <2>1. Rebuilds(middle, rows, pass) /\ MovesFollowRows(middle, rows, pass)
    BY SoundPromise DEF IInv, PassIsSound
  <2>2. ~stranded => Rebuilds(start, middle, whole) /\ MovesFollowRows(start, middle, whole)
    BY SoundPromise DEF IInv, WholeIsSound
  <2> QED
    BY <2>1, <2>2 DEF ChangesRebuildRows
<1> QED
  BY <1>1, Invariant, PTL

\* Whatever the operations, passes and runs, and whatever is merged: every move a callback
\* is told moves its row, and the modifications it is told, by where the rows were and by
\* where they are, are exactly the rows that have been modified since it was last called and
\* are not told to be inserted.
THEOREM MovesAndModificationsHold == Spec => []MovesAndModificationsAreTrue
<1>1. IInv => MovesAndModificationsAreTrue
  <2> SUFFICES ASSUME IInv, ~stranded, pass = Nothing PROVE MovesAndModificationsAreTrue
    BY DEF MovesAndModificationsAreTrue
  <2>1. /\ RowList(start) /\ RowList(middle) /\ SoundBuilder(start, middle, whole)
        /\ AllReal(whole)
    BY DEF IInv, RowsAreRows, WholeIsSound, MovesAreReal
  <2>2. Modified(middle, whole, touched)
    BY Settled
  <2>3. LET c == Finalize(whole)
        IN  /\ \A m \in Elements(c.moves) : IsReal(start, middle, c, m)
            /\ c.modificationsNew = {i \in Positions(middle) :
                                       i \notin c.insertions /\ At(middle, i) \in touched}
            /\ c.modifications = {i \in Positions(start) :
                                    i \notin c.deletions /\ At(start, i) \in touched}
    BY <2>1, <2>2, TruePromise
  <2> QED
    BY <2>3, Zenon DEF MovesAndModificationsAreTrue
<1> QED
  BY <1>1, Invariant, PTL

=============================================================================
