---- MODULE MCCompareCells ----
EXTENDS CompareCells

\* Cells that the editor treats each in its own way: the name and a text of
\* item 1, a first and a later column below, the latter in a row that
\* restoreData miscounts, and a memo.
SomeCells == {<<1, 0>>, <<1, 2>>, <<2, 1>>, <<5, 3>>, <<8, 1>>}
====
