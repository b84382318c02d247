--------------------------- MODULE MCSyncRegistry ---------------------------
EXTENDS SyncRegistry, TLC
Symmetry == Permutations(AppThreads) \cup Permutations(Sessions)
=============================================================================
