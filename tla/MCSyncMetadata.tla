--------------------------- MODULE MCSyncMetadata ---------------------------
EXTENDS SyncMetadata, TLC
Symmetry == Permutations(Users)
=============================================================================
