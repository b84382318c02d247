--------------------------- MODULE MCNotifications --------------------------
EXTENDS Notifications, TLC
Symmetry == Permutations(Callbacks) \cup Permutations(Notifiers)
=============================================================================
