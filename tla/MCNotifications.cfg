SPECIFICATION Spec
CONSTANTS
    Notifiers = {n1}
    Callbacks = {c1, c2}
    Others = {"nothing", "silent"}
    MaxVersion = 3
    MaxIncidents = 1
INVARIANTS TypeOK WaitersAreWoken NewsWillCome AssertionsHold
PROPERTIES ChangesFit
SYMMETRY Symmetry
CHECK_DEADLOCK FALSE
