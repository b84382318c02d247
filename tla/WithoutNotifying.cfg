SPECIFICATION Spec
CONSTANTS
    Notifiers = {n1}
    Callbacks = {c1}
    Others = {"nothing", "silent"}
    MaxVersion = 3
    MaxIncidents = 0
PROPERTIES SuppressedIsNotTold
SYMMETRY Symmetry
CHECK_DEADLOCK FALSE
