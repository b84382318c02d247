SPECIFICATION Spec
CONSTANTS
    MaxRows = 3
    MaxSteps = 5
    MaxPasses = 3
    MaxKeys = 4
    MaxRuns = 2
INVARIANTS ChangesRebuildRows MovesAndModificationsAreTrue
CHECK_DEADLOCK FALSE
