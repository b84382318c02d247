SPECIFICATION Spec
CONSTANTS
    MaxGroupId = 3
    MaxCols = 4
    MaxFaults = 0
    MaxKills = 0
PROPERTY
    DeletesTheRowShown
