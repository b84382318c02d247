SPECIFICATION Spec
CONSTANTS
    MaxGroupId = 3
    MaxCols = 4
    MaxFaults = 2
    MaxKills = 1
INVARIANTS
    IInv
    StoreIsWellFormed
    TrapsOnlyAfterIncidents
    ListIsFaithful
