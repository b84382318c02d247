SPECIFICATION Spec
CONSTANTS
    Users = {u1, u2}
    MaxUuids = 2
    MaxNames = 2
    MaxFiles = 2
    MaxCrashes = 2
    u1 = u1
    u2 = u2
INVARIANTS TypeOK PromisedCopiesExist StartsCarryOutActions UsersOutliveTheProcess
SYMMETRY Symmetry
CHECK_DEADLOCK FALSE
