SPECIFICATION Spec
CONSTANTS
    AppThreads = {t1, t2, t3}
    Loop = loop
    Sessions = {s1, s2, s3}
    None = None
    Policies = {"Immediately", "LiveIndefinitely", "AfterChangesUploaded"}
    MaxCalls = 8
    t1 = t1
    t3 = t3
    t2 = t2
    s1 = s1
    s3 = s3
    s2 = s2
    loop = loop
INVARIANTS TypeOK CyclesAreKnown RunningIsRegistered SessionsFollowUser
SYMMETRY Symmetry
CHECK_DEADLOCK FALSE
