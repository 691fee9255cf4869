CONSTANTS
    k1 = k1
    k2 = k2
    v1 = v1
    v2 = v2
    NoValue = NoValue
    Keys = {k1, k2}
    Values = {v1, v2}
    Calls = {c1, c2}
    Commands <- BatchWake
    Capacity = 2
    DbMayFail = FALSE
    TaskMayPanic = FALSE
SPECIFICATION FairSpec
PROPERTY
    NotifyReadReturnsTheResult
CHECK_DEADLOCK FALSE
