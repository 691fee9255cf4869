CONSTANTS
    k1 = k1
    k2 = k2
    v1 = v1
    v2 = v2
    NoValue = NoValue
    Keys = {k1, k2}
    Values = {v1, v2}
    Calls = {c1, c2, c3}
    Commands <- WaitersAndWriters
    Capacity = 1
    DbMayFail = FALSE
    TaskMayPanic = TRUE
SPECIFICATION FairSpec
PROPERTIES
    CallsEnd
    WaitersWakeUp
CHECK_DEADLOCK FALSE
