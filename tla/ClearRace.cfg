CONSTANTS
    t1 = t1
    t2 = t2
    v1 = v1
    v2 = v2
    NoValue = NoValue
    Keys <- MCKeys
    Values <- MCValues
    Names = {"a", "b"}
    Requests <- MCRequests
    Threads <- MCThreads
    Operations <- ClearAndUse
    MayFail = FALSE
    MaxIds = 3
SPECIFICATION Spec
INVARIANT
    LookUpsSucceed
CHECK_DEADLOCK FALSE
