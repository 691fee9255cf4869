CONSTANTS
    t1 = t1
    t2 = t2
    v1 = v1
    v2 = v2
    NoValue = NoValue
    Keys <- MCKeys
    Values <- MCValues
    Names = {"a", "b"}
    Requests <- MCRequests
    Threads <- MCThreads
    Operations <- EveryKind
    MayFail = TRUE
    MaxIds = 3
SPECIFICATION Spec
INVARIANTS
    AnswersAreWitnessed
    MissingOnlyWhileClearing
PROPERTY
    WritesAreWhole
CHECK_DEADLOCK FALSE
