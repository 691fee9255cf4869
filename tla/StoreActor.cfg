CONSTANTS
    k1 = k1
    k2 = k2
    v1 = v1
    v2 = v2
    NoValue = NoValue
    Keys = {k1, k2}
    Values = {v1, v2}
    Calls = {c1, c2, c3}
    Commands <- AllKinds
    Capacity = 2
    DbMayFail = TRUE
    TaskMayPanic = TRUE
SYMMETRY Symmetry
SPECIFICATION Spec
INVARIANTS
    NoOrphanedCall
    NoLostWakeup
    DrainedBeforeStop
PROPERTIES
    ServedInRealTimeOrder
    ImplementsAtomicStore
CHECK_DEADLOCK FALSE
