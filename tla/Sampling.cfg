CONSTANTS
    AfterNumOps = 2
    Modulus = 11
    MaxOps = 18
    MaxResets = 4
SPECIFICATION PerfFairSpec
INVARIANTS
    OneSamplePerReset
    ExactRate
    TimingOnlyWhileSampled
    ReportsOwnWork
PROPERTIES
    SpacedByOperations
    OverdueIsReset
CHECK_DEADLOCK FALSE
