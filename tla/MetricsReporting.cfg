SPECIFICATION ProcessFairSpec
CONSTANTS
    Threads = {t1, t2}
    AppFamilies <- MCAppFamilies
    MaxDbs = 2
    MaxMaps = 2
    MaxArcs = 3
    None = None
INVARIANTS
    OneDBMetrics
PROPERTIES
    ReportingRecovers
    DatabaseCloses
CHECK_DEADLOCK FALSE
