SPECIFICATION FairSpec
CONSTANTS
    Threads = {t1, t2}
    Settings <- MCSettings
    Envs <- MCEnvs
    Registry = Registry
    Queue = 2
    MaxLines = 3
    None = None
INVARIANTS
    FirstInitWins
    CrashLeavesAMessage
    FlushedOnDrop
PROPERTY
    LinesAreWritten
CHECK_DEADLOCK FALSE
