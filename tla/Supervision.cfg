CONSTANTS
    ChannelSize = 2
    MaxGenerations = 4
    MaxReports = 3
SPECIFICATION FairSpec
INVARIANTS
    OneHandlingPerGeneration
    AcknowledgedMeansHandled
    OldGenerationsReleased
PROPERTIES
    FailedIsRestarted
    WaitingIsReleased
CHECK_DEADLOCK FALSE
