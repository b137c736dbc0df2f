SPECIFICATION FairSpec
CONSTANTS
    StartupTimeout = 2
    CallTimeout = 1
    MaxDelay = 4
    FailureCap = 3
    Calls = {c1}
    WatchCap = 12
INVARIANTS
    NothingOutlives
    RetryLoad
PROPERTIES
    NoWorkAfterStop
    KeepsBridgeContract
    DisconnectEnds
    Heals
CHECK_DEADLOCK TRUE
