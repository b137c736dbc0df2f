SPECIFICATION FairSpec
CONSTANTS
    Callers = {c1, c2}
    FailureThreshold = 2
    RecoveryTimeout = 2
    CountCap = 3
    MaxRetries = 2
    RetryBackoff = 1
INVARIANTS
    FailClosed
    LoadWhileOpen
PROPERTIES
    KeepsBreakerContract
    AuthorizeReturns
    HealsWithOpa
CHECK_DEADLOCK TRUE
