SPECIFICATION Spec
CONSTANTS
    Calls = {c1, c2}
    Tools = {"execute_read_query"}
    low = low
    high = high
    Claims <- ByMask
    Kinds = {"data", "error"}
    TTL = 1
    RedisTimeout = 1
    FailureThreshold = 2
    RecoveryTimeout = 1
    CountCap = 2
INVARIANTS
    ErrorsNotServedFromCache
CHECK_DEADLOCK TRUE
