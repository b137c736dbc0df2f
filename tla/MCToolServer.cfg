SPECIFICATION FairSpec
CONSTANTS
    Calls = {c1, c2}
    Tools = {"get_payment_summary"}
    low = low
    high = high
    Claims <- ByMask
    Kinds = {"data"}
    TTL = 1
    RedisTimeout = 1
    FailureThreshold = 1
    RecoveryTimeout = 1
    CountCap = 1
INVARIANTS
    AnswersAreForTheCaller
    FreshEnough
PROPERTIES
    OpenCircuitDrains
    KeepsToolContract
    CallsReturn
CHECK_DEADLOCK TRUE
