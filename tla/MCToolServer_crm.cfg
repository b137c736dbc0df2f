SPECIFICATION Spec
CONSTANTS
    Calls = {c1, c2}
    Tools = {"get_salesforce_summary"}
    low = low
    high = high
    Claims <- ByAccounts
    Kinds = {"data"}
    TTL = 1
    RedisTimeout = 1
    FailureThreshold = 2
    RecoveryTimeout = 1
    CountCap = 2
INVARIANTS
    AnswersAreForTheCaller
CHECK_DEADLOCK TRUE
