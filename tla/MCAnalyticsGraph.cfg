SPECIFICATION FairSpec
CONSTANTS
    Turns = {t1, t2}
    Tools = {"get_payment_summary", "execute_read_query"}
    Clients = {"acme", "bmo"}
    Plans <- DistinctPlans
    MaxRetries = 1
    Streaming = TRUE
    Overlap = TRUE
INVARIANTS
    ToolsRunOwnPlan
    FreshResults
    SuggestionsGrounded
    DistinctCallsAnswered
    NarrativeShown
PROPERTIES
    ContextPersists
    TurnsEnd
CHECK_DEADLOCK TRUE
