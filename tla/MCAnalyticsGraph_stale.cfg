SPECIFICATION Spec
CONSTANTS
    Turns = {t1, t2}
    Tools = {"get_payment_summary", "execute_read_query"}
    Clients = {"acme", "bmo"}
    Plans <- ShortPlans
    MaxRetries = 1
    Streaming = TRUE
    Overlap = FALSE
INVARIANTS
    SuggestionsAreOfThisTurn
CHECK_DEADLOCK TRUE
