SPECIFICATION Spec
CONSTANTS
    Sessions = {s1, s2}
    Callers = {s1}
    Failing = {}
INVARIANTS
    StartedHasAuthorizer
CHECK_DEADLOCK TRUE
