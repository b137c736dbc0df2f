SPECIFICATION FairSpec
CONSTANTS
    Sessions = {s1, s2, s3}
    Callers = {s1}
    Failing = {s2}
INVARIANTS
    QuietMeansUsable
    OpenIsHeld
    AloneUndisturbed
PROPERTIES
    SessionsEnd
CHECK_DEADLOCK TRUE
