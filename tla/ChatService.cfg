SPECIFICATION FairSpec
CONSTANTS
    Ids = {i1, i2}
    Turns = {t1, t2}
INVARIANTS
    FramesWellFormed
    OnlyCompletedTurnsStored
    AnswersFollowQuestions
PROPERTIES
    TurnsOnlyAdd
    TurnsEnd
CHECK_DEADLOCK TRUE
