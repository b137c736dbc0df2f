SPECIFICATION FairSpec
CONSTANTS
    Order <- TwoBridges
    Turns = {t1, t2}
    PromptTTL = 2
    ListTimeout = 1
PROPERTIES
    CatalogueRecovers
    OfferedWasReady
    StopEnds
CHECK_DEADLOCK TRUE
