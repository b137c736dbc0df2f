SPECIFICATION Spec
CONSTANTS
    Names <- MCNames
    Searches <- MCSearches
    Match <- MCMatch
    Payments <- MCPayments
    TopParties = 2
    TopBanks = 1
    Suggestions = 2
    AccountNames <- MCAccountNames
    CrmSearches <- MCSearches
    CrmMatch <- MCCrmMatch
    Contacts <- MCContacts
    Activities <- MCActivities
    Dealings <- MCDealings
    Limit <- MCLimit
    Columns <- MCColumns
    References <- MCReferences
    Values <- MCValues
    EnumThreshold = 2
    Companies <- MCSearches
    Curated <- MCCurated
    MaxResults = 1
    Identities <- MCIdentities
    Users = {"analyst", ""}
    InitialDatabases <- MCInitialDatabases
    MaxCommits = 1
    NoSnapshot = NoSnapshot
    NoEntry = NoEntry
INVARIANTS
    AnswersOneMoment
    CatalogueWasThere
    FiguresAgree
    NoMoreThanClaims
CHECK_DEADLOCK TRUE
