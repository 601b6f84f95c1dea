SPECIFICATION ReviewsSpec
CONSTANTS
    ScanLimit = 3
    PageBytes = 2
    EventBytes = 4
    Stores <- MCStores
    MaxTree = 2
    MaxCrashes = 1
    FirstGit <- MCGit
INVARIANTS ServedIsFolded ReplayExact FollowerAwake QueriesAgree ProgressIsTrue NamedIsRetained
CHECK_DEADLOCK FALSE
