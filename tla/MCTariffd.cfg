CONSTANTS
    Environments <- SmallEnvironments
    Connections = {c1, c2}
    Requests <- TellingRequests
SPECIFICATION FairSpec
INVARIANTS OneAnswer LogTellsTheStatus OrderlyStop TokensAreAsked
PROPERTIES StopsWhenTold
CHECK_DEADLOCK FALSE
