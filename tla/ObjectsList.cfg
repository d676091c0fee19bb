CONSTANTS
    Last = 4
    Key = {"a", "ab"}
    KeyAt <- MCKeyAt
    HasPrefix <- MCHasPrefix
    Markers = {1}
    Locked = {4}
    Buckets = {{3, 4}}
    PageSize = 2
    Queries <- MCQueries
    Home = {"a", "ab"}
    ListSize = 1
    MaxOps = 2
    MaxFaults = 1
    MaxFlights = 2
    MaxRequests = 3
SPECIFICATION FairSpec
INVARIANTS TypeOK TokensMatchPage DeletedRowsDisappear
PROPERTIES DeletesExactlyItsOwn DeletionEnds
CHECK_DEADLOCK FALSE
