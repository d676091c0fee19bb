CONSTANTS
    Runs = 2
    Group = {"g", "h"}
    Device = {"d1", "d2"}
    Pools <- MCPools
    MaxTries = 2
    MaxFaults = 1
SPECIFICATION FairSpec
INVARIANTS TypeOK GroupsKeepTheirDisks ClosedMeansGone
PROPERTY EverySubmitEnds
CHECK_DEADLOCK FALSE
