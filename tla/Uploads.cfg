SPECIFICATION FairSpec
CONSTANTS
    k1 = k1
    k2 = k2
    k3 = k3
    Key <- MCKey
    FileLists <- MCFileLists
    BatchSize = 2
    MaxDrops = 2
INVARIANTS TypeOK CancelAllIsFinal EveryFileAccountedFor
PROPERTIES CompletedStays DropFinishes
CHECK_DEADLOCK FALSE
