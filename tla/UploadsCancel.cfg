SPECIFICATION Spec
CONSTANTS
    k1 = k1
    k2 = k2
    k3 = k3
    Key <- MCKey
    FileLists <- MCFileLists
    BatchSize = 2
    MaxDrops = 2
INVARIANT CancelStopsUploads
CHECK_DEADLOCK FALSE
