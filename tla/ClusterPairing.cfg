CONSTANTS
    MaxSubmits = 2
    MaxFaults = 2
    MaxOthers = 1
    MaxRemounts = 1
    MaxRetries = 3
SPECIFICATION FairSpec
INVARIANTS TypeOK CancelUndoesRun FailedRunLeavesNothing
PROPERTIES OnlyOwnPeerDeleted PeerGoesLast CancelEventuallyCompletes
CHECK_DEADLOCK FALSE
