CONSTANTS
    c1 = c1
    c2 = c2
    c3 = c3
    Client <- MCClient
    Replacing <- MCReplacing
    Foreign = foreign
    MaxRetries = 3
    MaxFaults = 1
    MaxForeign = 1
SPECIFICATION FairSpec
INVARIANTS TypeOK ExhaustedOnlyByRivals
PROPERTIES RefinesUpsert EveryCallEnds
CHECK_DEADLOCK FALSE
