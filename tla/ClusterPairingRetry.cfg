CONSTANTS
    MaxSubmits = 1
    MaxFaults = 1
    MaxOthers = 0
    MaxRemounts = 0
    MaxRetries = 3
SPECIFICATION FairSpec
PROPERTY RetryRemovesPeer
CHECK_DEADLOCK FALSE
