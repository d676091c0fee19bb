CONSTANTS
    c1 = c1
    c2 = c2
    c3 = c3
    Client <- MCClient
    Replacing <- MCReplacing
    Foreign = foreign
    MaxRetries = 3
    MaxFaults = 1
    MaxForeign = 0
SPECIFICATION Spec
INVARIANT ServerErrorsAreRetried
CHECK_DEADLOCK FALSE
