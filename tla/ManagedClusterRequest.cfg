CONSTANTS
    Request = {r1, r2}
    MaxRetries = 3
    MaxFaults = 2
SPECIFICATION FairSpec
INVARIANTS TypeOK OnlyFaultsLeak
PROPERTIES RefinesRemoteCall EveryRequestSettles AnswerInTimeIsHeard
CHECK_DEADLOCK FALSE
