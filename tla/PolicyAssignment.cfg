CONSTANTS
    v1 = v1
    v2 = v2
    a = a
    b = b
    c = c
    User = {u1, u2}
    VM <- MCVM
    PVC <- MCPVC
    Volumes <- MCVolumes
    Name = {n1}
    Placement = {p1, p2}
    None = none
    MaxRuns = 2
    MaxFaults = 1
SPECIFICATION FairSpec
INVARIANTS TypeOK QuietIsConsistent
PROPERTIES DoneMeansDone OthersStayProtected VolumesOutliveDRPC EveryRunEnds
CHECK_DEADLOCK FALSE
