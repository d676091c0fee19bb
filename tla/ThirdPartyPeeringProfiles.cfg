CONSTANTS
    Cluster = {east, west, north, south}
    Name = {p1, p2}
    None = None
    MaxSubmits = 2
    MaxFaults = 0
    MaxSelections = 0
SPECIFICATION Spec
INVARIANT UniqueProfilePerDRCluster
CHECK_DEADLOCK FALSE
