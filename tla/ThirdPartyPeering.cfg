CONSTANTS
    Cluster = {east, west}
    Name = {p1, p2}
    None = None
    MaxSubmits = 2
    MaxFaults = 2
    MaxSelections = 1
SPECIFICATION Spec
SYMMETRY Symmetry
INVARIANTS TypeOK PolicyOverBackedClusters RollbackRestoresHub
PROPERTIES DRClusterComesLast EveryStepIsProgress
CHECK_DEADLOCK FALSE
