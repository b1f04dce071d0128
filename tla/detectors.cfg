CONSTANTS
    MlGrid <- MCMlGrid
    TunnelGrid <- MCTunnelGrid
    BehaviorGrid <- MCBehaviorGrid
    w1 = w1
    w2 = w2
    Workers = {w1, w2}
    Clients = {c1}
    Shapes <- MCShapes
    ElevatedRate = 1
    BurstRate = 2
    Window = 2
    Skew = 3
    MaxClock = 4
    MaxQueries = 3
    MaxFaults = 1
SPECIFICATION DetectorsSpec
SYMMETRY Symmetry
CHECK_DEADLOCK FALSE
INVARIANTS
    FastPathAgrees
    OneDetectorNeverBlocks
    RecentQueriesKept
PROPERTIES
    MoreEvidenceNeverSofter
    InOrderVolumeExact
