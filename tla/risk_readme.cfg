CONSTANTS
    MlGrid <- MCMlGrid
    TunnelGrid <- MCTunnelGrid
    BehaviorGrid <- MCBehaviorGrid
SPECIFICATION EvidenceSpec
CHECK_DEADLOCK FALSE
INVARIANTS
    ReadmeBoundaries
