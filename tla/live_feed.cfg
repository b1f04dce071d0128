CONSTANTS
    d1 = d1
    d2 = d2
    s1 = s1
    Decisions <- MCDecisions
    Seeds <- MCSeeds
    Limits = {1, 2}
    DefaultLimit = 2
    Mounts = 2
    MaxLogged = 2
    MaxRequests = 4
    MaxEvents = 1
SPECIFICATION LiveSpec
SYMMETRY MCDecisionSymmetry
CHECK_DEADLOCK FALSE
INVARIANTS
    QuietStreamAgrees
    BadgeTrueAtRest
