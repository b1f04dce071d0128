CONSTANTS
    plain = plain
    generated = generated
    s1 = s1
    s2 = s2
    a1 = a1
    a2 = a2
    Domains = {plain}
    SyncWorkers = {s1}
    AsyncWorkers = {a1}
    MlProbability <- MCMlProbability
    TunnelScores <- MCTunnelScores
    TTL = 2
    MaxEntries = 1
    MaxFaults = 1
SPECIFICATION FairSpec
PROPERTIES
    EveryQueryAnswered
    KnownThreatsEventuallyBlocked
