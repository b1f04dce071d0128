CONSTANTS
    parent = parent
    child = child
    other = other
    f1 = f1
    f2 = f2
    w1 = w1
    w2 = w2
    Domains = {parent, other}
    Seeds = {other}
    Names = {child}
    Candidates <- MCCandidates
    Listings <- MCListings
    Feeds = {f1, f2}
    SyncThreads = {w1, w2}
    Adders = {a1}
    Lookers = {r1}
    NoFeed = NoFeed
    NoThread = NoThread
    MaxFailures = 1
    MaxFaults = 1
SPECIFICATION Spec
SYMMETRY Symmetry
INVARIANTS
    SuccessMeansInForce
    ListedNamesNeverClean
PROPERTIES
    FeedIndicatorsStay
    FailuresCountedOnce
