CONSTANTS
    t1 = t1
    t2 = t2
    t3 = t3
    Controllers = {c1, c2}
    Threads = {t1, t2, t3}
    NoThread = NoThread
    NumFeeds = 2
    MaxFaults = 1
    f1 = f1
    f2 = f2
    evil = evil
    FeedOrder <- MCFeedOrder
    Objects <- MCObjects
    NoDomain = NoDomain
    Unreadable = Unreadable
    Limit = 2
    MaxObjects <- MCMaxObjects
SPECIFICATION FeedsSpec
INVARIANTS
    WorkerTypeOK
    SyncsNeverOverlap
    PollComplete
    MergeIsJoin
PROPERTIES
    StoppedLoopsEnd
    RunningKeepsPolling
    ParsedAllOrNothing
