CONSTANTS
    r1 = r1
    r2 = r2
    r3 = r3
    Rows = {r1, r2, r3}
    Action <- MCAction
    CacheHits = {r2}
    Key <- MCKey
    Terms <- MCTerms
    PageSizes = {1, 2}

    Domains = {"bad.example", "good.example"}
    BackendVerdicts = {"ALLOW", "BLOCK"}
    BadNames = {"bad.example"}
    LongNames = {}
    EffectRuns = 2
    MaxEvaluations = 3

    Searches = {"", "x"}
    Hits <- MCHits
    StoreSize = 3
    BrowserSizes = {1, 2}
    FirstSize = 1
    Lookahead = 1
    MaxFetches = 2
    MaxLost = 1

    Files <- MCFiles
    MaxUploads = 2

    Prompts = {"check", "open"}
    Answerable <- MCAnswerable
    Models <- MCModels
    Offered = {"llama3:latest", "gemma4:e2b"}
    DefaultModel = "llama3:latest"
    ModelFetches = 2
    MaxMessages = 5
    MaxClicks = 1

    evil = evil
    Listed <- MCListed
    DomainHits <- MCDomainHits
    IpHits <- MCIpHits
    OtherHits <- MCOtherHits
    ShortcutHits <- MCShortcutHits
    BlockedOnes = {r1}
    PaletteRows = 2

    Counts = {0, 1, 2, 7}

    Ages <- MCAges
    Ips = {"seeded", "new"}
    SeedIps <- MCSeedIps
    SeedOrder <- MCSeedOrder
    IpSearches <- MCIpSearches
    Risks = {20, 40, 80}
    MaxCharted = 2

    EventIds = {"e1", "e2"}
    BlockIds = {"e1"}
    EventCap = 1
    RowCap = 2
    HookRuns = 2
    MaxPosts = 2
    MaxFaults = 1

    TableSearches = {"", "x"}
    Decided = {"All decisions", "BLOCK"}
    TableHits <- MCTableHits
    PAGE_SIZE = 1
    MaxLoads = 3
    MaxFailed = 1

    RowIds = {"e1", "e2"}
    Captures = {"f1", "f2"}
    MaxDetails = 2
SPECIFICATION Spec
CHECK_DEADLOCK FALSE
INVARIANTS
    ConsolesTypeOK
    PagesShowEverything
    InspectorAgrees
    BrowserAgreesAtRest
    UploadsAgree
    TurnsAlternate
    KeysActOnce
    DonutSharesAddUp
    GroupingsCount
    EliteFeedAgrees
    EliteTableAgrees
    DialogsAgree
