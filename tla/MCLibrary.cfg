SPECIFICATION Spec
CONSTANTS
    None = None
    a1 = a1
    a2 = a2
    a3 = a3
    b1 = b1
    b2 = b2
    b3 = b3
    c1 = c1
    c2 = c2
    PodFeeds = {c1, c2}
    PodWorkers = {a1, a2}
    PodNone = None
    PodEpisodes = 2
    PodMaxId = 2
    PodKeeps = {1}
    PodBudgets <- PodCases
    BkWorks = {c1}
    BkPodcasts = {c2}
    BkProcs = {a1, a2}
    BkKeep = 2
    BkMaxRuns = 4
    BkMaxWrites = 3
    BkMaxCrashes = 1
    BkLegacy = TRUE
    TpSets = {b1, b2, b3, c1}
    TpSize <- SetSizes
    TpCallers = {a1, a2, a3}
    TpNone = None
    TpPer = 1
    TpTotal = 2
    TpMaxCalls = 4
    TpMaxCrashes = 1
    LsPaths = {1, 2, 3}
    LsContents = {b1, b2}
    LsLibraries <- Libraries
    LsNone = None
    ImCallers = {a1, a2}
    MtEditions = {b1, b2}
    MtTitles = {c1}
    MtMatches = {a3}
    MtRefresh = c2
    MtStreams = {b3}
    MtChannel = 1
    MtMaxId = 2
    MtMaxSteps = 6
SYMMETRY Symmetric
CHECK_DEADLOCK FALSE
INVARIANTS
    LibraryTypeOK
    SubscriptionsHold
    GenerationsHold
    SpaceIsBounded
    SetsAreWhole
    LibraryShowsFiles
    RefreshEndIsDelivered
PROPERTIES
    MovedKeepsEdition
    PublishedAsProven
    NothingIsUndone
