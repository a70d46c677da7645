SPECIFICATION Spec
CONSTANTS
    None = None
    a1 = a1
    a2 = a2
    a3 = a3
    b1 = b1
    b2 = b2
    b3 = b3
    c1 = c1
    c2 = c2
    ScanLibraries = {c1}
    ScanJobIds = {b1, b2}
    ScanFires = {a3}
    ScanNone = None
    ScanBudgets <- ScanCases
    ScanChannel = 1
    RpPages = {b3}
    RpSessions = {a1, a2}
    RpPlayback = {c1}
    RpPositions = {1, 2}
    RpEnd = 2
    RpPageNumbers = {1}
    RpMaxRevision = 3
    RpMaxSeconds = 1
    LlIps = {b3}
    LlAccounts = {c1, c2}
    LlKnown = {c1}
    LlCallers = {a1, a2}
    LlThreshold = 2
    LlIpThreshold = 1
    LlWindow = 2
    LlLockout = 2
    LlMaxEntries = 2
    LlSlots = 1
    LlMaxTime = 3
    LlMaxAttempts = 5
    AcMaxId = 2
    AcTokens = {b1, b2, b3}
    AcRequests = {a1, a2}
    AcNone = None
    AcMaxPasswords = 3
    AcMaxWork = 7
    SkConns = {a1, a2}
    SkTokens = {b1, b2, b3}
    SkUsers = {c1, c2}
    SkNone = None
    SkUserOf <- TokenUsers
    SkDevices = {a1, a2}
    SkReporters = {a1, a2}
    SkQueue = 1
    SkBudgets <- SkCases
    PlUsers = {c1, c2}
    PlAdmins = {c2}
    PlEditions = {b1, b2, b3}
    PlRequests = {a1, a2}
    PlMaxId = 1
    PlMaxRequests = 4
SYMMETRY Symmetric
CHECK_DEADLOCK FALSE
INVARIANTS
    ServerTypeOK
    ScansAreTracked
    ProgressAgrees
    GuessesBounded
    TokensFollowPasswords
    FramesAreDue
    SubscribersMissNothing
PROPERTIES
    NoLostUpdate
    OthersKeepTheirOrder
