SPECIFICATION FairSpec
CONSTANTS
    None = None
    a1 = a1
    a2 = a2
    b1 = b1
    b2 = b2
    c1 = c1
    ScanLibraries = {c1}
    ScanJobIds = {b1, b2}
    ScanFires = {a1}
    ScanNone = None
    ScanBudgets <- ScanCases
    ScanChannel = 1
    SkConns = {a1}
    SkTokens = {b1, b2}
    SkUsers = {c1}
    SkNone = None
    SkUserOf <- TokenUsers
    SkDevices = {b1}
    SkReporters = {a1, a2}
    SkQueue = 1
    SkBudgets <- SkCases
CHECK_DEADLOCK FALSE
PROPERTIES
    ChangesAreScanned
    InterruptedScansResume
    StreamsEnd
    RevokedSocketsLeave
