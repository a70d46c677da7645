SPECIFICATION QSpec
CONSTANTS
    f1 = f1
    shaA = shaA
    shaB = shaB
    o1 = o1
    o2 = o2
    o3 = o3
    o4 = o4
    s1 = s1
    s2 = s2
    t1 = t1
    t2 = t2
    None = None
    FileIds = {f1}
    Identities = {shaA, shaB}
    Requests = {}
    OperationIds = {o1, o2, o3}
    Sessions = {s1, s2}
    Tabs = {t1}
    FileLists <- Replaced
    Positions = {1}
    Patches <- Seeking
    Clock = {0}
    Reloads = TRUE
    Leases = FALSE
    MaxRevision = 0
    MaxGeneration = 2
    MaxEpoch = 1
    MaxDenials = 0
    MaxFaults = 1
SYMMETRY Symmetric
CHECK_DEADLOCK FALSE
PROPERTIES
    OnlyChosenContinues
