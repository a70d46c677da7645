SPECIFICATION CanonicalSpec
CONSTANTS
    f1 = f1
    shaA = shaA
    shaB = shaB
    o1 = o1
    o2 = o2
    o3 = o3
    o4 = o4
    s1 = s1
    s2 = s2
    t1 = t1
    t2 = t2
    None = None
    FileIds = {f1}
    Identities = {shaA, shaB}
    Requests = {}
    OperationIds = {o1, o2}
    Sessions = {s1}
    Tabs = {t1, t2}
    FileLists <- OneTimeline
    Positions = {1}
    Patches <- Seeking
    Clock = {0}
    Reloads = FALSE
    Leases = FALSE
    MaxRevision = 0
    MaxGeneration = 1
    MaxEpoch = 1
    MaxDenials = 1
    MaxFaults = 2
CHECK_DEADLOCK FALSE
INVARIANTS
    OnlyStepsBackConflict

    
