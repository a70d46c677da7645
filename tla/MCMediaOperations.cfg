SPECIFICATION Spec
CONSTANTS
    o1 = o1
    o2 = o2
    o3 = o3
    s1 = s1
    s2 = s2
    f1 = f1
    f2 = f2
    shaA = shaA
    shaB = shaB
    shaC = shaC
    None = None
    OperationIds = {o1, o2, o3}
    Sessions = {s1, s2}
    FileIds = {f1, f2}
    Identities = {shaA, shaB, shaC}
    FileLists <- MCFileLists
    Positions = {0, 1}
    Requests <- MCRequests
    MaxRevision = 2
    MaxGeneration = 2
CHECK_DEADLOCK FALSE
INVARIANTS
    AppliedOnItsBase
    ResetFences
    ResumeFollowsProvenContent
PROPERTIES
    ImplementsLedger
