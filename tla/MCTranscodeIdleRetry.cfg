SPECIFICATION FairSpec
CONSTANTS
    x1 = x1
    x2 = x2
    n1 = n1
    n2 = n2
    c1 = c1
    c2 = c2
    e1 = e1
    e2 = e2
    None = None
    Sessions = {x1}
    Names = {n1}
    Editions = {e1}
    Callers = {c1}
    MaxSessions = 1
    Accelerated = FALSE
    Idles = TRUE
    RemovalFails = FALSE
CHECK_DEADLOCK FALSE
PROPERTIES
    TeardownCompletes
