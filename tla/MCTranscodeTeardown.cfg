SPECIFICATION Spec
CONSTANTS
    x1 = x1
    x2 = x2
    n1 = n1
    n2 = n2
    c1 = c1
    c2 = c2
    e1 = e1
    e2 = e2
    None = None
    Sessions = {x1, x2}
    Names = {n1}
    Editions = {e1, e2}
    Callers = {c1, c2}
    MaxSessions = 1
    Accelerated = TRUE
    Idles = TRUE
    RemovalFails = TRUE
SYMMETRY Symmetric
CHECK_DEADLOCK FALSE
INVARIANTS
    NothingOutlivesItsSession
PROPERTIES
    DeadIsFinal
