SPECIFICATION Spec
CONSTANTS
    c1 = c1
    c2 = c2
    None = None
    Callers <- MCCallers
    Requests <- MCRequests
    Ttls <- MCTtls
    Deadlines <- MCDeadlines
    Timeout = 2
    Floor = 1
    Reap = 1
    HasDns = TRUE
    Limit = 1
    MaxTime = 2
    MaxCalls = 2
    MaxClears = 1
SYMMETRY MCSymmetry
INVARIANTS
    TypeOK
    EmptyIsEvidence
    ServedByItsChain
    AttemptsEndInTime
CHECK_DEADLOCK FALSE
