SPECIFICATION Spec
CONSTANTS
    t1 = t1
    t2 = t2
    plain = plain
    eth = eth
    tun = tun
    None = None
    Threads <- MCThreads
    Keys <- MCKeys
    EndpointKey = plain
    Indexes <- MCIndexes
    Present <- MCPresent
    Ttls <- MCTtls
    TTL = 2
    MaxTime = 3
    MaxVersion = 2
    MaxClears = 1
    MaxLookups = 2
SYMMETRY MCSymmetry
INVARIANTS
    ClearDiscardsRunning
    AnswersAreFresh
CHECK_DEADLOCK FALSE
