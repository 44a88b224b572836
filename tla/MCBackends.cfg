SPECIFICATION Spec
CONSTANTS
    Names = 2
    Timeout = 3
    None = None
    Servers = 2
    Tcp = FALSE
    Floor = 1
    Reap = 1
    Chains <- MCChains
    Deadlines = {None, 4}
    MaxTime = 14
INVARIANTS
    StaysInTime
    SilenceIsShared
    NothingIsLeft
    EmptyIsDenied
PROPERTY CallEnds
CHECK_DEADLOCK FALSE
