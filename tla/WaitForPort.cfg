SPECIFICATION Spec
CONSTANTS
    Addresses = 2
    Deadline = 9
    Intervals = {2, 5}
    Timeouts = {None, 0, 2}
    Second = 3
    Floor = 1
    Services = {"accepts", "refuses", "silent", "no_socket"}
    MaxChanges = 2
    MaxTime = 12
    None = None
INVARIANTS KeepsItsTimes SteadyPortIsFound
PROPERTIES IntervalIsKept CallReturns
CHECK_DEADLOCK FALSE
