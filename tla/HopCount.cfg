SPECIFICATION Spec
CONSTANTS
    MaxHops = 3
    Silent = {}
INVARIANT HopsAreDistance
CHECK_DEADLOCK FALSE
