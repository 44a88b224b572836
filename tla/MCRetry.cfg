SPECIFICATION Spec
CONSTANTS
    Schedules <- MCSchedules
    MaxAttempts = 4
    MaxLosses = 4
    Parts = 2
    Draws = 4
INVARIANTS
    SameSchedule
    DelaysInRange
    LastErrorSurfaces
CHECK_DEADLOCK FALSE
