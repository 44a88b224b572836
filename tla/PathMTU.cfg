SPECIFICATION Spec
CONSTANTS
    MaxSize = 6
    MaxLosses = 2
    MaxChanges = 1
    MaxBroken = 1
    MaxStrays = 1
    Lows = {2, 3}
    Highs = {2, 3, 5}
    Overheads = {3}
    Limits = {4, 7}
    Tries = {0, 2}
INVARIANTS
    NeverTooWide
    NeverTooNarrow
PROPERTIES
    SearchEnds
CHECK_DEADLOCK FALSE
