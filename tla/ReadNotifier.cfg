SPECIFICATION Spec
CONSTANTS
    Tasks = {t1, t2}
    Managers = {t2}
    Endpoints = {e1}
    Fds = {d1}
    MaxWaits = 2
    MaxThreads = 2
    MaxData = 1
    Loops = 2
    Overlap = FALSE
    None = None
INVARIANTS NoReaderLeftBehind ThreadsAreRetired
PROPERTIES ReadableWakes CloseEnds
CHECK_DEADLOCK FALSE
