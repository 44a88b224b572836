SPECIFICATION Spec
CONSTANTS
    Tasks = {t1, t2}
    Managers = {t2}
    Endpoints = {e1, e2}
    Fds = {d1}
    MaxWaits = 2
    MaxThreads = 2
    MaxData = 1
    Loops = 1
    Overlap = TRUE
    None = None
PROPERTY ReadableWakes
CHECK_DEADLOCK FALSE
