SPECIFICATION ScanSpec
CONSTANTS
    Probes = 6
    Workers = 2
INVARIANTS FuturesAreBounded ScanIsComplete NothingRunsOn
PROPERTIES IsASweep
CHECK_DEADLOCK FALSE
