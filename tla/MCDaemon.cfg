SPECIFICATION FairSpec
CONSTANTS
    proxy = proxy
    operator = operator
    Procs <- MCProcs
    Overriding = {operator}
    Migrations = 1
    MaxCrashes = 1
    Proxy = proxy
    TopConfigs <- MCConfigs
    Stats <- MCStats
    Period = 3
    Second = 4
    Starts = {32}
    MaxPeriods = 1
    MaxStats = 2
    MaxEdits = 1
    MaxFaults = 1
CHECK_DEADLOCK FALSE
INVARIANTS StatsAccounted FinishedSaved
PROPERTIES Upgrades MigrationEnds  
