SPECIFICATION BackupSpec
CONSTANTS
    Retention = 1
    HistoryCap = 2
    MaxClock = 3
    MaxInits = 2
    MaxVersion = 2
    BackupFaults = 2
INVARIANT RestoredValuesOpen
CHECK_DEADLOCK FALSE
