SPECIFICATION FilesSpec
CONSTANTS
    Paths <- OnePath
    Absent = Absent
    Sizes <- OneSize
    MaxClock = 2
    MaxEdits = 1
    MaxSyncs = 2
INVARIANTS
    SyncingAgainIsHarmless
CHECK_DEADLOCK FALSE
