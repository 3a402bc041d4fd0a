SPECIFICATION FilesSpec
CONSTANTS
    Paths <- OnePath
    Absent = Absent
    Sizes <- TwoSizes
    MaxClock = 2
    MaxEdits = 3
    MaxSyncs = 2
INVARIANTS
    NewestSurvives
PROPERTIES
    SyncAgrees
CHECK_DEADLOCK FALSE
