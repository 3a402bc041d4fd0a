SPECIFICATION BridgeSpec
CONSTANTS
    Files <- SomeFiles
    Blocks <- SomeBlocks
    Hole = Hole
    Missing = Missing
    Disks <- SomeDisks
    Requests <- SomeRequests
    MaxJobs = 2
    MaxBytes = 100
INVARIANTS
    BridgeTypeOK
    CopiesExactly
    RepeatedCopiesAgree
    FullMeansCopied
PROPERTIES
    PercentageRises
    ImplementsJobTable
CHECK_DEADLOCK FALSE
