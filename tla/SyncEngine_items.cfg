SPECIFICATION Spec
CONSTANTS
    Paths <- TwoPaths
    Absent = Absent
    MaxTasks = 1
    Workers = {w1, w2}
    PollLimit = 2
    Listings <- TwoPathListings
    PriorityInputs <- OnePriority
    StrategyInputs <- AllStrategies
    JobBytes <- SomeBytes
SYMMETRY WorkerSymmetry
INVARIANTS
    TypeOK
    ConflictsHoldTask
    ProgressExact
    JobsFollowDecisions
    BytesBacked
PROPERTIES
    NoWriteUnderExecutor
    ProgressNeverGoesBack
CHECK_DEADLOCK FALSE
