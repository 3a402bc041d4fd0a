SPECIFICATION FairSpec
CONSTANTS
    Paths <- OnePath
    Absent = Absent
    MaxTasks = 2
    Workers = {w1, w2}
    PollLimit = 2
    Listings <- OnePathListings
    PriorityInputs <- OnePriority
    StrategyInputs <- AskOnly
    JobBytes <- OneBytes
INVARIANTS
    OneExecutor
    TaskHistory
    QueueCovered
PROPERTIES
    ImplementsBoard
    EveryTaskServed
    ImplementsFairBoard
CHECK_DEADLOCK FALSE
