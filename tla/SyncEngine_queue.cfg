SPECIFICATION Spec
CONSTANTS
    Paths <- OnePath
    Absent = Absent
    MaxTasks = 4
    Workers = {w1, w2, w3, w4, w5}
    PollLimit = 1
    Listings <- NoListings
    PriorityInputs <- AllPriorities
    StrategyInputs <- OneStrategy
    JobBytes <- OneBytes
SYMMETRY WorkerSymmetry
INVARIANTS
    QueueInOrder
CHECK_DEADLOCK FALSE
