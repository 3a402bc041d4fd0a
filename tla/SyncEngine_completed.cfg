SPECIFICATION Spec
CONSTANTS
    Paths <- OnePath
    Absent = Absent
    MaxTasks = 1
    Workers = {w1, w2}
    PollLimit = 2
    Listings <- OnePathListings
    PriorityInputs <- OnePriority
    StrategyInputs <- OneStrategy
    JobBytes <- OneBytes
SYMMETRY WorkerSymmetry
INVARIANTS
    CompletedMeansTransferred
CHECK_DEADLOCK FALSE
