SPECIFICATION FairTransfersSpec
CONSTANTS
    Slots = {s1, s2, s3}
    MaxTasks = 2
INVARIANTS
    TransfersTypeOK
    NeverStopsLooking
    CompleteIsTrue
PROPERTIES
    CompletionReported
CHECK_DEADLOCK FALSE
