\* One second's delay: SetExpiry makes a cancelled upload due again at once.
CONSTANTS
    p1 = p1
    Handles = {1}
    Callers <- OneCaller
    Transfers = 2
    Delay = 1
    MaxDelay = 2
    MaxClock = 1
    MaxItems = 1
    MaxRuns = 2
    MaxFired = 2
SPECIFICATION WbSpec
INVARIANT
    UploadingOffHeap
CHECK_DEADLOCK FALSE
