\* A file can be uploaded twice at once, while another one waits, and cancelled
\* uploads can end, be started again and be cancelled again.
CONSTANTS
    p1 = p1
    Handles = {1, 2}
    Callers <- OneCaller
    Transfers = 2
    Delay = 1
    MaxDelay = 2
    MaxClock = 1
    MaxItems = 2
    MaxRuns = 3
    MaxFired = 1
SPECIFICATION WbSpec
INVARIANTS
    WbTypeOK
    HeadScheduled
    NothingForgotten
CHECK_DEADLOCK FALSE
