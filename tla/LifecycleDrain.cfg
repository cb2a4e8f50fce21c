SPECIFICATION Spec
CONSTANTS
    e1 = e1
    e2 = e2
    MaxStreams = 2
    None = None
    Ends = {e1, e2}
    ForceOf <- FirstForced
    Internal = Internal
    Period = TRUE
    Manual = FALSE
    Clean = TRUE
    RetryRefused = FALSE
    SlowClose = FALSE
    Polite = TRUE
    Publishes = TRUE
    MaxCalls = 0
    MaxFaults = 3
INVARIANTS
    TypeOK
    TimerIsWanted
    DrainedFirst
PROPERTIES
    EndOnce
CHECK_DEADLOCK FALSE
