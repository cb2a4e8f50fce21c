SPECIFICATION Spec
CONSTANTS
    e1 = e1
    e2 = e2
    MaxStreams = 2
    None = None
    Ends = {e1, e2}
    ForceOf <- FirstForced
    Internal = Internal
    Period = TRUE
    Manual = TRUE
    Clean = TRUE
    RetryRefused = FALSE
    SlowClose = TRUE
    Polite = FALSE
    Publishes = TRUE
    MaxCalls = 3
    MaxFaults = 1
INVARIANTS
    TypeOK
    TimerIsWanted
PROPERTIES
    EndOnce
CHECK_DEADLOCK FALSE
