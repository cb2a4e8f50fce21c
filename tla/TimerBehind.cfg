SPECIFICATION Spec
CONSTANTS
    e1 = e1
    e2 = e2
    MaxStreams = 2
    None = None
    Ends = {e1}
    ForceOf <- AllForced
    Internal = Internal
    Period = TRUE
    Manual = FALSE
    Clean = TRUE
    RetryRefused = FALSE
    SlowClose = FALSE
    Polite = FALSE
    Publishes = FALSE
    MaxCalls = 1
    MaxFaults = 0
INVARIANTS
    NoTimerWhenConnected
CHECK_DEADLOCK FALSE
