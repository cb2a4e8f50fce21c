SPECIFICATION Spec
CONSTANTS
    e1 = e1
    e2 = e2
    MaxStreams = 2
    None = None
    Ends = {}
    ForceOf <- AllForced
    Internal = Internal
    Period = TRUE
    Manual = FALSE
    Clean = TRUE
    RetryRefused = FALSE
    SlowClose = FALSE
    Polite = TRUE
    Publishes = TRUE
    MaxCalls = 1
    MaxFaults = 1
INVARIANTS
    PendingIsStored
CHECK_DEADLOCK FALSE
