SPECIFICATION Spec
CONSTANTS
    e1 = e1
    e2 = e2
    MaxStreams = 2
    None = None
    Ends = {}
    ForceOf <- AllForced
    Internal = Internal
    Period = TRUE
    Manual = FALSE
    Clean = TRUE
    RetryRefused = FALSE
    SlowClose = FALSE
    Polite = TRUE
    Publishes = FALSE
    MaxCalls = 0
    MaxFaults = 1
INVARIANTS
    RefusedIsNotRetried
CHECK_DEADLOCK FALSE
