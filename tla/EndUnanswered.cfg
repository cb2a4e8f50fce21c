SPECIFICATION FairSpec
CONSTANTS
    e1 = e1
    e2 = e2
    MaxStreams = 2
    None = None
    Ends = {e1}
    ForceOf <- NoneForced
    Internal = Internal
    Period = TRUE
    Manual = FALSE
    Clean = TRUE
    RetryRefused = FALSE
    SlowClose = FALSE
    Polite = TRUE
    Publishes = TRUE
    MaxCalls = 0
    MaxFaults = 1
PROPERTIES
    EndIsAnswered
CHECK_DEADLOCK FALSE
