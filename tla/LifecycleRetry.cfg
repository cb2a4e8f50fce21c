SPECIFICATION FairSpec
CONSTANTS
    e1 = e1
    e2 = e2
    MaxStreams = 3
    None = None
    Ends = {e1, e2}
    ForceOf <- AllForced
    Internal = Internal
    Period = TRUE
    Manual = FALSE
    Clean = TRUE
    RetryRefused = TRUE
    SlowClose = FALSE
    Polite = TRUE
    Publishes = TRUE
    MaxCalls = 3
    MaxFaults = 3
INVARIANTS
    OneConnection
    NotAbandoned
    NoTimerWhenConnected
    EndedIsClosed
PROPERTIES
    EndedStaysDown
    EndIsAnswered
    Reconnects
CHECK_DEADLOCK FALSE
