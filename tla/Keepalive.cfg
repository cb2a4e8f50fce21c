SPECIFICATION Spec
CONSTANTS
    Half = 8
    MaxDelay = 1
    MaxBusy = 2
    ReschedulePings = TRUE
    MaxInFlight = 2
INVARIANTS
    DeadIsFound
    AnsweredIsKept
    BrokerHears
