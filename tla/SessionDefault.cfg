SPECIFICATION Spec
CONSTANTS
    a = a
    b = b
    c = c
    d = d
    t1 = t1
    t2 = t2
    Requests = {a, b, c}
    Kind <- KindMixed
    Topics <- MCTopics
    TopicFilter = {t1, t2}
    Nobody = Nobody
    MaxId = 5
    UniqueIds = FALSE
    QueueQoSZero = TRUE
    Backpressure = FALSE
    LateAcks = 2
    MaxDrops = 2
INVARIANTS
    InFlightIsStored
    WaitingIsReleased
    PendingIsHeld
CHECK_DEADLOCK FALSE
