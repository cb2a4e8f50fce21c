SPECIFICATION Spec
CONSTANTS
    a = a
    b = b
    c = c
    d = d
    t1 = t1
    t2 = t2
    Requests = {a, b, c, d}
    Kind <- KindWaiting
    Topics <- MCTopics
    TopicFilter = {t1, t2}
    Nobody = Nobody
    MaxId = 1
    UniqueIds = TRUE
    QueueQoSZero = TRUE
    Backpressure = FALSE
    LateAcks = 0
    MaxDrops = 0
INVARIANTS
    WaitingIsReleased
CHECK_DEADLOCK FALSE
