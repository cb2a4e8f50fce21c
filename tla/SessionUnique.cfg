SPECIFICATION Spec
CONSTANTS
    a = a
    b = b
    c = c
    d = d
    t1 = t1
    t2 = t2
    Requests = {a, b, c, d}
    Kind <- KindPublish
    Topics <- MCTopics
    TopicFilter = {t1, t2}
    Nobody = Nobody
    MaxId = 2
    UniqueIds = TRUE
    QueueQoSZero = TRUE
    Backpressure = TRUE
    LateAcks = 0
    MaxDrops = 1
INVARIANTS
    TypeOK
    OneHolder
    StoredIsInFlight
    CallsBeginInOrder
PROPERTIES
    ReplayIsNotInterrupted
CHECK_DEADLOCK FALSE
