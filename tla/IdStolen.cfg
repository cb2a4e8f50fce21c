SPECIFICATION Spec
CONSTANTS
    a = a
    b = b
    c = c
    d = d
    t1 = t1
    t2 = t2
    Requests = {a, b, d}
    Kind <- KindPublish
    Topics <- MCTopics
    TopicFilter = {t1, t2}
    Nobody = Nobody
    MaxId = 3
    UniqueIds = TRUE
    QueueQoSZero = TRUE
    Backpressure = FALSE
    LateAcks = 0
    MaxDrops = 1
PROPERTIES
    IdIsNotStolen
CHECK_DEADLOCK FALSE
