SPECIFICATION FairFlowSpec
CONSTANTS
    a = a
    b = b
    c = c
    d = d
    Requests = {a, b, c, d}
    Kind <- KindFlow
    Topics <- NoTopics
    TopicFilter = {}
    Nobody = Nobody
    MaxId = 2
    UniqueIds = TRUE
    QueueQoSZero = TRUE
    Backpressure = TRUE
    LateAcks = 0
    MaxDrops = 1
    MayRefuse = TRUE
INVARIANTS
    ReceivedIsInFlight
PROPERTIES
    ImplementsContract
    PublishIsAnswered
    IdIsNotStolen
CHECK_DEADLOCK FALSE
