SPECIFICATION FairSpec
CONSTANTS
    a = a
    b = b
    c = c
    d = d
    e = e
    t = t
    u = u
    Messages = {a, b, c, d, e}
    QoS <- MCQoS
    Id <- SharedId
    TopicOf <- MCTopic
    AliasOf <- AliasQoS01
    NoTopic = NoTopic
    Outcomes = {"accept", "decline", "refuse", "error"}
    After <- MCAfter
    Async = TRUE
    MaxConns = 2
INVARIANTS
    AckedIsEmitted
    ExactlyOnce
    StoredIsInProgress
    EmittedTopic
PROPERTIES
    SentIsAnswered
CHECK_DEADLOCK FALSE
