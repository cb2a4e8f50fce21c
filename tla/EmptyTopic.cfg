SPECIFICATION FairSpec
CONSTANTS
    a = a
    b = b
    c = c
    d = d
    e = e
    t = t
    u = u
    Messages = {a, b, c}
    QoS <- MCQoS
    Id <- SharedId
    TopicOf <- MCTopic
    AliasOf <- AliasAll
    NoTopic = NoTopic
    Outcomes = {"accept"}
    After <- AnyOrder
    Async = FALSE
    MaxConns = 2
INVARIANTS
    EmittedTopic
CHECK_DEADLOCK FALSE
