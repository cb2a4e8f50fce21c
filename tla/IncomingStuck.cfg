SPECIFICATION FairSpec
CONSTANTS
    a = a
    b = b
    c = c
    d = d
    e = e
    t = t
    u = u
    Messages = {a, b}
    QoS <- MCQoS
    Id <- OwnId
    TopicOf <- MCTopic
    AliasOf <- AliasQoS01
    NoTopic = NoTopic
    Outcomes = {"accept", "decline", "refuse", "error"}
    After <- AnyOrder
    Async = TRUE
    MaxConns = 2
PROPERTIES
    SentIsAnswered
CHECK_DEADLOCK FALSE
