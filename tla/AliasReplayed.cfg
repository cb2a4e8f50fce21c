SPECIFICATION Spec
CONSTANTS
    t = t
    u = u
    Topics = {t, u}
    NoTopic = NoTopic
    MaxAlias = 1
    AutoUse = TRUE
    AutoAssign = TRUE
    MaxPublishes = 3
    MaxConns = 3
INVARIANTS
    AliasResolves
CHECK_DEADLOCK FALSE
