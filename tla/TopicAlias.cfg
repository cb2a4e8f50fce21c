SPECIFICATION Spec
CONSTANTS
    t = t
    u = u
    Topics = {t, u}
    NoTopic = NoTopic
    MaxAlias = 2
    AutoUse = TRUE
    AutoAssign = TRUE
    MaxPublishes = 4
    MaxConns = 3
INVARIANTS
    TablesAgree
    FreshAliasResolves
    StoredBearsTopic
CHECK_DEADLOCK FALSE
