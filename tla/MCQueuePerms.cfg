SPECIFICATION Spec
CONSTANTS
    QCreators = {c1}
    QSenders = {s1}
    QReceivers = {}
    QGetters = {}
    QUnlinkers = {u1}
    QNonBlock = {}
    s1 = s1
    Attrs <- MCAttrs
    Perms <- MCPerms
    Prio <- MCPrio
    Length <- MCLength
    MaxQueues = 1
INVARIANT PermsAsWritten
CHECK_DEADLOCK FALSE
