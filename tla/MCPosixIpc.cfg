SPECIFICATION FamilySpec
CONSTANTS
    Creators = {c1, c2}
    Writers = {w1, w2}
    Readers = {r1}
    Unlinkers = {u1}
    Sizes = {0, 1}
    Mortal = {w1}
    MaxObjs = 2
    Zero = Zero
    w1 = w1
    w2 = w2
    SemCreators = {c1, c2}
    Posters = {p1, p2}
    Waiters = {w1, w2}
    Getters = {g1}
    SemUnlinkers = {u1}
    SemValues = {0, 2}
    SemMax = 1
    MaxSems = 2
    SemMortal = {w1}
    Senders = {s1, s2, s3, s4}
    Receivers = {r1, r2}
    NonBlock = {s4, r2}
    MaxMsg = 2
    MaxStray = 1
    MayFail = TRUE
    QCreators = {c1, c2}
    QSenders = {s1, s2}
    QReceivers = {r1, r2}
    QGetters = {g1}
    QUnlinkers = {u1}
    QNonBlock = {s1, r2}
    s1 = s1
    s2 = s2
    MaxQueues = 2
    MsgLen <- MCMsgLen
    Prio <- MCPrio
    Length <- MCLength
    Attrs <- MCAttrs
    Perms <- MCPerms
INVARIANTS
    IndInv
    
    Conserved
    SleepsOnEmpty
    Delivered
PROPERTIES
    AllDrained
CHECK_DEADLOCK FALSE
