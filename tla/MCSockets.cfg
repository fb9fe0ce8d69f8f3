SPECIFICATION FamilySpec
CONSTANTS
    Chars = {a, NL}
    NL = NL
    n = 3
    MaxLen = 6
    Clients = {c1, c2}
    BufSize = 2
    Mortal = {c1}
    None = None
    XfrClients = {c1, c2, c3}
    Input = 3
    Backlog = 0
    ServerMayFail = TRUE
    Kinds = {"unix", "inet6", "echo"}
    Sizes = {1, 3}
    NumMsgs = 2
    MaxLost = 1
    MaxDups = 1
    MaxErrors = 1
    MaxAddrs = 2
    MaxCalls = 3
INVARIANTS
    LineInv
    WithinLine
    ResultOK
    CopiedWhole
    ResponseMatches
    OnlyListenLeaks
PROPERTIES
    EveryoneServed
CHECK_DEADLOCK FALSE
