SPECIFICATION FairSpec
CONSTANTS
    Clients = {c1, c2, c3}
    Lens <- MCLens
    InitSeqs <- MCInitSeqs
    W = 8
    Mortal = {c1, c2}
    CloseMayFail = TRUE
    None = None
INVARIANTS
    DisjointUntilWrap
    IndInv
PROPERTIES
    Refines
    EveryoneAnswered
CHECK_DEADLOCK FALSE
