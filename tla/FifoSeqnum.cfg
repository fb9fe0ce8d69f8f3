SPECIFICATION FairSpec
CONSTANTS
    Clients = {c1, c2, c3}
    Lens <- MCLens
    INT_MAX = 3
    Mortal = {c1, c2}
    MaxCrashes = 1
    None = None
INVARIANTS
    IndInv
    DisjointGrants
PROPERTIES
    Refines
    Served
CHECK_DEADLOCK FALSE
