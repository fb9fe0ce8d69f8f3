SPECIFICATION FairSpec
CONSTANTS
    Clients = {c1, c2}
    Lens = {1}
    INT_MAX = 3
    Mortal = {c1}
    MaxCrashes = 0
    None = None
PROPERTIES
    AbandonsClient
CHECK_DEADLOCK FALSE
