SPECIFICATION FamilySpec
CONSTANTS
    NumFiles = 3
    MaxEvents = 2
    MaxBuf = 1
    MaxWritten = 2
    MaxLives = 2
    Chars = {"a", "#"}
    MaxTyped = 4
    NumWatched = 2
    Masks = {"IN_OPEN", "IN_MODIFY"}
    Named = {2}
    NameLen = 2
    BufLen = 6
    MaxQueued = 3
    MaxHappened = 5
INVARIANTS
    SnapshotValid
    AllConsumed
    SigioReads
    EventsShown
PROPERTIES
    InputAttended
CHECK_DEADLOCK FALSE
