SPECIFICATION Spec
CONSTANTS
    Senders = {s1, s2}
    MaxSigs = 2
    NSIG = 7
    SIGINT = 1
    SIGQUIT = 2
    SIGKILL = 3
    SIGCONT = 4
    Ends = {1}
    NoHandler = {3, 5}
    Stops = {5}
    Ignored = {4}
    RtSigs = {6}
    Finals = {1}
    QueueLimit = 3
INVARIANTS
    KindCounted
    QueuedHandled
    PausesOnlyByRace
PROPERTIES
    InterruptEnds
CHECK_DEADLOCK FALSE
