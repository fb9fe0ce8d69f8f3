SPECIFICATION FamilySpec
CONSTANTS
    N = 4
    ForkMayFail = TRUE
    MayDie = {2, 3}
    StrLen = 9
    BufSize = 2
    Capacity = 3
    NumLines = 4
    MayFail = {"parent", "ls", "wc", "setup", "fork", "change", "wait", "print", "setsid", "fork2", "chdir", "reopen", "echo"}
    MayBeKilled = {"parent", "child"}
    MaxStray = 2
    Inherited = {7}
    FlagSets = {{}, {"BD_NO_CLOSE_FILES", "BD_NO_CHDIR"}, {"BD_NO_REOPEN_STD_FDS", "BD_NO_UMASK0"}}
    OpenSets = {{0, 1, 2, 4}, {3}}
    OpenMax = {4}
    BD_MAX_CLOSE = 5
    PAT_SIZE = 4
    Valid = {"a", "b"}
    MaxInput = 5
INVARIANTS
    IndInv
    Barrier
    AllEchoed
    CountsAll
    AfterWork
    Collected
    Detached
    RunsWhatWasTyped
PROPERTIES
    AllEnd
CHECK_DEADLOCK FALSE
