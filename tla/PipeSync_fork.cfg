SPECIFICATION Spec
CONSTANTS
    N = 2
    ForkMayFail = TRUE
    MayDie = {}
INVARIANTS
    ExitsSynchronized
CHECK_DEADLOCK FALSE
