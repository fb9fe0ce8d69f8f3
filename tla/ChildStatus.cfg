SPECIFICATION Spec
CONSTANTS
    MaxChanges = 3
INVARIANTS
    DetectsEnd
CHECK_DEADLOCK FALSE
