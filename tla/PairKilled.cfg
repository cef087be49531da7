SPECIFICATION Spec
CONSTANT
    Scenarios <- OneCut
CHECK_DEADLOCK FALSE
INVARIANTS NobodyKilled
