SPECIFICATION Spec
CONSTANT
    Scenarios <- ResetAndStop
CHECK_DEADLOCK FALSE
INVARIANTS ResetDurable
