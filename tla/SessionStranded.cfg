SPECIFICATION Spec
CONSTANT
    Scenarios <- Skipped
CHECK_DEADLOCK FALSE
INVARIANTS NextNeverStranded
