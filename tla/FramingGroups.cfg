SPECIFICATION Spec
CONSTANTS
    Dictionary <- Small
    Scenarios <- Groups
CHECK_DEADLOCK FALSE
INVARIANT RoundTrip
