SPECIFICATION Spec
CONSTANTS
    Dictionary <- Small
    Scenarios <- Traffic
CHECK_DEADLOCK FALSE
INVARIANTS TypeOK CutAnywhere ArrivesWhole AcceptedWasSealed RoundTrip NothingLost
PROPERTY LoadIsClosure
