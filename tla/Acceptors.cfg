SPECIFICATION Spec
CONSTANTS
    Sessions = {s1, s2}
    Readers = 1
    MaxFd = 3
    MaxPeers = 2
    MaxStarts = 1
SYMMETRY SessionSymmetry
CHECK_DEADLOCK FALSE
INVARIANTS TypeOK OneConnection ListenersAgree NothingForgotten
