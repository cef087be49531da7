SPECIFICATION FairSpec
CONSTANT
    Scenarios <- Safety
CHECK_DEADLOCK FALSE
INVARIANTS TypeOK LoadedComplete StopDurable ResetForgets
PROPERTIES WriterKeepsOrder EventuallyWritten
