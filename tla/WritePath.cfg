SPECIFICATION FairSpec
CONSTANTS
    Senders = {"app"}
    Size = 2
    Capacity = 3
    MaxIov = 2
    MaxMsgs = 4
    MaxConns = 1
CHECK_DEADLOCK FALSE
INVARIANTS TypeOK WholeMessages CallbackAfterWrite
PROPERTIES EverythingFlushed
