CONSTANTS
    p1 = p1
    p2 = p2
    p3 = p3
    Procs = {p1, p2, p3}
    PIPE_BUF_SZ = 3
    Sizes = {1, 3}
    MaxBytes = 4
SPECIFICATION FairSpec
CHECK_DEADLOCK FALSE
INVARIANTS
    TypeOK
    RingContents
    AckExact
PROPERTIES
    ImplementsStream
    EofDelivered
    WriterReleased
