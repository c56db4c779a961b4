CONSTANTS
    c1 = c1
    s1 = s1
    p1 = p1
    p2 = p2
    TCP_MAX_TCBS = 3
    Peers = {c1, s1}
    Clients = {c1}
    SOCK_MAX = 2
    SOCK_BACKLOG_MAX = 3
    SOCK_RX_BUF = 2
    Backlogs = {1}
    Procs = {p1, p2}
    MaxBytes <- MCBytes
    MaxOpen = 1
    MaxInc = 2
SPECIFICATION Spec
CHECK_DEADLOCK FALSE
INVARIANTS
    TypeOK
    AcceptSound
    StreamInOrder
SYMMETRY Symmetry
