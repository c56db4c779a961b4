CONSTANTS
    s1 = s1
    s2 = s2
    p1 = p1
    TCP_MAX_TCBS = 2
    Peers = {s1, s2}
    Clients = {}
    SOCK_MAX = 2
    SOCK_BACKLOG_MAX = 2
    SOCK_RX_BUF = 2
    Backlogs = {1}
    Procs = {p1}
    MaxBytes <- MCBytes
    MaxOpen = 2
    MaxInc = 1
SPECIFICATION Spec
CHECK_DEADLOCK FALSE
INVARIANTS
    WritesReachPeer
