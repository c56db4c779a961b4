CONSTANTS
    p1 = p1
    p2 = p2
    Procs = {p1, p2}
    TASK_MAX_FDS = 3
    STD_FDS = 1
    OBJ_MAX = 1
    Workloads = {{"pipe", "pty"}, {"tmpfs", "sock", "9p"}}
    Limits = {2}
SYMMETRY Symmetry
SPECIFICATION Spec
CHECK_DEADLOCK FALSE
INVARIANTS
    TypeOK
    RefsExact
    PairLifetime
    SockNotLeaked
