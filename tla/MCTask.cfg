CONSTANTS
    TASK_MAX = 5
    NCPU = 2
    MaxPid = 4
SPECIFICATION Spec
INVARIANTS
    TypeOK
    StackExclusive
    LiveStack
    NoSelfDeadlock
    BklHolderRuns
    HltWakes
    HalfBuiltHidden
    RingIntact
    WorkConserving
