CONSTANTS
    TASK_MAX = 4
    NCPU = 1
    MaxPid = 3
SPECIFICATION Spec
INVARIANTS
    WaiterHasNoZombie
