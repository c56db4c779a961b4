CONSTANTS
    TASK_MAX = 4
    NCPU = 1
    MaxPid = 3
SPECIFICATION FairSpec
PROPERTIES
    ReadyRuns
