CONSTANTS
    FS_MAX_FILES = 2
    FS_DIR_ROOT = 255
    PerSector = 1
    NData = 3
    Paths <- MCPaths
    Sizes = {0, 1, 2}
    Batches <- MCBatches
    MaxWrites = 2
    MaxFails = 1
SPECIFICATION Spec
CHECK_DEADLOCK FALSE
INVARIANTS
    TypeOK
    TreeSound
    CrashAtomic
