CONSTANTS
    p1 = p1
    p2 = p2
    Procs = {p1, p2}
    HeapUnits = 12
    NPages = 12
    HeapLow = 1
    HeapPages = 2
    MapPages = 1
    TASK_MMAP_MAX = 1
    WM_MAX_PAGES_PER_WIN = 2
    WM_MAX_WINDOWS = 1
    TASK_STACK_SZ = 2
    WmUnits = 1
    Buffers = {2}
    MaxBuffers = 1
    Caps = {1}
    MaxCalls = 4
SPECIFICATION Spec
INVARIANTS
    HeapSound
    PagesOwned
SYMMETRY Symmetry
