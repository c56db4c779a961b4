CONSTANTS
    Procs = {1, 2}
    Sigs = {2, 9, 17, 18, 19}
    Hooked <- MCHooked
    Groups = {2}
    Limited = {2}
    MaxSends = 2
SPECIFICATION SigSpec
CHECK_DEADLOCK FALSE
INVARIANTS
    SigTypeOK
    JobControlOrder
    MaskIsFrames
