CONSTANTS
    Procs = {1, 2}
    Sigs = {1, 2, 9, 17, 18, 19, 20}
    Hooked = {}
    Groups = {2}
    Limited = {}
    MaxSends = 1
    PTY_BUF_SZ = 2
    Outputs = {2}
    Keys = {0, 20}
SPECIFICATION FairSpec
CHECK_DEADLOCK FALSE
INVARIANTS
    TypeOK
PROPERTIES
    ReadersKillable
    HangupReleases
