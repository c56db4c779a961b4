CONSTANTS
    BCACHE_NR = 2
    Lbas = {1, 2, 3}
    Values = {0, 1}
SPECIFICATION FairSpec
INVARIANTS
    TypeOK
    OneCopy
    FreshReads
    CleanExpendable
PROPERTIES
    ImplementsStore
    Flushed
