SPECIFICATION FairSpec
CONSTANTS
    Procs = {p1, p2}
    Boot = p1
    Home = {11, 12}
    NBUF = 4
    LOGSIZE = 4
    MAXOPBLOCKS = 2
    nlog = 4
    MaxWrites = 2
    MaxOps = 2
    MaxReads = 1
    MaxCrashes = 2
INVARIANT CacheSafe
PROPERTIES IsAtomicDisk OpEnds
CHECK_DEADLOCK FALSE
