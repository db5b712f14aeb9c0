SPECIFICATION FairSpec
CONSTANTS
    m1 = m1
    m2 = m2
    Threads = {t1, t2, t3}
    Mutexes = {m1, m2}
    Rank <- MCRank
    Uses <- MCUses
    Nices <- AllNices
    MinNice <- NiceMin
    MaxNice = 0
INVARIANTS MutexSafe Restored ElevationExact
PROPERTY FreeMutexIsTaken
