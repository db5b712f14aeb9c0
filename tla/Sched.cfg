SPECIFICATION FairSpec
CONSTANTS
    NPROC = 3
    Lowest = 1
    MinNice <- MCMinNice
    MaxNice = 0
    MaxSleep = 1
    Classes <- MCClasses
INVARIANTS TypeOK Reapable  
PROPERTIES  SleepersWake
