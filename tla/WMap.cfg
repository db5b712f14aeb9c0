SPECIFICATION Spec
CONSTANTS
    MAX_VMAPS = 3
    PGSIZE = 2
    NPages = 7
    NFrames = 4
    FilePages = 2
    Programs <- ServedPrograms
INVARIANTS MemorySafe StoresSeen TableMatches
CHECK_DEADLOCK FALSE
