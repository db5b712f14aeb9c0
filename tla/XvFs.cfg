SPECIFICATION Spec
CONSTANTS
    p1 = p1
    p2 = p2
    Procs = {p1, p2}
    Names = {"a", "b", "d"}
    NInodes = 5
    NBlocks = 6
    NFILE = 2
    NOFILE = 2
    MAXFILE = 2
    PIPESIZE = 2
    FirstFiles <- MCFirstFiles
    Programs <- MCPrograms
INVARIANTS KernelSafe DiskConsistent RefsMatch FreedWithLastUse PipeDelivers
PROPERTY CallEnds
CHECK_DEADLOCK FALSE
