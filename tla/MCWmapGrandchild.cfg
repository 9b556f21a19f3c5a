\* Three generations; nobody unmaps.
CONSTANTS
    Procs = {p1, p2, p3}
    First = p1
    Frames = {f1, f2, f3, f4}
    Files = {}
    Fds = {}
    FilePages = 1
    Vals = {0}
    PGSIZE = 2
    MMAPBASE = 6
    KERNBASE = 10
    MAX_NMMAP = 2
    Clients <- MCGrandparents
    MaxCalls = 6
    NULL = NULL
    Junk = Junk
SYMMETRY SymAll
SPECIFICATION MCSpec
CHECK_DEADLOCK FALSE
INVARIANTS NoFreeWhileMapped
