\* A parent and two children that follow the rules share and copy frames; a
\* parent and a child that make every call.
CONSTANTS
    Procs = {p1, p2, p3}
    First = p1
    Frames = {f1, f2, f3}
    Files = {a}
    Fds = {0}
    FilePages = 3
    Vals = {0, 1}
    PGSIZE = 2
    MMAPBASE = 6
    KERNBASE = 12
    MAX_NMMAP = 2
    Clients <- MCClients
    MaxCalls = 5
    NULL = NULL
    Junk = Junk
SYMMETRY SymAll
SPECIFICATION MCSpec
CHECK_DEADLOCK FALSE
INVARIANTS ListsOK LowestGapFound FilesKept FramesKept FramesExact StoresSeen
