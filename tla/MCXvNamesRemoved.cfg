\* One process with the calls of RemoveCurrent.
CONSTANTS
    Procs = {p1}
    NInodes = 4
    NINODE = 5
    NFILE = 1
    Calls <- RemoveCurrent
    MaxCalls = 5
    None = None
SPECIFICATION Spec
CHECK_DEADLOCK FALSE
INVARIANTS NoOrphans
