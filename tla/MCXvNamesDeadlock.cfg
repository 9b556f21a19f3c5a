\* Two processes with the calls of LinkUnlink.
CONSTANTS
    Procs = {p1, p2}
    NInodes = 3
    NINODE = 4
    NFILE = 2
    Calls <- LinkUnlink
    MaxCalls = 4
    None = None
SPECIFICATION Spec
CHECK_DEADLOCK FALSE
INVARIANTS NoDeadlock
