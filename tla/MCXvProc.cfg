\* init, a process with a pipe and its child, on two processors; a write fills
\* the pipe twice and wraps its counters.
CONSTANTS
    NPROC = 3
    NCPU = 2
    PIPESIZE = 2
    WORD = 4
    Sizes = {4}
    KillPids = {0, 3}
    MaxPid = 3
    MaxBytes = 4
    MaxKills = 1
    NULL = NULL
SPECIFICATION FairSpec
CHECK_DEADLOCK FALSE
INVARIANTS NoLostWakeup PipeFifo Owned
PROPERTIES CallsReturn
