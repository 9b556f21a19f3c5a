\* init and two children whose forks may fail.
CONSTANTS
    NPROC = 3
    NCPU = 2
    PIPESIZE = 2
    WORD = 4
    Sizes = {3}
    KillPids = {3}
    MaxPid = 3
    MaxBytes = 3
    MaxKills = 0
    NULL = NULL
SPECIFICATION Spec
CHECK_DEADLOCK FALSE
INVARIANTS WaitersHaveChildren
