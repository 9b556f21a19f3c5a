\* Three operations, two of them outstanding at a time; the log fills up but for
\* the blocks that mkfs leaves too few.
CONSTANTS
    Procs = {p1, p2, p3}
    Home = {b1, b2, b3}
    Vals = {0, 1}
    Zero = 0
    LOGSIZE = 4
    MAXOPBLOCKS = 2
    LogBlocks = 4
    OpBlocks = 1
    MaxOps = 1
    MaxCrashes = 2
    NotCached = NotCached
SPECIFICATION FairSpec
INVARIANTS Durable NoPanic
PROPERTIES ImplementsAtomicDisk OpsFinish
