\* Fewer buffers than blocks and than processes, as NBUF and NPROC of param.h
\* are; the log pins one of them at times, and bget may panic.
CONSTANTS
    Procs = {p1, p2, p3}
    Blocks = {k1, k2, k3}
    Hot = {k1}
    NBUF = 2
    MaxPins = 1
    None = None
SPECIFICATION FairSpec
INVARIANTS CacheSound
PROPERTIES ImplementsBlockStore RequestsServed
