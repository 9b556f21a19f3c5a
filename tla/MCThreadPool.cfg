\* Two submitters with two calls each, one or two workers, a queue that wraps.
CONSTANTS
    Submitters = {s1, s2}
    MaxSubmits = 2
    MaxThreads = 2
    ThreadArgs = {0, 1, 2}
    CapacityArgs = {0, 1, 2, 3}
    NoTask = NoTask
SPECIFICATION FairSpec
INVARIANTS TypeOK ExactlyOnce DrainedBeforeFree NoLostWakeup
PROPERTIES ImplementsTaskQueue CallsReturn
