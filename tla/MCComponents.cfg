\* Two processors and two threads; the module gives the other components
\* their constants.
CONSTANTS
    CPUs = {1, 2}
    Threads = {"t", "u"}
    None = None
    p1 = p1
    p2 = p2
SPECIFICATION MCSpec
INVARIANTS  BlocksExact MemoryWhole ConsoleSound InterruptsRight ParsesGrammar JobsRun AllocatorsSound CountsLRU PuzzlesRight
PROPERTIES ImplementsByteFiles ImplementsTypedLines ImplementsRegions
CHECK_DEADLOCK FALSE
