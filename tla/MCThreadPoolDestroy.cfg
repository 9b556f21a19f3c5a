\* One worker and one slot: destroy comes while a submitter is blocked.
CONSTANTS
    Submitters = {s1, s2}
    MaxSubmits = 2
    MaxThreads = 1
    ThreadArgs = {1}
    CapacityArgs = {1}
    NoTask = NoTask
SPECIFICATION FairSpec
PROPERTIES BlockedAnswered
