\* Two threads, one operation each, from bst_init and from every tree of three
\* or four keys; three threads on two shapes of a tree of three keys.
CONSTANTS
    Threads = {t1, t2, t3}
    Nodes = {1, 2, 3, 4, 5}
    Keys = {1, 2, 3, 4}
    Values = {a, b}
    MaxOps = 1
    NULL = NULL
    Pair = {t1, t2}
    CrowdNodes = {1, 2, 3, 4}
    CrowdKeys = {1, 2, 3}
    CrowdValues = {a}
    Orders <- MCOrders
    CrowdOrders <- MCCrowdOrders
SPECIFICATION MCSpec
INVARIANTS SearchTree NodesSafe
PROPERTIES Linearizable OpsReturn
