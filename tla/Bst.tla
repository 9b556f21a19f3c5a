-------------------------------- MODULE Bst ---------------------------------
(* The binary search tree of solution/bst.c with hand-over-hand locking: a   *)
(* tree lock that guards the root pointer and one lock per node.             *)
(*                                                                           *)
(* A node's fields are read and written only with its lock held, so a step   *)
(* runs from the acquisition of one lock up to (not including) the next      *)
(* acquisition, or to the free of a node: the releases in between move with  *)
(* it.  The pointer a thread is about to lock is a local, read before the    *)
(* lock is granted.                                                          *)
EXTENDS Integers, FiniteSets

CONSTANTS Threads,    \* client threads
          Nodes,      \* addresses malloc can return
          Keys, Values,
          MaxOps,     \* bound: operations per thread
          NULL        \* no node, no thread, no operation

Ops == [type : {"insert"}, key : Keys, value : Values]
       \cup [type : {"lookup", "delete"}, key : Keys]

ASSUME BstAssumption == /\ Keys \subseteq Int /\ Keys # {} /\ Values # {}
                        /\ MaxOps \in Nat /\ IsFiniteSet(Nodes)
                        /\ NULL \notin Nodes \cup Threads \cup Values \cup Ops

VARIABLES
    root, tlock,                  \* bst_t: root, owner of tree->lock
    key, value, left, right,      \* bst_node_t
    lock,                         \* owner of each node's lock
    alloc,                        \* the addresses malloc'ed and not freed
    pc, op, res, calls,           \* per thread: control, operation, result
    cur, prev, succ, next,        \* per thread: the code's node pointers
    is_left,
    destroyed

fields == <<key, value, left, right>>
ptrs == <<cur, prev, succ, next>>
vars == <<root, tlock, fields, lock, alloc, pc, op, res, calls, ptrs, is_left, destroyed>>

-----------------------------------------------------------------------------
Child(n, k)  == IF k < key[n] THEN left[n] ELSE right[n]
OnlyChild(n) == IF left[n] # NULL THEN left[n] ELSE right[n]
TwoChildren(n) == left[n] # NULL /\ right[n] # NULL

\* Thread p ends a step holding the locks of got and having released those of gave.
Locks(p, got, gave) ==
    lock' = [n \in Nodes |-> IF n \in gave THEN NULL ELSE IF n \in got THEN p ELSE lock[n]]

\* The operation's result is fixed, the function may have a node left to free.
Returns(p, r) == /\ res' = [res EXCEPT ![p] = r]
                 /\ op' = [op EXCEPT ![p] = NULL]
At(p, l) == pc' = [pc EXCEPT ![p] = l]

\* Thread p's pointers: c, v, s, x are its cur, prev, succ and next.
Points(p, c, v, s, x) == /\ cur'  = [cur EXCEPT ![p] = c]
                         /\ prev' = [prev EXCEPT ![p] = v]
                         /\ succ' = [succ EXCEPT ![p] = s]
                         /\ next' = [next EXCEPT ![p] = x]
Side(p, l) == is_left' = [is_left EXCEPT ![p] = l]
Forgets(p) == Points(p, NULL, NULL, NULL, NULL)

\* bst_node_create, the links excepted.
NewNode(m, o) ==
    /\ m \in Nodes \ alloc
    /\ alloc' = alloc \cup {m}
    /\ key' = [key EXCEPT ![m] = o.key]
    /\ value' = [value EXCEPT ![m] = o.value]

-----------------------------------------------------------------------------
(* The start of bst_insert, bst_lookup and bst_delete. *)

CallOp(p) ==
    /\ pc[p] = "idle" /\ calls[p] < MaxOps /\ ~destroyed
    /\ \E o \in Ops : op' = [op EXCEPT ![p] = o]
    /\ calls' = [calls EXCEPT ![p] = @ + 1]
    /\ At(p, "tree")
    /\ UNCHANGED <<root, tlock, fields, lock, alloc, res, ptrs, is_left, destroyed>>

\* tree->lock granted, the tree is empty: lookup and delete fail, insert makes
\* the root (or fails to allocate it); tree->lock is released.
EmptyTree(p) ==
    /\ pc[p] = "tree" /\ tlock = NULL /\ root = NULL
    /\ \/ /\ op[p].type # "insert" /\ Returns(p, "-1")
          /\ UNCHANGED <<root, fields, alloc>>
       \/ /\ op[p].type = "insert"
          /\ \E m \in Nodes : /\ NewNode(m, op[p]) /\ root' = m
                              /\ left' = [left EXCEPT ![m] = NULL]
                              /\ right' = [right EXCEPT ![m] = NULL]
          /\ Returns(p, "0")
       \/ /\ op[p].type = "insert" /\ Returns(p, "no memory")
          /\ UNCHANGED <<root, fields, alloc>>
    /\ At(p, "idle")
    /\ UNCHANGED <<tlock, lock, calls, ptrs, is_left, destroyed>>

\* tree->lock granted, the tree is not empty: go for the root's lock.
LockTree(p) ==
    /\ pc[p] = "tree" /\ tlock = NULL /\ root # NULL
    /\ tlock' = p
    /\ Points(p, NULL, NULL, NULL, root) /\ At(p, "root")
    /\ UNCHANGED <<root, fields, lock, alloc, op, res, calls, is_left, destroyed>>

-----------------------------------------------------------------------------
(* bst_insert and bst_lookup: thread p has just locked node n, and releases  *)
(* the locks in gave on the way.                                             *)

Found(p, n, gave) ==
    /\ key[n] = op[p].key
    /\ Returns(p, IF op[p].type = "lookup" THEN value[n] ELSE "-1")
    /\ Locks(p, {}, gave \cup {n}) /\ At(p, "idle") /\ Forgets(p)
    /\ UNCHANGED <<fields, alloc>>

InsertLeaf(p, n, gave) ==
    /\ op[p].type = "insert" /\ key[n] # op[p].key /\ Child(n, op[p].key) = NULL
    /\ \/ /\ \E m \in Nodes :
               /\ NewNode(m, op[p])
               /\ left' = [left EXCEPT ![m] = NULL, ![n] = IF op[p].key < key[n] THEN m ELSE @]
               /\ right' = [right EXCEPT ![m] = NULL, ![n] = IF op[p].key < key[n] THEN @ ELSE m]
          /\ Returns(p, "0")
       \/ Returns(p, "no memory") /\ UNCHANGED <<fields, alloc>>
    /\ Locks(p, {}, gave \cup {n}) /\ At(p, "idle") /\ Forgets(p)

LookupFails(p, n, gave) ==
    /\ op[p].type = "lookup" /\ key[n] # op[p].key /\ Child(n, op[p].key) = NULL
    /\ Returns(p, "-1")
    /\ Locks(p, {}, gave \cup {n}) /\ At(p, "idle") /\ Forgets(p)
    /\ UNCHANGED <<fields, alloc>>

\* Go for the lock of x, keeping those in got.
DescendTo(p, n, got, gave, x) ==
    /\ key[n] # op[p].key /\ Child(n, op[p].key) # NULL
    /\ Points(p, n, NULL, NULL, x)
    /\ Locks(p, got, gave) /\ At(p, "step")
    /\ UNCHANGED <<fields, alloc, op, res>>

\* Mutants: unlock the current node before locking its child; stay at n.
DescendUncoupled(p, n, gave) == DescendTo(p, n, {}, gave \cup {n}, Child(n, op[p].key))
DescendStays(p, n, gave) == DescendTo(p, n, {}, gave \cup {n}, n)

Descend(p, n, gave) == DescendTo(p, n, {n}, gave, Child(n, op[p].key))

Visit(p, n, gave) ==
    /\ op[p].type \in {"insert", "lookup"}
    /\ lock[n] = NULL
    /\ Found(p, n, gave) \/ InsertLeaf(p, n, gave) \/ LookupFails(p, n, gave)
         \/ Descend(p, n, gave)

VisitRoot(p) ==
    /\ pc[p] = "root" /\ Visit(p, next[p], {})
    /\ tlock' = NULL
    /\ UNCHANGED <<root, calls, is_left, destroyed>>

VisitChild(p) ==
    /\ pc[p] = "step" /\ Visit(p, next[p], {cur[p]})
    /\ UNCHANGED <<root, tlock, calls, is_left, destroyed>>

-----------------------------------------------------------------------------
(* bst_delete: thread p has just locked node n.  It also holds up, the node  *)
(* whose left (l) or right link leads to n, or the tree lock when up = {}.   *)

Unlink(p, n, up, l) ==
    /\ key[n] = op[p].key /\ ~TwoChildren(n)
    /\ root' = IF up = {} THEN OnlyChild(n) ELSE root
    /\ left' = [m \in Nodes |-> IF m \in up /\ l THEN OnlyChild(n) ELSE left[m]]
    /\ right' = [m \in Nodes |-> IF m \in up /\ ~l THEN OnlyChild(n) ELSE right[m]]
    /\ Returns(p, "0")
    /\ Locks(p, {}, up \cup {n}) /\ At(p, "free")
    /\ Points(p, NULL, NULL, n, NULL) /\ Side(p, FALSE)
    /\ UNCHANGED <<key, value>>

\* delete_two_children up to its first NODE_LOCK.
SeekSuccessor(p, n, up) ==
    /\ key[n] = op[p].key /\ TwoChildren(n)
    /\ Points(p, n, n, n, right[n]) /\ Side(p, FALSE)
    /\ Locks(p, {n}, up) /\ At(p, "succ")
    /\ UNCHANGED <<root, fields, op, res>>

DeleteFails(p, n, up) ==
    /\ key[n] # op[p].key /\ Child(n, op[p].key) = NULL
    /\ Returns(p, "-1")
    /\ Locks(p, {}, up \cup {n}) /\ At(p, "idle") /\ Forgets(p) /\ Side(p, FALSE)
    /\ UNCHANGED <<root, fields>>

DeleteDescends(p, n, up) ==
    /\ key[n] # op[p].key /\ Child(n, op[p].key) # NULL
    /\ Points(p, NULL, n, NULL, Child(n, op[p].key)) /\ Side(p, op[p].key < key[n])
    /\ Locks(p, {n}, up) /\ At(p, "child")
    /\ UNCHANGED <<root, fields, op, res>>

DeleteAt(p, n, up, l) ==
    /\ op[p].type = "delete" /\ lock[n] = NULL
    /\ Unlink(p, n, up, l) \/ SeekSuccessor(p, n, up) \/ DeleteFails(p, n, up)
         \/ DeleteDescends(p, n, up)
    /\ UNCHANGED <<alloc, calls, destroyed>>

DeleteRoot(p) ==
    /\ pc[p] = "root" /\ DeleteAt(p, next[p], {}, FALSE)
    /\ tlock' = NULL

DeleteChild(p) ==
    /\ pc[p] = "child" /\ DeleteAt(p, next[p], {prev[p]}, is_left[p])
    /\ UNCHANGED tlock

-----------------------------------------------------------------------------
(* delete_two_children: p holds cur, the node to overwrite, and the last two *)
(* nodes of the path to the successor (prev and succ, both cur at first),    *)
(* and waits for next.  A node of the path is released when it is no longer  *)
(* succ's parent, cur never.                                                 *)

SuccessorStep(p) ==
    /\ pc[p] = "succ" /\ lock[next[p]] = NULL /\ left[next[p]] # NULL
    /\ Points(p, cur[p], succ[p], next[p], left[next[p]])
    /\ Locks(p, {next[p]}, {prev[p]} \ {cur[p]})
    /\ UNCHANGED <<root, tlock, fields, alloc, pc, op, res, calls, is_left, destroyed>>

\* next is the successor: move its key and value to cur and put x in its place.
ReplaceSuccessor(p, x) ==
    /\ pc[p] = "succ" /\ lock[next[p]] = NULL /\ left[next[p]] = NULL
    /\ key' = [key EXCEPT ![cur[p]] = key[next[p]]]
    /\ value' = [value EXCEPT ![cur[p]] = value[next[p]]]
    /\ IF succ[p] = cur[p]
         THEN right' = [right EXCEPT ![succ[p]] = x] /\ UNCHANGED left
         ELSE left' = [left EXCEPT ![succ[p]] = x] /\ UNCHANGED right
    /\ Returns(p, "0")
    /\ Locks(p, {}, {prev[p], succ[p], next[p]} \ {cur[p]}) /\ At(p, "free")
    /\ Points(p, cur[p], NULL, next[p], NULL)
    /\ UNCHANGED <<root, tlock, alloc, calls, is_left, destroyed>>

\* Mutants: the successor's right subtree is lost; it is not unlinked.
SuccessorTakeDropsRight(p) == ReplaceSuccessor(p, NULL)
SuccessorTakeKeeps(p) == ReplaceSuccessor(p, next[p])

SuccessorTake(p) == ReplaceSuccessor(p, right[next[p]])

\* bst_node_free of the unlinked node, then the lock of the overwritten one.
FreeNode(p) ==
    /\ pc[p] = "free"
    /\ alloc' = alloc \ {succ[p]}
    /\ Locks(p, {}, {cur[p]} \ {NULL})
    /\ At(p, "idle") /\ Forgets(p)
    /\ UNCHANGED <<root, tlock, fields, op, res, calls, is_left, destroyed>>

-----------------------------------------------------------------------------
\* The nodes that the links l and r lead to from the nodes in S.
Closure(l, r, S) ==
    LET within[i \in 0..Cardinality(Nodes)] ==
          IF i = 0 THEN S \ {NULL}
          ELSE (within[i - 1] \cup UNION {{l[n], r[n]} : n \in within[i - 1]}) \ {NULL}
    IN  within[Cardinality(Nodes)]

Reach(S) == Closure(left, right, S)
InTree == Reach({root})

\* bst_destroy, called when every thread has joined.
Destroy ==
    /\ \A p \in Threads : pc[p] = "idle"
    /\ ~destroyed
    /\ alloc' = alloc \ InTree
    /\ destroyed' = TRUE
    /\ UNCHANGED <<root, tlock, fields, lock, pc, op, res, calls, ptrs, is_left>>

\* No thread has called an operation yet.
Quiet ==
    /\ tlock = NULL /\ lock = [n \in Nodes |-> NULL]
    /\ pc = [p \in Threads |-> "idle"] /\ calls = [p \in Threads |-> 0]
    /\ op = [p \in Threads |-> NULL] /\ res = op
    /\ cur = op /\ prev = op /\ succ = op /\ next = op
    /\ is_left = [p \in Threads |-> FALSE]
    /\ destroyed = FALSE

\* bst_init; the contents of memory malloc has not returned do not matter.
Init ==
    /\ root = NULL /\ alloc = {}
    /\ key = [n \in Nodes |-> CHOOSE k \in Keys : TRUE]
    /\ value = [n \in Nodes |-> CHOOSE v \in Values : TRUE]
    /\ left = [n \in Nodes |-> NULL] /\ right = left
    /\ Quiet

Step(p) == \/ EmptyTree(p) \/ LockTree(p) \/ VisitRoot(p) \/ VisitChild(p)
           \/ DeleteRoot(p) \/ DeleteChild(p)
           \/ SuccessorStep(p) \/ SuccessorTake(p) \/ FreeNode(p)

Terminated == destroyed /\ UNCHANGED vars

Next == (\E p \in Threads : CallOp(p) \/ Step(p)) \/ Destroy \/ Terminated

Spec == Init /\ [][Next]_vars

\* A thread that can go on does: nothing else is asked of the scheduler and
\* the mutexes.
Fairness == \A p \in Threads : WF_vars(Step(p))

-----------------------------------------------------------------------------
(* Properties *)

\* The nodes thread p still means to read, write, lock or free.
Uses(p) == {cur[p], prev[p], succ[p], next[p]} \ {NULL}

\* The nodes whose lock thread p holds, by its place in the code.
Holds(p) == CASE pc[p] = "step"  -> {cur[p]}
              [] pc[p] = "child" -> {prev[p]}
              [] pc[p] = "succ"  -> {cur[p], prev[p], succ[p]}
              [] pc[p] = "free"  -> {cur[p]} \ {NULL}
              [] OTHER           -> {}

\* The nodes of a tree that has not been destroyed.
Linked == IF destroyed THEN {} ELSE InTree

\* Every variable keeps its type.
TypeOK ==
    /\ root \in Nodes \cup {NULL} /\ tlock \in Threads \cup {NULL}
    /\ key \in [Nodes -> Keys] /\ value \in [Nodes -> Values]
    /\ left \in [Nodes -> Nodes \cup {NULL}] /\ right \in [Nodes -> Nodes \cup {NULL}]
    /\ lock \in [Nodes -> Threads \cup {NULL}] /\ alloc \subseteq Nodes
    /\ pc \in [Threads -> {"idle", "tree", "root", "step", "child", "succ", "free"}]
    /\ op \in [Threads -> Ops \cup {NULL}]
    /\ res \in [Threads -> {"0", "-1", "no memory", NULL} \cup Values]
    /\ calls \in [Threads -> 0..MaxOps]
    /\ {cur, prev, succ, next} \subseteq [Threads -> Nodes \cup {NULL}]
    /\ is_left \in [Threads -> BOOLEAN] /\ destroyed \in BOOLEAN

\* The linked nodes form a search tree at every step, though several threads
\* insert, unlink and overwrite at once: the keys left of a node are smaller,
\* those right of it larger, and no node is linked twice.
SearchTree ==
    \A n \in InTree :
        /\ \A m \in Reach({left[n]}) : key[m] < key[n]
        /\ \A m \in Reach({right[n]}) : key[n] < key[m]
        /\ Reach({left[n]}) \cap Reach({right[n]}) = {}

\* No thread holds on to a node that has been freed or that another thread is
\* about to free; in particular nobody waits for a mutex that gets destroyed.
NoUseAfterFree ==
    /\ Linked \subseteq alloc
    /\ \A p \in Threads : Uses(p) \subseteq alloc
    /\ \A p, q \in Threads : pc[p] = "free" /\ p # q => succ[p] \notin Uses(q)

\* Nodes are neither leaked nor freed twice: what is allocated is in the tree
\* or about to be freed by the one thread that unlinked it.
NoLeak ==
    LET doomed == {succ[p] : p \in {q \in Threads : pc[q] = "free"}}
    IN  /\ alloc = Linked \cup doomed
        /\ Linked \cap doomed = {}
        /\ \A p, q \in Threads : pc[p] = "free" /\ pc[q] = "free" /\ p # q => succ[p] # succ[q]

\* Every path out of an operation releases exactly what it locked, and two
\* threads never hold the same lock.
LockDiscipline ==
    /\ \A p \in Threads : {n \in Nodes : lock[n] = p} = Holds(p)
    /\ \A p \in Threads : tlock = p <=> pc[p] = "root"

\* No mix of early returns, hand-over-hand steps and frees in several threads
\* uses or waits for a freed node, loses one, or keeps a lock.
NodesSafe == NoUseAfterFree /\ NoLeak /\ LockDiscipline

Contents == [k \in Keys |->
    IF \E n \in InTree : key[n] = k
      THEN value[CHOOSE n \in InTree : key[n] = k] ELSE NULL]

Linear == INSTANCE Dictionary WITH dict <- Contents, pending <- op, result <- res

\* Linearizability: every operation takes effect, with the result it returns,
\* at one instant between its call and its return.
Linearizable == Linear!DSpec

\* Every operation returns: lock coupling is top-down, nobody waits for ever.
OpsReturn == \A p \in Threads : (pc[p] # "idle") ~> (pc[p] = "idle")
=============================================================================
