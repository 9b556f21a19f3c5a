------------------------------- MODULE MCBst --------------------------------
(* Bst for TLC: two threads on trees of up to four keys, or three threads on *)
(* trees of three.  The trees are those that one thread can have built by    *)
(* inserting keys in some order before the others start: the node of key k   *)
(* is then node k.                                                           *)
EXTENDS Bst, SequencesExt, TLC

CONSTANTS Pair,                      \* the threads that call operations in the first case
          CrowdNodes, CrowdKeys, CrowdValues,
          Orders, CrowdOrders        \* keys in the order of their insertion

VARIABLE part    \* "pair" or "crowd"

\* Links of the tree after inserting k into one with links t.
InsertSeq(t, k) ==
    LET path[i \in 0..Cardinality(Keys)] ==
          IF i = 0 THEN t.root
          ELSE LET n == path[i - 1]
                   c == IF k < n THEN t.left[n] ELSE t.right[n]
               IN  IF c = NULL THEN n ELSE c
        leaf == path[Cardinality(Keys)]
    IN  IF t.root = NULL THEN [t EXCEPT !.root = k]
        ELSE IF k < leaf THEN [t EXCEPT !.left[leaf] = k]
        ELSE [t EXCEPT !.right[leaf] = k]

Empty == [root |-> NULL, left |-> [n \in Nodes |-> NULL], right |-> [n \in Nodes |-> NULL]]

Preloaded(orders) == {FoldLeft(InsertSeq, Empty, s) : s \in orders}

\* The tree t, whose keys are its nodes; the value of all is v.
Holding(t, v) ==
    /\ root = t.root /\ left = t.left /\ right = t.right
    /\ alloc = {n \in Nodes : n = root \/ \E m \in Nodes : n \in {left[m], right[m]}}
    /\ key = [n \in Nodes |-> IF n \in alloc THEN n ELSE CHOOSE k \in Keys : TRUE]
    /\ value = [n \in Nodes |-> v]

AllOrders(keys) == SetToSeqs(keys)
MCOrders == {<<>>, <<2, 1, 4>>} \cup AllOrders({1, 2, 3, 4})
MCCrowdOrders == {<<2, 1, 3>>, <<1, 3, 2>>}

MCInit ==
    /\ Quiet /\ part \in {"pair", "crowd"}
    /\ \E t \in Preloaded(IF part = "pair" THEN Orders ELSE CrowdOrders), v \in CrowdValues : Holding(t, v)

\* What the case allows: who calls, with which keys and values, and how much
\* memory there is.
Allowed ==
    /\ part = "pair" => \A p \in Threads \ Pair : op'[p] = NULL
    /\ part = "crowd" => /\ \A p \in Threads : op'[p] # NULL =>
                               /\ op'[p].key \in CrowdKeys
                               /\ op'[p].type = "insert" => op'[p].value \in CrowdValues
                         /\ alloc' \subseteq CrowdNodes
    /\ UNCHANGED part

MCNext == Next /\ Allowed

mcvars == <<vars, part>>

MCSpec == MCInit /\ [][MCNext]_mcvars /\ \A p \in Threads : WF_mcvars(Step(p) /\ Allowed)
=============================================================================
