------------------------------- MODULE MCWmap -------------------------------
(* Wmap for TLC.  Two kinds of programs: a family that shares and copies     *)
(* frames and follows the rules, and two processes that make every call on   *)
(* mappings that are no whole number of pages.  Frames and children are      *)
(* interchangeable.                                                          *)
EXTENDS Wmap

FamilyRules == {"touched", "child_keeps", "parent_last", "partial_private", "in_range", "parent_keeps",
                "one_generation", "one_map"}

Family == [addrs |-> {6, 8, 10}, lengths |-> {2, 6},
           flags |-> {{"SHARED", "FIXED"}, {"PRIVATE", "ANONYMOUS", "FIXED"}},
           calls |-> {"wmap", "wunmap", "wpunmap", "fork", "exit", "open", "store"},
           rules |-> FamilyRules, mayfail |-> FALSE]

Anyone == [addrs |-> {6, 7, 8, 10}, lengths |-> {1, 2, 6},
           flags |-> {{"PRIVATE", "ANONYMOUS"}, {"SHARED", "FIXED"}},
           calls |-> {"wmap", "wmap_invalid", "wunmap", "wpunmap", "fork", "exit", "exec", "open"},
           rules |-> {"proper", "in_range"}, mayfail |-> TRUE]

\* Three generations; nobody unmaps.
Grandparents == [addrs |-> {6, 8}, lengths |-> {2, 4}, flags |-> {{"SHARED", "ANONYMOUS", "FIXED"}},
                 calls |-> {"wmap", "fork", "exit"},
                 rules |-> {"touched", "child_keeps", "parent_last", "partial_private", "in_range"},
                 mayfail |-> FALSE]

MCClients == {Family, Anyone}
MCGrandparents == {Grandparents}

SymAll == Permutations(Frames) \cup Permutations(Procs \ {First})

\* Bounds: a family maps one page of a file; anyone is two processes, of which
\* one page is loaded at a time.
Used == {p \in Procs : st[p] # "UNUSED" \/ parent[p] # NULL \/ \E fd \in Fds : ofile[p][fd] # NULL}
Small ==
    /\ client = Family => \A p \in Procs : \A i \in DOMAIN maps[p] :
                             FileBacked(maps[p][i]) => maps[p][i].length <= PGSIZE
    /\ client = Anyone => Cardinality(Used) <= 2 /\ Cardinality(Frames \ free) <= 1

MCNext == Next /\ Small'

MCSpec == Init /\ [][MCNext]_vars
=============================================================================
