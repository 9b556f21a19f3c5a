------------------------------ MODULE MCXvLog -------------------------------
(* XvLog for TLC: processes and home blocks are interchangeable. *)
EXTENDS XvLog

SymAll == Permutations(Procs) \cup Permutations(Home)
=============================================================================
