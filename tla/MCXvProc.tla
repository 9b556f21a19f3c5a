------------------------------ MODULE MCXvProc ------------------------------
(* XvProc for TLC; its configuration gives the constants. *)
EXTENDS XvProc
=============================================================================
