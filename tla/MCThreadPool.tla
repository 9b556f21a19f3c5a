---------------------------- MODULE MCThreadPool ----------------------------
(* ThreadPool for TLC; its configuration gives the constants. *)
EXTENDS ThreadPool
=============================================================================
