----------------------------- MODULE AtomicDisk -----------------------------
(* What the log promises: file system operations change the current contents *)
(* of the blocks; a commit, which happens only when no operation is half     *)
(* done, makes all of the current contents stable at once; a crash takes the *)
(* current contents back to the stable ones.                                 *)
EXTENDS FiniteSets

CONSTANTS Procs, Home, Vals, Zero

VARIABLES current, stable,   \* contents of every block
          active             \* the operations in progress

dvars == <<current, stable, active>>

Init == /\ current = [b \in Home |-> Zero] /\ stable = current
        /\ active = {}

Begin(p) == /\ active' = active \cup {p}
            /\ UNCHANGED <<current, stable>>

Write(p, b, v) == /\ p \in active
                  /\ current' = [current EXCEPT ![b] = v]
                  /\ UNCHANGED <<stable, active>>

\* The last operation of a group ends in two steps, its commit is the second.
End(p) == /\ active' = active \ {p}
          /\ UNCHANGED <<current, stable>>

Commit == /\ active = {}
          /\ stable' = current
          /\ UNCHANGED <<current, active>>

Crash == /\ current' = stable
         /\ active' = {}
         /\ UNCHANGED stable

Next == \/ \E p \in Procs : \/ Begin(p) \/ End(p)
                            \/ \E b \in Home, v \in Vals : Write(p, b, v)
        \/ Commit \/ Crash

Spec == Init /\ [][Next]_dvars
=============================================================================
