----------------------------- MODULE BlockStore -----------------------------
(* What the buffer cache promises to the file system: a block is held by one *)
(* process at a time, and its holder sees what was last stored in it.        *)

CONSTANTS Procs, Blocks, Values, None

VARIABLES holder,   \* who has the block between bread and brelse
          value     \* what the holder of the block sees

bvars == <<holder, value>>

Init == holder = [k \in Blocks |-> None] /\ value \in [Blocks -> Values]

bread(p, k) == /\ holder[k] = None
               /\ holder' = [holder EXCEPT ![k] = p]
               /\ UNCHANGED value

store(p, k, v) == /\ holder[k] = p
                  /\ value' = [value EXCEPT ![k] = v]
                  /\ UNCHANGED holder

brelse(p, k) == /\ holder[k] = p
                /\ holder' = [holder EXCEPT ![k] = None]
                /\ UNCHANGED value

Next == \E p \in Procs, k \in Blocks :
            \/ bread(p, k) \/ brelse(p, k)
            \/ \E v \in Values : store(p, k, v)

Spec == Init /\ [][Next]_bvars
=============================================================================
