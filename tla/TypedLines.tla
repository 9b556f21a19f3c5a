----------------------------- MODULE TypedLines -----------------------------
(* What the console promises its readers: keys edit a line; a line that is   *)
(* entered, or that fills the store, is read once and in order, and ^D ends  *)
(* a read without being part of what is read.                                *)
EXTENDS Integers, Sequences

CONSTANTS Keys, Size

VARIABLES editing, entered   \* the line in the making, and what was entered before

vars == <<editing, entered>>

Enters(k, ed) == k \in {"nl", "D"} \/ Len(ed) + Len(entered) = Size

Key == /\ Len(editing) + Len(entered) < Size
       /\ \E k \in Keys : LET ed == Append(editing, k) IN
              IF Enters(k, ed) THEN entered' = entered \o ed /\ editing' = <<>>
              ELSE editing' = ed /\ UNCHANGED entered
Erase == editing # <<>> /\ editing' = SubSeq(editing, 1, Len(editing) - 1) /\ UNCHANGED entered
Kill == editing' = <<>> /\ UNCHANGED entered
Read == entered # <<>> /\ entered' = Tail(entered) /\ UNCHANGED editing

Init == editing = <<>> /\ entered = <<>>
Next == Key \/ Erase \/ Kill \/ Read
Spec == Init /\ [][Next]_vars
=============================================================================
