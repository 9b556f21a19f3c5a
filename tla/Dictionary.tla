----------------------------- MODULE Dictionary -----------------------------
(* What bst.c promises: a dictionary whose operations take effect at one     *)
(* instant between their call and their return.                              *)
EXTENDS Integers

CONSTANTS Threads, Keys, Values, Ops, NULL

VARIABLES dict,     \* the value of each key, NULL when the key is absent
          pending,  \* the operation a thread has called, NULL when it has its result
          result    \* the result of a thread's last operation

dvars == <<dict, pending, result>>

DInit == /\ dict \in [Keys -> Values \cup {NULL}]
         /\ pending = [p \in Threads |-> NULL]
         /\ result = [p \in Threads |-> NULL]

Call(p, o) == /\ pending[p] = NULL
              /\ pending' = [pending EXCEPT ![p] = o]
              /\ UNCHANGED <<dict, result>>

\* The operation of p takes effect with result r, the dictionary becoming d.
Effect(p, r, d) == /\ pending[p] # NULL
                   /\ pending' = [pending EXCEPT ![p] = NULL]
                   /\ result' = [result EXCEPT ![p] = r]
                   /\ dict' = d

Insert(p, o) == /\ o.type = "insert"
                /\ \/ /\ dict[o.key] = NULL
                      /\ Effect(p, "0", [dict EXCEPT ![o.key] = o.value])
                   \/ dict[o.key] # NULL /\ Effect(p, "-1", dict)
                   \/ dict[o.key] = NULL /\ Effect(p, "no memory", dict)

Lookup(p, o) == /\ o.type = "lookup"
                /\ Effect(p, IF dict[o.key] = NULL THEN "-1" ELSE dict[o.key], dict)

Delete(p, o) == /\ o.type = "delete"
                /\ \/ /\ dict[o.key] # NULL
                      /\ Effect(p, "0", [dict EXCEPT ![o.key] = NULL])
                   \/ dict[o.key] = NULL /\ Effect(p, "-1", dict)

DNext == \E p \in Threads :
            \/ \E o \in Ops : Call(p, o)
            \/ /\ pending[p] # NULL
               /\ Insert(p, pending[p]) \/ Lookup(p, pending[p]) \/ Delete(p, pending[p])

DSpec == DInit /\ [][DNext]_dvars
=============================================================================
