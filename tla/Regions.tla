------------------------------ MODULE Regions -------------------------------
(* What the heap allocator promises: live blocks are disjoint parts of the   *)
(* heap; a request is placed at the lower end of the smallest gap it fits    *)
(* (the lowest of several), all free space between two live blocks being one *)
(* gap, and is refused only if it fits none.                                 *)
EXTENDS Integers, FiniteSets

CONSTANTS Requests, Start, NULL

VARIABLES limit,   \* end of the heap, Start before it is initialized
          blocks,  \* the live blocks: payload address -> block size
          ret      \* what the last call has returned

rvars == <<limit, blocks, ret>>

\* Header and payload, in double words.
Need(n) == ((n + 4 + 7) \div 8) * 8

Begins(p) == p - 4
Ends(p) == p - 4 + blocks[p]

Init == limit = Start /\ blocks = <<>> /\ ret = NULL

\* A gap begins at Start or at the end of a block and ends at the next block
\* or at the limit.
GapEnd(a) == CHOOSE e \in {limit} \cup {Begins(p) : p \in DOMAIN blocks} :
    /\ e >= a
    /\ \A p \in DOMAIN blocks : Begins(p) >= a => e <= Begins(p)

Gaps == {<<a, GapEnd(a)>> : a \in {Start} \cup {Ends(p) : p \in DOMAIN blocks}}
Length(g) == g[2] - g[1]
Fitting(n) == {g \in Gaps : Length(g) >= Need(n)}
Better(g, h) == Length(g) < Length(h) \/ (Length(g) = Length(h) /\ g[1] <= h[1])

Open == limit = Start /\ limit' > Start /\ ret' = 0 /\ UNCHANGED blocks

Take(n) == /\ n >= 1 /\ Fitting(n) # {}
           /\ LET g == CHOOSE g \in Fitting(n) : \A h \in Fitting(n) : Better(g, h)
                  p == g[1] + 4
              IN  /\ blocks' = [q \in DOMAIN blocks \cup {p} |-> IF q = p THEN Need(n) ELSE blocks[q]]
                  /\ ret' = p
           /\ UNCHANGED limit

Refuse(n) == /\ n < 1 \/ Fitting(n) = {}
             /\ ret' = NULL
             /\ UNCHANGED <<limit, blocks>>

Give(p) == /\ p \in DOMAIN blocks
           /\ blocks' = [q \in DOMAIN blocks \ {p} |-> blocks[q]]
           /\ ret' = 0
           /\ UNCHANGED limit

Fail == ret' = -1 /\ UNCHANGED <<limit, blocks>>

Next == \/ Open
        \/ \E n \in Requests : Take(n) \/ Refuse(n)
        \/ \E p \in DOMAIN blocks : Give(p)
        \/ Fail

Spec == Init /\ [][Next]_rvars
=============================================================================
