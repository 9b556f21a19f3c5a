------------------------------ MODULE UMalloc ------------------------------
(* The user-level allocator of xv6 (umalloc.c): a circular free list in      *)
(* address order, with memory from sbrk.                                     *)
(*                                                                           *)
(* Addresses count headers (8 bytes); base, a static variable, is at 0 and   *)
(* the heap is above it.  hdr maps the addresses of headers to [ptr, size];  *)
(* NULL is -1.                                                               *)
EXTENDS Integers, FiniteSets, FiniteSetsExt

CONSTANTS NALLOC,     \* units that morecore asks for at least (4096)
          Requests,   \* sizes asked for, in units with the header
          HeapEnd,    \* addresses stay below: sbrk fails beyond
          Gaps        \* units that the program itself may take by sbrk

VARIABLES hdr,        \* headers in memory
          freep,
          brk,        \* end of the heap
          used        \* blocks given to the program (for the properties)

vars == <<hdr, freep, brk, used>>

NULL == -1
base == 0

\* Headers h with the header at a replaced.
Put(h, a, ptr, size) == [x \in DOMAIN h \cup {a} |-> IF x = a THEN [ptr |-> ptr, size |-> size] ELSE h[x]]

\* A header inside a block is plain memory again.
Drop(h, a) == [x \in DOMAIN h \ {a} |-> h[x]]

\* The place where free inserts bp: the first p from start on with bp between p
\* and its successor, or at either end of the list.
Between(h, p, bp) == bp > p /\ bp < h[p].ptr
AtEnds(h, p, bp) == p >= h[p].ptr /\ (bp > p \/ bp < h[p].ptr)
RECURSIVE Place(_, _, _)
Place(h, p, bp) == IF Between(h, p, bp) \/ AtEnds(h, p, bp) THEN p ELSE Place(h, h[p].ptr, bp)

\* Mutant: a block is not joined with the one below it.
JoinNever(h, p, bp) == FALSE
JoinsBelow(h, p, bp) == p + h[p].size = bp

\* free: the new headers and freep.
Freed(h, fp, bp) ==
    LET p == Place(h, fp, bp)
        q == h[p].ptr
        \* joined to the upper neighbour
        h1 == IF bp + h[bp].size = q THEN Put(Drop(h, q), bp, h[q].ptr, h[bp].size + h[q].size)
              ELSE Put(h, bp, q, h[bp].size)
        \* joined to the lower neighbour
        h2 == IF JoinsBelow(h1, p, bp) THEN Put(Drop(h1, bp), p, h1[bp].ptr, h1[p].size + h1[bp].size)
              ELSE Put(h1, p, bp, h1[p].size)
    IN  [hdr |-> h2, freep |-> p]

morecore(h, fp, nu) ==
    LET n == IF nu < NALLOC THEN NALLOC ELSE nu
    IN  IF brk + n > HeapEnd THEN [hdr |-> h, freep |-> fp, brk |-> brk, ok |-> FALSE]
        ELSE LET f == Freed(Put(h, brk, NULL, n), fp, brk)
             IN  [hdr |-> f.hdr, freep |-> f.freep, brk |-> brk + n, ok |-> TRUE]

\* The loop of malloc from prevp: the block before the first one that is large
\* enough, or NULL when the loop comes round to freep.
RECURSIVE Scan(_, _, _, _)
Scan(h, fp, prevp, n) ==
    LET p == h[prevp].ptr IN
    IF h[p].size >= n THEN prevp ELSE IF p = fp THEN NULL ELSE Scan(h, fp, p, n)

\* The block after prevp, or its upper end: [hdr, at].
\* Mutant: the tail is given out with the size of the rest.
TakeUnsized(h, prevp, n) ==
    LET p == h[prevp].ptr
        rest == h[p].size - n
    IN  IF rest = 0 THEN [hdr |-> Put(Put(h, prevp, h[p].ptr, h[prevp].size), p, NULL, n), at |-> p]
        ELSE [hdr |-> Put(Put(h, p, h[p].ptr, rest), p + rest, NULL, rest), at |-> p + rest]
Take(h, prevp, n) ==
    LET p == h[prevp].ptr
        rest == h[p].size - n
    IN  IF rest = 0 THEN [hdr |-> Put(Put(h, prevp, h[p].ptr, h[prevp].size), p, NULL, n), at |-> p]
        ELSE [hdr |-> Put(Put(h, p, h[p].ptr, rest), p + rest, NULL, n), at |-> p + rest]

Given(h, prevp, n) == LET t == Take(h, prevp, n)
                      IN  /\ hdr' = t.hdr /\ freep' = prevp
                          /\ used' = used \cup {[at |-> t.at, size |-> n]}

malloc(n) ==
    LET h0 == IF freep = NULL THEN Put(hdr, base, base, 0) ELSE hdr
        f0 == IF freep = NULL THEN base ELSE freep
        found == Scan(h0, f0, f0, n)
        m == morecore(h0, f0, n) IN
    \/ found # NULL /\ Given(h0, found, n) /\ UNCHANGED brk
    \* after morecore the loop goes on from freep and finds the new block
    \/ /\ found = NULL /\ m.ok /\ brk' = m.brk
       /\ Given(m.hdr, Scan(m.hdr, m.freep, m.freep, n), n)
    \/ found = NULL /\ ~m.ok /\ hdr' = h0 /\ freep' = f0 /\ UNCHANGED <<brk, used>>

free(b) == /\ b \in used
           /\ LET f == Freed(hdr, freep, b.at) IN hdr' = f.hdr /\ freep' = f.freep
           /\ used' = used \ {b} /\ UNCHANGED brk

\* The program calls sbrk itself.
sbrk(n) == brk + n <= HeapEnd /\ brk' = brk + n /\ UNCHANGED <<hdr, freep, used>>

Init == hdr = [a \in {} |-> 0] /\ freep = NULL /\ brk = 1 /\ used = {}
Next == \/ \E n \in Requests : malloc(n)
        \/ \E b \in used : free(b)
        \/ \E n \in Gaps : sbrk(n)
Spec == Init /\ [][Next]_vars

-----------------------------------------------------------------------------
RECURSIVE ListFrom(_, _)
ListFrom(a, seen) == IF a \in seen THEN seen ELSE ListFrom(hdr[a].ptr, seen \cup {a})
FreeList == IF freep = NULL THEN {} ELSE ListFrom(freep, {})

Units(at, size) == at..at + size - 1
Extents == {<<a, hdr[a].size>> : a \in FreeList \ {base}} \cup {<<b.at, b.size>> : b \in used}

(* The free list is circular, in address order with one wrap, and has base   *)
(* on it; free and used blocks never overlap, no two free blocks touch, and  *)
(* a used block keeps its header's size, so that free gives all of it back   *)
(* (umalloc.c:24-90).                                                        *)
FreeListSound ==
    /\ freep # NULL =>
         /\ base \in FreeList /\ freep \in FreeList
         /\ Cardinality({a \in FreeList : hdr[a].ptr <= a}) = 1
    /\ \A x, y \in Extents : x # y => Units(x[1], x[2]) \cap Units(y[1], y[2]) = {}
    /\ \A x \in Extents : x[1] > base /\ x[1] + x[2] <= brk
    /\ \A b \in used : hdr[b.at].size = b.size
    /\ \A a, c \in FreeList \ {base} : a + hdr[a].size # c
=============================================================================
