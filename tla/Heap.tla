-------------------------------- MODULE Heap --------------------------------
(* The heap allocator of memory-allocator/p3Heap.c: blocks with a header     *)
(* word, free blocks with a footer word too, best fit, splitting and         *)
(* immediate coalescing.  mem holds the words of the mapped region; a header *)
(* is its block's size in bytes, a multiple of 8, plus the a-bit and the     *)
(* p-bit.  Payloads belong to the client, who writes what it likes there.    *)
EXTENDS Integers, FiniteSets

CONSTANTS PageSize,      \* a multiple of 8
          RegionArgs,    \* arguments of init_heap
          Requests,      \* arguments of alloc
          BadPtrs,       \* arguments of free_block that alloc never returned
          Garbage,       \* words a client stores
          NULL

\* What the code assumes of its parameters.
HeapAssumption ==
    /\ PageSize \in Nat \ {0, 8} /\ PageSize % 8 = 0
    /\ RegionArgs \subseteq Int /\ Requests \subseteq Int
    /\ BadPtrs \subseteq Int /\ Garbage \subseteq Int
    /\ NULL \notin Int

VARIABLES
    mem, alloc_size,   \* the region, by byte address, and its size
    ret,               \* what the last call returned
    asked,             \* history: live payload address -> size asked for
    data,              \* history: live payload address -> word its client filled it with
    stale              \* history: payload addresses freed and not given out again

vars == <<mem, alloc_size, ret, asked, data, stale>>

heap_start == 4
\* init_heap has succeeded; clients call alloc and free_block after that.
allocated_once == DOMAIN mem # {}
END_MARK == 1

GET_SIZE(s) == s - (s % 4)
IS_ALLOCATED(s) == s % 2 = 1
IS_PREV_ALLOCATED(s) == s % 4 >= 2
P_BIT(b) == IF b THEN 2 ELSE 0
WithP(s, b) == s - P_BIT(IS_PREV_ALLOCATED(s)) + P_BIT(b)

\* m with the word at address a set to v.
Put(m, a, v) == [m EXCEPT ![a] = v]
\* The p-bit of the header at a becomes b, unless it is the end mark.
PutP(m, a, b) == IF m[a] = END_MARK THEN m ELSE Put(m, a, WithP(m[a], b))
\* Header and footer of a free block.
PutFree(m, a, size, p) == Put(Put(m, a, size + P_BIT(p)), a + size - 4, size)

-----------------------------------------------------------------------------
Words(size) == {4 * i : i \in 0..(size \div 4)}

init_heap(n) ==
    LET padded == n + ((PageSize - (n % PageSize)) % PageSize)
        size   == padded - 8
        zero   == [a \in Words(size + 4) |-> 0]
    IN  /\ n \in RegionArgs
        /\ \/ /\ allocated_once \/ n <= 0
              /\ ret' = -1 /\ UNCHANGED <<mem, alloc_size>>
           \/ /\ ~allocated_once /\ n > 0     \* open or mmap fails
              /\ alloc_size' = padded /\ ret' = -1 /\ UNCHANGED mem
           \/ /\ ~allocated_once /\ n > 0
              /\ mem' = PutFree(Put(zero, heap_start + size, END_MARK), heap_start, size, TRUE)
              /\ alloc_size' = size /\ ret' = 0
        /\ UNCHANGED <<asked, data, stale>>

-----------------------------------------------------------------------------
(* alloc *)

Required(size) == LET r == size + 4 IN IF r % 8 = 0 THEN r ELSE r + 8 - (r % 8)

\* The blocks that the walk from heap_start to the end mark (of size 0) meets.
HeapBlocks ==
    LET From[a \in DOMAIN mem] ==
          IF GET_SIZE(mem[a]) = 0 \/ a + GET_SIZE(mem[a]) \notin DOMAIN mem THEN {}
          ELSE {a} \cup From[a + GET_SIZE(mem[a])]
    IN  IF allocated_once THEN From[heap_start] ELSE {}

\* The walk prefers the smaller block and keeps the first of equal ones.
\* Mutant: it takes the last of equal ones.
PrefersLast(b, c) == GET_SIZE(mem[b]) < GET_SIZE(mem[c]) \/ (GET_SIZE(mem[b]) = GET_SIZE(mem[c]) /\ b >= c)
Prefers(b, c) == GET_SIZE(mem[b]) < GET_SIZE(mem[c]) \/ (GET_SIZE(mem[b]) = GET_SIZE(mem[c]) /\ b <= c)

Fits(need) == {b \in HeapBlocks : ~IS_ALLOCATED(mem[b]) /\ GET_SIZE(mem[b]) >= need}
BestFit(need) == CHOOSE b \in Fits(need) : \A c \in Fits(need) : Prefers(b, c)

\* The words when need bytes of block b are given away, the rest being a new
\* free block, and when all of it is.
SplitBlock(b, size, need) ==
    PutP(PutFree(Put(mem, b, need + P_BIT(IS_PREV_ALLOCATED(mem[b])) + 1), b + need, size - need, TRUE),
         b + size, FALSE)
WholeBlock(b) == Put(mem, b, mem[b] + 1)

\* Mutant: the block after one that is used up keeps its p-bit.
PlaceKeepsP(b, size, need) ==
    IF size - need >= 8 THEN SplitBlock(b, size, need) ELSE WholeBlock(b)

Place(b, size, need) ==
    IF size - need >= 8 THEN SplitBlock(b, size, need) ELSE PutP(WholeBlock(b), b + size, TRUE)

alloc(size) ==
    LET need == Required(size)
        b    == BestFit(need)
    IN  /\ size \in Requests /\ allocated_once
        /\ IF size < 1 \/ Fits(need) = {}
           THEN ret' = NULL /\ UNCHANGED <<mem, asked, data, stale>>
           ELSE /\ mem' = Place(b, GET_SIZE(mem[b]), need)
                /\ ret' = b + 4
                /\ asked' = [p \in DOMAIN asked \cup {b + 4} |-> IF p = b + 4 THEN size ELSE asked[p]]
                /\ stale' = {p \in stale : p - 4 \notin b..b + GET_SIZE(mem'[b]) - 1}
                /\ UNCHANGED data
        /\ UNCHANGED alloc_size

-----------------------------------------------------------------------------
(* free_block *)

InHeap(ptr) == /\ ptr # 0 /\ ptr % 8 = 0
               /\ ptr - 4 >= heap_start /\ ptr - 4 < heap_start + alloc_size

\* Block b is freed and merged with a free block before it, found by its
\* footer, and with a free one after it.
Merged(b) ==
    LET size  == GET_SIZE(mem[b])
        p     == IS_PREV_ALLOCATED(mem[b])
        m     == PutFree(mem, b, size, p)
        first == IF p THEN b ELSE b - GET_SIZE(m[b - 4])
        next  == b + size
        whole == size + (b - first)
                   + (IF m[next] # END_MARK /\ ~IS_ALLOCATED(m[next]) THEN GET_SIZE(m[next]) ELSE 0)
    IN  [end |-> first + whole, words |-> PutFree(m, first, whole, IS_PREV_ALLOCATED(m[first]))]

\* Mutant: the block after the free one is not told.
FreedKeepsP(b) == Merged(b).words

Freed(b) == PutP(Merged(b).words, Merged(b).end, FALSE)

free_block(ptr) ==
    /\ allocated_once
    /\ ptr \in DOMAIN asked \cup stale \cup BadPtrs
    /\ IF ~InHeap(ptr) \/ ~IS_ALLOCATED(mem[ptr - 4])
       THEN ret' = -1 /\ UNCHANGED <<mem, asked, data, stale>>
       ELSE /\ mem' = Freed(ptr - 4)
            /\ ret' = 0
            /\ asked' = [p \in DOMAIN asked \ {ptr} |-> asked[p]]
            /\ data' = [p \in DOMAIN data \ {ptr} |-> data[p]]
            /\ stale' = stale \cup {ptr}
    /\ UNCHANGED alloc_size

-----------------------------------------------------------------------------
Payload(p) == {a \in DOMAIN mem : p <= a /\ a < p + asked[p]}

\* A client fills the payload it asked for.
Fill(p, g) ==
    /\ p \notin DOMAIN data
    /\ mem' = [a \in DOMAIN mem |-> IF a \in Payload(p) THEN g ELSE mem[a]]
    /\ data' = [q \in DOMAIN data \cup {p} |-> IF q = p THEN g ELSE data[q]]
    /\ UNCHANGED <<alloc_size, ret, asked, stale>>

Init == /\ mem = <<>> /\ alloc_size = 0 /\ ret = NULL
        /\ asked = <<>> /\ data = <<>> /\ stale = {}

Next == \/ \E n \in RegionArgs : init_heap(n)
        \/ \E n \in Requests : alloc(n)
        \/ \E p \in DOMAIN asked \cup stale \cup BadPtrs : free_block(p)
        \/ \E p \in DOMAIN asked, g \in Garbage : Fill(p, g)

Spec == Init /\ [][Next]_vars

-----------------------------------------------------------------------------
(* Properties *)

Follows(b) == b + GET_SIZE(mem[b])

\* After any sequence of calls the headers describe the heap: blocks of at
\* least 8 bytes lead from heap_start to the end mark, each p-bit tells whether
\* the block before is allocated, each free block has its footer and is next
\* to no other free block.
Wellformed == allocated_once =>
    /\ mem[heap_start + alloc_size] = END_MARK
    /\ heap_start + alloc_size \in {Follows(b) : b \in HeapBlocks}
    /\ IS_PREV_ALLOCATED(mem[heap_start])
    /\ \A b \in HeapBlocks :
          LET n == Follows(b) IN
          /\ GET_SIZE(mem[b]) >= 8 /\ GET_SIZE(mem[b]) % 8 = 0
          /\ ~IS_ALLOCATED(mem[b]) => /\ mem[n - 4] = GET_SIZE(mem[b])
                                      /\ mem[n] = END_MARK \/ IS_ALLOCATED(mem[n])
          /\ mem[n] # END_MARK => IS_PREV_ALLOCATED(mem[n]) = IS_ALLOCATED(mem[b])

\* What a client has stored in a live block is still there: no call writes a
\* header or a footer into a payload.  A live block can be given back, a block
\* whose place nobody has got since it was freed cannot.
PayloadsIntact ==
    /\ \A p \in DOMAIN data : \A a \in Payload(p) : mem[a] = data[p]
    /\ \A p \in DOMAIN asked : p - 4 \in HeapBlocks /\ InHeap(p) /\ IS_ALLOCATED(mem[p - 4])
    /\ \A p \in stale : ~IS_ALLOCATED(mem[p - 4])

Promise == INSTANCE Regions WITH
    Start  <- heap_start,
    limit  <- heap_start + (IF allocated_once THEN alloc_size ELSE 0),
    blocks <- [p \in {b + 4 : b \in {c \in HeapBlocks : IS_ALLOCATED(mem[c])}}
                 |-> GET_SIZE(mem[p - 4])]

\* The allocator serves requests as Regions does: best fit, no request refused
\* that fits a gap, freed space fit for use at once, a second free refused.
ImplementsRegions == Promise!Spec
=============================================================================
