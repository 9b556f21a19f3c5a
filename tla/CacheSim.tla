------------------------------ MODULE CacheSim ------------------------------
(* The cache simulator (csim.c): S sets of E lines, with a counter per line  *)
(* that orders its uses, replaying the lines of a trace.                     *)
EXTENDS Integers, Sequences, FiniteSets, FiniteSetsExt

CONSTANTS ArgS, ArgE, ArgB,   \* values of -s, -E and -b, 0 when absent
          Addrs,              \* addresses in a trace
          MaxTrace            \* bound: lines of a trace

\* What the code assumes of its parameters.
CsimAssumption == /\ ArgS \subseteq Nat /\ ArgE \subseteq Nat /\ ArgB \subseteq Nat
                         /\ Addrs \subseteq Nat /\ MaxTrace \in Nat

VARIABLES
    s, E, b,          \* globals set by main
    pc,               \* "args", "replay" or "exited"
    cache,            \* cache[i][j]: valid, tag, counter
    global_counter,
    count,            \* hit_cnt, miss_cnt, evict_cnt
    addr,             \* of replay_trace: kept from line to line
    trace             \* the accesses made, oldest first (for the properties)

vars == <<s, E, b, pc, cache, global_counter, count, addr, trace>>

\* 1 << n
Pow2(n) == LET shl[i \in 0..n] == IF i = 0 THEN 1 ELSE 2 * shl[i - 1] IN shl[n]

\* init_cache
EmptySet == [j \in 0..E - 1 |-> [valid |-> FALSE, tag |-> 0, counter |-> 0]]
init_cache == [i \in 0..Pow2(s) - 1 |-> EmptySet]

SetIndex(a) == (a \div Pow2(b)) % Pow2(s)
Tag(a) == a \div Pow2(s + b)

\* The line with the smallest counter; on a hit or a free line, that line.
Hits(c, a) == {j \in DOMAIN c : c[j].valid /\ c[j].tag = Tag(a)}
Invalid(c) == {j \in DOMAIN c : ~c[j].valid}
\* Mutant: the first line is evicted.
First(c) == 0
lru_index(c) == Min({j \in DOMAIN c : \A k \in DOMAIN c : c[j].counter <= c[k].counter})

\* Mutant: a hit does not renew the counter.
HitIdle(x, j, a, n) == x
Touched(x, j, a, n) == [x EXCEPT !.cache[SetIndex(a)][j].counter = n]
Stored(x, j, a, n) == [x EXCEPT !.cache[SetIndex(a)][j] = [valid |-> TRUE, tag |-> Tag(a), counter |-> n]]

\* One access; x holds the cache, global_counter and the counts.
access_data(x, a) ==
    LET c == x.cache[SetIndex(a)]
        n == x.clock + 1
        y == [x EXCEPT !.clock = n, !.trace = Append(@, a)] IN
    IF Hits(c, a) # {} THEN Touched([y EXCEPT !.count.hit = @ + 1], Min(Hits(c, a)), a, n)
    ELSE IF Invalid(c) # {} THEN Stored([y EXCEPT !.count.miss = @ + 1], Min(Invalid(c)), a, n)
    ELSE Stored([y EXCEPT !.count.miss = @ + 1, !.count.evict = @ + 1], lru_index(c), a, n)

-----------------------------------------------------------------------------
Init == /\ s \in ArgS /\ E \in ArgE /\ b \in ArgB /\ pc = "args"
        /\ cache = <<>> /\ global_counter = 0 /\ addr = 0 /\ trace = <<>>
        /\ count = [hit |-> 0, miss |-> 0, evict |-> 0]

\* main: the arguments are checked, then the cache is made.
main == /\ pc = "args"
        /\ IF s = 0 \/ E = 0 \/ b = 0 THEN pc' = "exited" /\ UNCHANGED cache
           ELSE pc' = "replay" /\ cache' = init_cache
        /\ UNCHANGED <<s, E, b, global_counter, count, addr, trace>>

\* One line of the trace.  sscanf leaves addr alone when the line has none; an
\* instruction load, or a line that is anything else, is passed over.
replay_trace(op, a, has) ==
    LET at == IF has THEN a ELSE addr
        x == [cache |-> cache, clock |-> global_counter, count |-> count, trace |-> trace]
        once == access_data(x, at)
        y == CASE op \in {"L", "S"} -> once
               [] op = "M" -> access_data(once, at)
               [] op = "I" -> x IN
    /\ pc = "replay" /\ Len(trace) < MaxTrace
    /\ addr' = IF op = "I" THEN addr ELSE at
    /\ cache' = y.cache /\ global_counter' = y.clock /\ count' = y.count /\ trace' = y.trace
    /\ UNCHANGED <<s, E, b, pc>>

\* The end of the trace: free_cache and print_summary.
free_cache == /\ pc = "replay" /\ pc' = "exited" /\ cache' = <<>>
              /\ UNCHANGED <<s, E, b, global_counter, count, addr, trace>>

Next == \/ main \/ free_cache
        \/ \E op \in {"L", "S", "M", "I"}, a \in Addrs, has \in BOOLEAN : replay_trace(op, a, has)
Spec == Init /\ [][Next]_vars

-----------------------------------------------------------------------------
(* Reference: the stack distance of access k in trace t, the number of other *)
(* blocks of its set (its peers) used since the last access to its block.    *)
Block(a) == a \div Pow2(b)
Before(t, k) == {i \in 1..k - 1 : Block(t[i]) = Block(t[k])}
Peers(t, k, i) == {Block(t[l]) : l \in {l \in i..k - 1 : SetIndex(t[l]) = SetIndex(t[k])}}
IsHit(t, k) == Before(t, k) # {} /\ Cardinality(Peers(t, k, Max(Before(t, k)) + 1)) < E
Evicts(t, k) == ~IsHit(t, k) /\ Cardinality(Peers(t, k, 1)) >= E
Counts(t) == [hit |-> Cardinality({k \in DOMAIN t : IsHit(t, k)}),
              miss |-> Cardinality({k \in DOMAIN t : ~IsHit(t, k)}),
              evict |-> Cardinality({k \in DOMAIN t : Evicts(t, k)})]

(* The counts are those of a least-recently-used cache: an access hits       *)
(* exactly when fewer than E other blocks of its set came since the last one *)
(* to its block, and a miss evicts exactly when the set is full              *)
(* (csim.c:170-228).                                                         *)
CountsLRU == count = Counts(trace)
=============================================================================
