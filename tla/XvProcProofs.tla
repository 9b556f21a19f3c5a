---------------------------- MODULE XvProcProofs ----------------------------
(* Theorems about XvProc, for any number of processes and processors, any    *)
(* size of the pipe that divides the range of its counters, and calls of any *)
(* size: no wakeup is lost, the pipe is a FIFO, and processes, references    *)
(* and the pipe's lock have owners.                                          *)
(*                                                                           *)
(* The argument: the parts of the inductive invariant depend on one another  *)
(* (a sleeping reader needs the pipe to exist, hence a reference, hence the  *)
(* count of the references), so they are proved together; lemmas named       *)
(* ...Kept say which variables a part depends on.                            *)
EXTENDS XvProc, FiniteSetTheorems, WellFoundedInduction, TLAPS

-----------------------------------------------------------------------------
(* Arithmetic of counters that wrap around *)

\* Division with a remainder.
LEMMA ModBy ==
    ASSUME NEW x \in Int, NEW m \in Nat \ {0}
    PROVE  /\ x % m \in 0..(m - 1) /\ x \div m \in Int
           /\ x = m * (x \div m) + (x % m)
OBVIOUS

\* The remainder is unique.
LEMMA ModUnique ==
    ASSUME NEW m \in Nat \ {0}, NEW q \in Int, NEW s \in Int,
           NEW r \in 0..(m - 1), NEW t \in 0..(m - 1), m * q + r = m * s + t
    PROVE  r = t
<1>1. m * (q - s) = t - r
  OBVIOUS
<1>2. CASE q - s >= 1
  <2>1. m * (q - s) >= m
    BY <1>2
  <2> QED BY <1>1, <2>1
<1>3. CASE q - s <= -1
  <2>1. m * (q - s) <= -m
    BY <1>3
  <2> QED BY <1>1, <2>1
<1>4. CASE q = s
  BY <1>1, <1>4
<1> QED BY <1>2, <1>3, <1>4

\* The remainder is the only number of its kind.
LEMMA ModIs ==
    ASSUME NEW m \in Nat \ {0}, NEW q \in Int, NEW r \in 0..(m - 1)
    PROVE  (m * q + r) % m = r
<1> DEFINE x == m * q + r
<1>1. x \in Int
  OBVIOUS
<1> HIDE DEF x
<1>2. x % m \in 0..(m - 1) /\ x \div m \in Int /\ x = m * (x \div m) + (x % m)
  BY <1>1, ModBy
<1>3. m * q + r = m * (x \div m) + (x % m)
  BY <1>2 DEF x
<1> DEFINE a == x % m
           b == x \div m
<1>4. a \in 0..(m - 1) /\ b \in Int /\ m * q + r = m * b + a
  BY <1>2, <1>3
<1> HIDE DEF a, b
<1>5. r = a
  BY <1>4, ModUnique
<1> QED BY <1>5 DEF a, x

\* Two numbers less than m apart do not have the same remainder.
LEMMA ModApart ==
    ASSUME NEW m \in Nat \ {0}, NEW x \in Nat, NEW y \in Nat, x < y, y - x < m
    PROVE  x % m # y % m
<1> SUFFICES ASSUME x % m = y % m PROVE FALSE
  OBVIOUS
<1> DEFINE a == x \div m
           b == y \div m
           c == x % m
<1>1. a \in Int /\ b \in Int /\ c \in 0..(m - 1) /\ x = m * a + c /\ y = m * b + c
  BY ModBy
<1> HIDE DEF a, b, c
<1>2. y - x = m * (b - a)
  BY <1>1
<1>3. CASE b - a >= 1
  <2>1. m * (b - a) >= m
    BY <1>1, <1>3
  <2> QED BY <1>2, <2>1
<1>4. CASE b - a <= 0
  <2>1. m * (b - a) <= 0
    BY <1>1, <1>4
  <2> QED BY <1>2, <2>1
<1> QED BY <1>1, <1>3, <1>4

\* The index of a byte is the same whether or not its counter has wrapped
\* around, as PIPESIZE divides 2^32.
LEMMA ModWraps ==
    ASSUME NEW x \in Nat, NEW i \in Nat
    PROVE  ((x % WORD) + i) % PIPESIZE = (x + i) % PIPESIZE
<1> DEFINE P == PIPESIZE
           k == WORD \div P
           q == x \div WORD
           r == x % WORD
           u == r + i
           s == u \div P
           t == u % P
<1>1. P \in Nat \ {0} /\ WORD \in Nat \ {0} /\ WORD % P = 0
  BY ProcAssumption
<1>2. k \in Int /\ WORD = P * k + 0
  BY <1>1, ModBy
<1>3. q \in Int /\ r \in Nat /\ x = WORD * q + r
  BY <1>1, ModBy
<1>4. s \in Int /\ t \in 0..(P - 1) /\ r + i = P * s + t
  <2>1. u \in Int
    BY <1>3
  <2> HIDE DEF u
  <2>2. s \in Int /\ t \in 0..(P - 1) /\ u = P * s + t
    BY <1>1, <2>1, ModBy
  <2> QED BY <2>2 DEF u
<1>5. ((x % WORD) + i) % PIPESIZE = t
  OBVIOUS
<1> HIDE DEF P, k, q, r, s, t, u
<1>6. x + i = WORD * q + (P * s + t)
  BY <1>1, <1>3, <1>4
<1>7. WORD * q = P * (k * q)
  BY <1>1, <1>2, <1>3
<1>8. k * q \in Int
  BY <1>2, <1>3
<1>9. x + i = P * (k * q + s) + t
  <2>1. P * (k * q + s) = P * (k * q) + P * s
    BY <1>1, <1>4, <1>8
  <2> QED BY <1>1, <1>4, <1>6, <1>7, <1>8, <2>1
<1>10. (x + i) % P = t
  <2>1. k * q + s \in Int
    BY <1>4, <1>8
  <2> QED BY <1>1, <1>4, <1>9, <2>1, ModIs
<1> QED BY <1>5, <1>10 DEF P

\* The difference of the counters is the number of bytes between them, also
\* when one has wrapped around and the other has not.
LEMMA ModDiff ==
    ASSUME NEW x \in Nat, NEW y \in Nat, x <= y, y - x < WORD
    PROVE  ((y % WORD) - (x % WORD)) % WORD = y - x
<1> DEFINE a == x \div WORD
           b == y \div WORD
           c == x % WORD
           d == y % WORD
<1>1. WORD \in Nat \ {0}
  BY ProcAssumption
<1>2. a \in Int /\ b \in Int /\ c \in Int /\ d \in Int /\ x = WORD * a + c /\ y = WORD * b + d
  BY <1>1, ModBy
<1>0. c = x % WORD /\ d = y % WORD
  OBVIOUS
<1> HIDE DEF a, b, c, d
<1>3. d - c = WORD * (a - b) + (y - x)
  BY <1>1, <1>2
<1>4. a - b \in Int /\ y - x \in 0..(WORD - 1)
  BY <1>1, <1>2
<1>5. (WORD * (a - b) + (y - x)) % WORD = y - x
  BY <1>1, <1>4, ModIs
<1>6. (d - c) % WORD = y - x
  BY <1>3, <1>5
<1> QED BY <1>0, <1>6

-----------------------------------------------------------------------------
(* The inductive invariant *)

Chans == {OnProc(p) : p \in Slots} \cup {OnRead, OnWrite, Nowhere}
States == {"UNUSED", "EMBRYO", "RUNNABLE", "RUNNING", "SLEEPING", "ZOMBIE"}
Places == {"gone", "user", "fork", "copy_maps", "exit", "wait", "read", "write", "rsleep", "wsleep"}

TableTypes ==
    /\ state \in [Slots -> States] /\ pid \in [Slots -> Nat]
    /\ parent \in [Slots -> Slots \cup {NULL}] /\ chan \in [Slots -> Chans]
    /\ killed \in [Slots -> BOOLEAN] /\ nextpid \in Nat /\ nomaps \in BOOLEAN
    /\ pc \in [Slots -> Places] /\ child \in [Slots -> Slots \cup {NULL}]

PipeTypes ==
    /\ ofile \in [Slots -> SUBSET Ends] /\ ref \in [Ends -> Nat] /\ closing \in [Slots -> Ends \cup {NULL}]
    /\ pipe \in Pipes \cup {NULL} /\ plock \in Slots \cup {NULL} /\ left \in [Slots -> Nat]
    /\ sent \in Nat /\ got \in Seq(Nat) /\ gaveUp \in BOOLEAN

Alive(p) == state[p] \in {"RUNNABLE", "RUNNING", "SLEEPING"}
Forks(p) == pc[p] \in {"fork", "copy_maps"}

\* The process table: init lives, a process that forks has an EMBRYO of its
\* own, and whoever exists has a parent that is alive.
TableInv ==
    /\ Alive(initproc) /\ pc[initproc] # "exit" /\ parent[initproc] = NULL
    /\ \A p \in Slots : parent[p] # p
    /\ \A p \in Slots : Alive(p) <=> pc[p] # "gone"
    /\ \A p \in Slots : Forks(p) => child[p] \in Slots /\ state[child[p]] = "EMBRYO"
    /\ \A p, q \in Slots : Forks(p) /\ Forks(q) /\ child[p] = child[q] => p = q
    /\ \A p \in Slots : pc[p] = "copy_maps" => parent[child[p]] = p
    /\ \A p \in Slots \ {initproc} : Alive(p) \/ state[p] = "ZOMBIE" =>
          parent[p] \in Slots /\ Alive(parent[p])
    /\ ~nomaps => /\ \A p \in Slots : state[p] = "UNUSED" => parent[p] = NULL
                  /\ \A p \in Slots : pc[p] = "fork" => parent[child[p]] = NULL

Holders(e) == {p \in Slots : e \in ofile[p]}
Open(e) == pipe # NULL /\ (IF e = "r" THEN pipe.readopen ELSE pipe.writeopen)
Using(p, e) == pc[p] \in (IF e = "r" THEN {"read", "rsleep"} ELSE {"write", "wsleep"})

\* The references to the ends of the pipe: an end that is counted is open, and
\* one process closes it when it no longer is.
FilesInv ==
    /\ \A e \in Ends : Cardinality(Holders(e)) <= ref[e] /\ (ref[e] > 0 => Open(e))
    /\ \A p \in Slots, e \in Ends :
          /\ closing[p] = e => ref[e] = 0 /\ Open(e) /\ pc[p] \in {"user", "exit"}
          /\ Using(p, e) => e \in ofile[p]
    /\ \A p, q \in Slots : closing[p] # NULL /\ closing[p] = closing[q] => p = q

\* The pipe's lock is held across steps on the way to sleep alone.
LockInv == \A p \in Slots :
    /\ plock = p <=> pc[p] \in {"rsleep", "wsleep"}
    /\ plock = p => Runs(p)

\* Who sleeps, where and for what.
Sleeps(p, at) == state[p] = "SLEEPING" /\ pc[p] = at
Drained == Empty /\ pipe.writeopen
Filled == Room = 0 /\ pipe.readopen

WaitInv == \A p \in Slots : Sleeps(p, "wait") =>
    /\ chan[p] = OnProc(p) /\ Zombies(p) = {} /\ ~killed[p]
    /\ nomaps \/ \E q \in Kids(p) : state[q] # "UNUSED"

SleepInv == \A p \in Slots :
    /\ state[p] = "SLEEPING" => pc[p] \in {"wait", "read", "write"}
    /\ pc[p] = "rsleep" => Drained
    /\ pc[p] = "wsleep" => Filled
    /\ Sleeps(p, "read") => chan[p] = OnRead /\ (gaveUp \/ Drained)
    /\ Sleeps(p, "write") => chan[p] = OnWrite /\ Filled

\* The bytes in the pipe: the counters are those of all bytes modulo 2^32.
DataInv ==
    /\ Len(got) <= sent /\ \A i \in 1..Len(got) : got[i] = i
    /\ pipe # NULL =>
          /\ sent - Len(got) <= PIPESIZE
          /\ pipe.nread = Len(got) % WORD /\ pipe.nwrite = sent % WORD
          /\ \A k \in Len(got) + 1..sent : pipe.data[(k - 1) % PIPESIZE] = k

Inv == TableTypes /\ PipeTypes /\ TableInv /\ FilesInv /\ LockInv /\ WaitInv /\ SleepInv /\ DataInv

-----------------------------------------------------------------------------
(* Facts about the operators *)

\* The table is finite and init has a slot of it.
LEMMA SlotFacts ==
    /\ initproc \in Slots /\ NULL \notin Slots /\ NULL \notin Ends /\ NULL \notin Pipes
    /\ IsFiniteSet(Slots) /\ Slots \subseteq Nat
<1>1. IsFiniteSet(1..NPROC)
  BY ProcAssumption, FS_Interval
<1> QED BY <1>1, ProcAssumption DEF Slots, initproc

\* A set of numbers that is not empty has a least element.
LEMMA LeastNumber ==
    ASSUME NEW S \in SUBSET Nat, S # {}
    PROVE  \E n \in S : \A m \in S : n <= m
<1> DEFINE R == OpToRel(<, Nat)
<1>1. IsWellFoundedOn(R, Nat)
  BY NatLessThanWellFounded, Zenon
<1>2. \A n, m \in Nat : <<n, m>> \in R <=> n < m
  BY DEF OpToRel
<1> HIDE DEF R
<1>3. PICK n \in S : \A m \in S : ~(<<m, n>> \in R)
  BY <1>1, WFMin
<1>4. \A m \in S : ~(m < n)
  BY <1>2, <1>3
<1> QED BY <1>4

\* The first entry of a scan of the process table.
LEMMA FirstFacts ==
    ASSUME NEW S \in SUBSET Slots, S # {}
    PROVE  FirstOf(S) \in S
<1>1. \E q \in S : \A r \in S : q <= r
  BY SlotFacts, LeastNumber
<1> QED BY <1>1 DEF FirstOf

\* wakeup1 makes the sleepers on the channel runnable and does nothing else.
LEMMA WakeFacts ==
    ASSUME NEW st \in [Slots -> States], NEW c
    PROVE  /\ Wakened(st, c) \in [Slots -> States]
           /\ \A p \in Slots : IF st[p] = "SLEEPING" /\ chan[p] = c
                               THEN Wakened(st, c)[p] = "RUNNABLE"
                               ELSE Wakened(st, c)[p] = st[p]
BY DEF Wakened, States

\* Different channels are different, and each process has its own.
LEMMA ChanFacts ==
    /\ OnRead # OnWrite /\ Nowhere # OnRead /\ Nowhere # OnWrite
    /\ \A p : OnProc(p) # OnRead /\ OnProc(p) # OnWrite /\ OnProc(p) # Nowhere
    /\ \A p, q : OnProc(p) = OnProc(q) => p = q
    /\ OnRead \in Chans /\ OnWrite \in Chans /\ Nowhere \in Chans
    /\ \A p \in Slots : OnProc(p) \in Chans
BY DEF OnRead, OnWrite, OnProc, Nowhere, Chans

\* One more element.
LEMMA AddOne ==
    ASSUME NEW S, IsFiniteSet(S), NEW x
    PROVE  /\ IsFiniteSet(S \cup {x}) /\ Cardinality(S \cup {x}) \in Nat
           /\ Cardinality(S \cup {x}) <= Cardinality(S) + 1
<1>1. IsFiniteSet(S \cup {x}) /\ Cardinality(S) \in Nat
  BY FS_AddElement, FS_CardinalityType
<1>2. CASE x \in S
  <2>1. S \cup {x} = S
    BY <1>2
  <2> QED BY <1>1, <2>1
<1>3. CASE x \notin S
  <2>1. Cardinality(S \cup {x}) = Cardinality(S) + 1
    BY <1>3, FS_AddElement
  <2> QED BY <1>1, <2>1
<1> QED BY <1>2, <1>3

\* Whoever uses an end has it open.
LEMMA UserFacts ==
    ASSUME PipeTypes, FilesInv, NEW e \in Ends
    PROVE  /\ \A p \in Slots : e \in ofile[p] => ref[e] > 0
           /\ \A p \in Slots : Using(p, e) => ref[e] > 0 /\ Open(e)
<1>1. ASSUME NEW p \in Slots, e \in ofile[p] PROVE ref[e] > 0
  <2>1. IsFiniteSet(Holders(e)) /\ p \in Holders(e)
    BY <1>1, SlotFacts, FS_Subset DEF Holders
  <2>2. Cardinality(Holders(e)) \in Nat /\ Cardinality(Holders(e)) # 0
    BY <2>1, FS_CardinalityType, FS_EmptySet
  <2> QED BY <2>2 DEF PipeTypes, FilesInv
<1> QED BY <1>1 DEF FilesInv

\* The number of bytes in the pipe.
LEMMA UsedFacts ==
    ASSUME PipeTypes, DataInv, pipe # NULL
    PROVE  /\ Used = sent - Len(got) /\ Used \in 0..PIPESIZE /\ Len(got) \in Nat
           /\ Room = PIPESIZE - (sent - Len(got)) /\ Room \in 0..PIPESIZE
           /\ Empty <=> sent = Len(got)
<1> DEFINE g == Len(got)
<1>1. g \in Nat /\ sent \in Nat /\ g <= sent /\ sent - g <= PIPESIZE /\ PIPESIZE < WORD
      /\ PIPESIZE \in Nat /\ WORD \in Nat
  BY ProcAssumption DEF PipeTypes, DataInv
<1>2. pipe.nread = g % WORD /\ pipe.nwrite = sent % WORD
  BY DEF DataInv
<1> HIDE DEF g
<1>3. ((sent % WORD) - (g % WORD)) % WORD = sent - g
  BY <1>1, ModDiff
<1>4. Used = sent - g
  BY <1>2, <1>3 DEF Used
<1>5. Empty <=> sent = g
  <2>1. CASE sent = g
    BY <1>2, <2>1 DEF Empty
  <2>2. CASE sent # g
    <3>1. g % WORD # sent % WORD
      <4>1. g < sent /\ sent - g < WORD /\ WORD \in Nat \ {0}
        BY <1>1, <2>2
      <4> QED BY <1>1, <4>1, ModApart
    <3> QED BY <1>2, <2>2, <3>1 DEF Empty
  <2> QED BY <2>1, <2>2
<1> QED BY <1>1, <1>4, <1>5 DEF Room, g

\* The same of the next state.
LEMMA UsedFactsNext ==
    ASSUME PipeTypes', DataInv', pipe' # NULL
    PROVE  Room' = PIPESIZE - (sent' - Len(got'))
<1> DEFINE g == Len(got')
           s == sent'
<1>1. g \in Nat /\ s \in Nat /\ g <= s /\ s - g <= PIPESIZE /\ PIPESIZE < WORD
      /\ PIPESIZE \in Nat /\ WORD \in Nat
  BY ProcAssumption DEF PipeTypes, DataInv
<1>2. pipe'.nread = g % WORD /\ pipe'.nwrite = s % WORD
  BY DEF DataInv
<1>3. Room' = PIPESIZE - ((pipe'.nwrite - pipe'.nread) % WORD)
  BY DEF Room, Used
<1> HIDE DEF g, s
<1>4. ((s % WORD) - (g % WORD)) % WORD = s - g
  BY <1>1, ModDiff
<1>5. Room' = PIPESIZE - (s - g)
  BY <1>2, <1>3, <1>4
<1> QED BY <1>5 DEF g, s

-----------------------------------------------------------------------------
(* What a step leaves alone *)

\* The table when nobody is born or dies and nobody is forking.
LEMMA TableKept ==
    ASSUME TableTypes, TableTypes', TableInv, UNCHANGED <<parent, child, nomaps>>,
           \A q \in Slots : \/ state'[q] = state[q]
                            \/ Alive(q) /\ Alive(q)',
           \A q \in Slots : \/ pc'[q] = pc[q]
                            \/ /\ ~Forks(q) /\ pc[q] # "gone" /\ pc'[q] \notin {"gone", "fork", "copy_maps"}
                               /\ pc'[q] = "exit" => q # initproc
    PROVE  TableInv'
<1>1. \A q \in Slots : /\ Alive(q)' <=> Alive(q)
                       /\ state[q] = "EMBRYO" => state'[q] = "EMBRYO"
                       /\ state'[q] = "ZOMBIE" => state[q] = "ZOMBIE"
                       /\ state'[q] = "UNUSED" => state[q] = "UNUSED"
                       /\ Forks(q)' <=> Forks(q)
                       /\ Forks(q) => pc'[q] = pc[q]
                       /\ pc'[q] = "gone" <=> pc[q] = "gone"
  BY DEF Alive, Forks
<1>2. Alive(initproc)' /\ pc'[initproc] # "exit"
  BY <1>1, SlotFacts DEF TableInv
<1>3. \A p \in Slots : Forks(p)' => child'[p] \in Slots /\ state'[child'[p]] = "EMBRYO"
  BY <1>1 DEF TableInv
<1>4. \A p \in Slots : pc'[p] = "copy_maps" => parent'[child'[p]] = p
  BY <1>1 DEF TableInv, Forks
<1>5. \A p \in Slots : pc'[p] = "fork" => pc[p] = "fork"
  BY <1>1 DEF Forks
<1> QED BY <1>1, <1>2, <1>3, <1>4, <1>5 DEF TableInv

\* The references when no file is opened, closed or copied.
LEMMA FilesKept ==
    ASSUME FilesInv, UNCHANGED <<ofile, ref, closing>>,
           \A e \in Ends : Open(e)' = Open(e),
           \A q \in Slots : pc'[q] = pc[q] \/ closing[q] = NULL \/ pc'[q] = "exit",
           \A q \in Slots, e \in Ends : Using(q, e)' => Using(q, e) \/ e \in ofile[q]
    PROVE  FilesInv'
<1>1. \A e \in Ends : Holders(e)' = Holders(e)
  BY DEF Holders
<1>2. \A q \in Slots, e \in Ends : closing'[q] = e => pc'[q] \in {"user", "exit"}
  BY SlotFacts DEF FilesInv
<1> QED BY <1>1, <1>2 DEF FilesInv

\* The lock when nobody takes it or gives it back.
LEMMA LockKept ==
    ASSUME LockInv, UNCHANGED plock,
           \A q \in Slots : pc'[q] \in {"rsleep", "wsleep"} <=> pc[q] \in {"rsleep", "wsleep"},
           \A q \in Slots : Runs(q) /\ plock = q => Runs(q)'
    PROVE  LockInv'
BY DEF LockInv

\* The sleepers in wait when nobody gets or loses a child, and no child exits.
LEMMA WaitKept ==
    ASSUME WaitInv, UNCHANGED <<parent, nomaps>>,
           \A q \in Slots : Sleeps(q, "wait")' => /\ Sleeps(q, "wait") /\ chan'[q] = chan[q]
                                                  /\ ~killed[q] => ~killed'[q],
           \A q \in Slots : state'[q] = "ZOMBIE" => state[q] = "ZOMBIE",
           \A q \in Slots : state'[q] = "UNUSED" => state[q] = "UNUSED"
    PROVE  WaitInv'
<1> SUFFICES ASSUME NEW p \in Slots, Sleeps(p, "wait")'
             PROVE  /\ chan'[p] = OnProc(p) /\ Zombies(p)' = {} /\ ~killed'[p]
                    /\ nomaps' \/ \E q \in Kids(p)' : state'[q] # "UNUSED"
  BY DEF WaitInv
<1>1. Kids(p)' = Kids(p)
  BY DEF Kids
<1>2. Zombies(p)' \subseteq Zombies(p) /\ Kids(p) \subseteq Slots
  BY <1>1 DEF Zombies, Kids
<1> QED BY <1>1, <1>2 DEF WaitInv

\* The sleepers at the pipe when nobody touches it.
LEMMA SleepKept ==
    ASSUME SleepInv, UNCHANGED <<pipe, gaveUp>>,
           \A q \in Slots : pc'[q] \in {"rsleep", "wsleep"} => pc'[q] = pc[q],
           \A q \in Slots : state'[q] = "SLEEPING" =>
              \/ pc'[q] = "wait"
              \/ state[q] = "SLEEPING" /\ pc'[q] = pc[q] /\ chan'[q] = chan[q]
    PROVE  SleepInv'
<1>1. Drained' = Drained /\ Filled' = Filled
  BY DEF Drained, Filled, Empty, Room, Used
<1> HIDE DEF Drained, Filled
<1> SUFFICES ASSUME NEW p \in Slots
             PROVE  /\ state'[p] = "SLEEPING" => pc'[p] \in {"wait", "read", "write"}
                    /\ pc'[p] = "rsleep" => Drained
                    /\ pc'[p] = "wsleep" => Filled
                    /\ Sleeps(p, "read")' => chan'[p] = OnRead /\ (gaveUp \/ Drained)
                    /\ Sleeps(p, "write")' => chan'[p] = OnWrite /\ Filled
  BY <1>1 DEF SleepInv
<1>2. CASE state'[p] = "SLEEPING"
  BY <1>2 DEF SleepInv, Sleeps
<1>3. CASE state'[p] # "SLEEPING"
  BY <1>3 DEF SleepInv, Sleeps
<1> QED BY <1>2, <1>3

\* The bytes when nobody reads or writes.
LEMMA DataKept ==
    ASSUME DataInv, UNCHANGED <<sent, got>>, pipe' \in {pipe, NULL}
    PROVE  DataInv'
BY DEF DataInv

\* A pipe that nobody touches.
LEMMA PipeSame == ASSUME UNCHANGED pipe PROVE \A e \in Ends : Open(e)' = Open(e)
BY DEF Open

\* All of it, in a step of a process that calls something, is scheduled,
\* preempted or killed.
Moves(q) ==
    /\ Runs(q)' /\ pc[q] \in {"user", "wait"} /\ closing[q] = NULL
    /\ \/ pc'[q] \in {"user", "wait"}
       \/ pc'[q] = "exit" /\ q # initproc
       \/ pc'[q] = "read" /\ "r" \in ofile[q]
       \/ pc'[q] = "write" /\ "w" \in ofile[q]

\* A step that changes only who runs, and moves nobody to a place where
\* something is claimed of it, keeps the invariant.
LEMMA Quiet ==
    ASSUME Inv, TableTypes', PipeTypes',
           UNCHANGED <<parent, child, nomaps, ofile, ref, closing, pipe, plock, sent, got, gaveUp>>,
           \A q \in Slots : \/ state'[q] = state[q]
                            \/ Alive(q) /\ Alive(q)' /\ plock # q /\ state'[q] # "SLEEPING",
           \A q \in Slots : pc'[q] = pc[q] \/ Moves(q),
           \A q \in Slots : state'[q] = "SLEEPING" => chan'[q] = chan[q] /\ killed'[q] = killed[q]
    PROVE  Inv'
<1>1. TableInv'
  <2>1. \A q \in Slots : state'[q] = state[q] \/ (Alive(q) /\ Alive(q)')
    BY DEF Alive
  <2>2. \A q \in Slots : \/ pc'[q] = pc[q]
                         \/ /\ ~Forks(q) /\ pc[q] # "gone" /\ pc'[q] \notin {"gone", "fork", "copy_maps"}
                            /\ pc'[q] = "exit" => q # initproc
    BY DEF Moves, Forks
  <2> QED BY <2>1, <2>2, TableKept DEF Inv
<1>2. FilesInv'
  <2>1. \A q \in Slots : pc'[q] = pc[q] \/ closing[q] = NULL \/ pc'[q] = "exit"
    BY DEF Moves
  <2>2. \A q \in Slots, e \in Ends : Using(q, e)' => Using(q, e) \/ e \in ofile[q]
    BY DEF Moves, Using, Ends
  <2> QED BY <2>1, <2>2, PipeSame, FilesKept DEF Inv
<1>3. LockInv'
  <2>1. \A q \in Slots : pc'[q] \in {"rsleep", "wsleep"} <=> pc[q] \in {"rsleep", "wsleep"}
    BY DEF Moves
  <2>2. \A q \in Slots : Runs(q) /\ plock = q => Runs(q)'
    BY DEF Runs
  <2> QED BY <2>1, <2>2, LockKept DEF Inv
<1>4. WaitInv'
  <2>1. \A q \in Slots : state'[q] = "SLEEPING" => state[q] = "SLEEPING" /\ pc'[q] = pc[q]
    BY DEF Moves, Runs
  <2>2. \A q \in Slots : Sleeps(q, "wait")' => /\ Sleeps(q, "wait") /\ chan'[q] = chan[q]
                                               /\ ~killed[q] => ~killed'[q]
    BY <2>1 DEF Sleeps
  <2>3. \A q \in Slots : /\ state'[q] = "ZOMBIE" => state[q] = "ZOMBIE"
                         /\ state'[q] = "UNUSED" => state[q] = "UNUSED"
    BY DEF Alive
  <2> QED BY <2>2, <2>3, WaitKept DEF Inv
<1>5. SleepInv'
  <2>1. \A q \in Slots : pc'[q] \in {"rsleep", "wsleep"} => pc'[q] = pc[q]
    BY DEF Moves
  <2>2. \A q \in Slots : state'[q] = "SLEEPING" => state[q] = "SLEEPING" /\ pc'[q] = pc[q] /\ chan'[q] = chan[q]
    BY DEF Moves, Runs
  <2> QED BY <2>1, <2>2, SleepKept DEF Inv
<1>6. DataInv'
  BY DataKept DEF Inv
<1> QED BY <1>1, <1>2, <1>3, <1>4, <1>5, <1>6 DEF Inv

\* A step that changes nothing keeps it.
LEMMA Stutter == ASSUME Inv, UNCHANGED vars PROVE Inv'
<1>1. UNCHANGED <<state, pid, parent, chan, killed, nextpid, ofile, ref, pipe, plock, pc, left, child,
                  closing, sent, got, gaveUp, nomaps>>
  BY DEF vars, tvars, fvars, lvars, hvars
<1>2. TableTypes' /\ PipeTypes'
  BY <1>1 DEF Inv, TableTypes, PipeTypes
<1> QED BY <1>1, <1>2, Quiet

\* Scheduling and preemption keep it.
LEMMA SchedulerInv ==
    ASSUME Inv, NEW p \in Slots, scheduler(p) \/ yield(p)
    PROVE  Inv'
<1>1. /\ Alive(p) /\ Alive(p)' /\ state'[p] # "SLEEPING" /\ plock # p
      /\ \A q \in Slots : q # p => state'[q] = state[q] /\ chan'[q] = chan[q]
      /\ state' \in [Slots -> States] /\ chan' \in [Slots -> Chans]
  BY ChanFacts DEF scheduler, yield, Inv, TableTypes, States, Alive, Runs, LockInv
<1>2. UNCHANGED <<pid, parent, killed, nextpid, ofile, ref, pipe, plock, pc, left, child,
                  closing, sent, got, gaveUp, nomaps>>
  BY DEF scheduler, yield, fvars, lvars, hvars
<1>3. TableTypes' /\ PipeTypes'
  BY <1>1, <1>2 DEF Inv, TableTypes, PipeTypes
<1> QED BY <1>1, <1>2, <1>3, Quiet

\* So does entering a system call.
LEMMA CallsInv ==
    ASSUME Inv, NEW p \in Slots,
           CallExit(p) \/ CallWait(p) \/ \E n \in Sizes : CallRead(p, n) \/ CallWrite(p, n)
    PROVE  Inv'
<1>1. UNCHANGED <<state, pid, parent, chan, killed, nextpid, ofile, ref, pipe, plock, child,
                  closing, sent, got, gaveUp, nomaps>>
  BY DEF CallExit, CallWait, CallRead, CallWrite, tvars, fvars, hvars
<1>2. /\ pc' \in [Slots -> Places] /\ left' \in [Slots -> Nat]
      /\ \A q \in Slots : q # p => pc'[q] = pc[q]
      /\ Runs(p) /\ pc[p] = "user" /\ closing[p] = NULL
      /\ \/ pc'[p] = "exit" /\ p # initproc
         \/ pc'[p] = "wait"
         \/ pc'[p] = "read" /\ "r" \in ofile[p]
         \/ pc'[p] = "write" /\ "w" \in ofile[p]
  <2>1. pc \in [Slots -> Places] /\ left \in [Slots -> Nat]
    BY DEF Inv, TableTypes, PipeTypes
  <2>2. Runs(p) /\ pc[p] = "user" /\ closing[p] = NULL
    BY DEF CallExit, CallWait, CallRead, CallWrite, MayCall
  <2>3. CASE CallExit(p) \/ CallWait(p)
    BY <2>1, <2>2, <2>3 DEF CallExit, CallWait, Places
  <2>4. CASE \E n \in Sizes : CallRead(p, n) \/ CallWrite(p, n)
    BY <2>1, <2>2, <2>4, ProcAssumption DEF CallRead, CallWrite, Places
  <2> QED BY <2>3, <2>4
<1>3. TableTypes' /\ PipeTypes'
  BY <1>1, <1>2 DEF Inv, TableTypes, PipeTypes
<1>4. \A q \in Slots : pc'[q] = pc[q] \/ Moves(q)
  BY <1>1, <1>2 DEF Moves, Runs
<1> QED BY <1>1, <1>3, <1>4, Quiet

\* So does kill, which makes a sleeper runnable.
LEMMA KillInv ==
    ASSUME Inv, NEW p \in Slots, NEW n \in KillPids, kill(p, n)
    PROVE  Inv'
<1> DEFINE S == {r \in Slots : pid[r] = n}
<1>1. PICK q \in Slots : q = FirstOf(S)
  <2>1. S # {} /\ S \in SUBSET Slots
    BY DEF kill
  <2> QED BY <2>1, FirstFacts
<1>2. /\ killed' = [killed EXCEPT ![q] = TRUE]
      /\ state' = [state EXCEPT ![q] = IF @ = "SLEEPING" THEN "RUNNABLE" ELSE @]
  BY <1>1 DEF kill
<1>3. UNCHANGED <<pid, parent, chan, nextpid, ofile, ref, pipe, plock, pc, left, child,
                  closing, sent, got, gaveUp, nomaps>>
  BY DEF kill, fvars, lvars, hvars
<1>4. /\ state' \in [Slots -> States] /\ killed' \in [Slots -> BOOLEAN]
      /\ \A r \in Slots : r # q => state'[r] = state[r] /\ killed'[r] = killed[r]
      /\ state'[q] # "SLEEPING"
      /\ state'[q] = state[q] \/ (state[q] = "SLEEPING" /\ state'[q] = "RUNNABLE")
  <2>1. state \in [Slots -> States] /\ killed \in [Slots -> BOOLEAN]
    BY DEF Inv, TableTypes
  <2>2. killed' \in [Slots -> BOOLEAN] /\ \A r \in Slots : r # q => killed'[r] = killed[r]
    BY <1>2, <2>1
  <2>3. state' \in [Slots -> States] /\ \A r \in Slots : r # q => state'[r] = state[r]
    BY <1>2, <2>1 DEF States
  <2>4. /\ state'[q] # "SLEEPING"
        /\ state'[q] = state[q] \/ (state[q] = "SLEEPING" /\ state'[q] = "RUNNABLE")
    BY <1>2, <2>1
  <2> QED BY <2>2, <2>3, <2>4
<1>5. TableTypes' /\ PipeTypes'
  BY <1>3, <1>4 DEF Inv, TableTypes, PipeTypes
<1>6. state'[q] = state[q] \/ (Alive(q) /\ Alive(q)' /\ plock # q)
  BY <1>4 DEF Alive, Inv, LockInv, Runs
<1> QED BY <1>3, <1>4, <1>5, <1>6, Quiet

-----------------------------------------------------------------------------
(* fork *)

\* Only a program or its exit is between the two halves of fileclose.
LEMMA ClosingFacts ==
    ASSUME PipeTypes, FilesInv
    PROVE  \A q \in Slots : pc[q] \notin {"user", "exit"} => closing[q] = NULL
BY DEF PipeTypes, FilesInv

\* fork leaves the pipe and its sleepers alone.
LEMMA ForkKept ==
    ASSUME Inv, NEW p \in Slots, NEW np \in Slots, Runs(p), pc[p] \in {"user", "fork", "copy_maps"},
           closing[p] = NULL, pc[np] = "gone",
           UNCHANGED <<chan, killed, closing, pipe, plock, left, sent, got, gaveUp>>,
           \A q \in Slots : q # np => state'[q] = state[q],
           state'[np] \in {"UNUSED", "EMBRYO", "RUNNABLE"},
           \A q \in Slots : q \notin {p, np} => pc'[q] = pc[q],
           pc'[p] \in {"user", "fork", "copy_maps"}, pc'[np] \in {"gone", "user"}
    PROVE  /\ LockInv' /\ SleepInv' /\ DataInv'
           /\ ofile' = ofile /\ ref' = ref => FilesInv'
           /\ \A q \in Slots : Sleeps(q, "wait")' => /\ Sleeps(q, "wait") /\ chan'[q] = chan[q]
                                                     /\ ~killed[q] => ~killed'[q]
<1>1. /\ closing[np] = NULL /\ state[p] = "RUNNING" /\ p # np
      /\ \A q \in Slots : pc'[q] = pc[q] \/ closing[q] = NULL
  BY ClosingFacts DEF Inv, Runs
<1>2. LockInv'
  <2>1. \A q \in Slots : pc'[q] \in {"rsleep", "wsleep"} <=> pc[q] \in {"rsleep", "wsleep"}
    OBVIOUS
  <2>2. \A q \in Slots : Runs(q) /\ plock = q => Runs(q)'
    BY DEF Inv, LockInv, Runs
  <2> QED BY <2>1, <2>2, LockKept DEF Inv
<1>3. \A q \in Slots : state'[q] = "SLEEPING" => state[q] = "SLEEPING" /\ pc'[q] = pc[q] /\ chan'[q] = chan[q]
  BY <1>1
<1>4. SleepInv'
  <2>1. \A q \in Slots : pc'[q] \in {"rsleep", "wsleep"} => pc'[q] = pc[q]
    OBVIOUS
  <2> QED BY <1>3, <2>1, SleepKept DEF Inv
<1>5. DataInv'
  BY DataKept DEF Inv
<1>6. ASSUME ofile' = ofile, ref' = ref PROVE FilesInv'
  <2>1. \A q \in Slots, e \in Ends : Using(q, e)' => Using(q, e)
    BY DEF Using
  <2> QED BY <1>1, <1>6, <2>1, PipeSame, FilesKept DEF Inv
<1>7. \A q \in Slots : Sleeps(q, "wait")' => /\ Sleeps(q, "wait") /\ chan'[q] = chan[q]
                                             /\ ~killed[q] => ~killed'[q]
  BY <1>3 DEF Sleeps
<1> QED BY <1>2, <1>4, <1>5, <1>6, <1>7

\* allocproc keeps the invariant.
LEMMA AllocInv ==
    ASSUME Inv, NEW p \in Slots, allocproc(p)
    PROVE  Inv'
<1>1. PICK np \in Slots : np = FirstOf(Unused) /\ state[np] = "UNUSED"
  <2>1. Unused # {} /\ Unused \in SUBSET Slots
    BY DEF allocproc, Unused
  <2>2. FirstOf(Unused) \in Unused
    BY <2>1, FirstFacts
  <2> QED BY <2>2 DEF Unused
<1>2. /\ Runs(p) /\ pc[p] = "user" /\ closing[p] = NULL
      /\ state' = [state EXCEPT ![np] = "EMBRYO"] /\ pid' = [pid EXCEPT ![np] = nextpid]
      /\ nextpid' = nextpid + 1
      /\ pc' = [pc EXCEPT ![p] = "fork"] /\ child' = [child EXCEPT ![p] = np]
  BY <1>1 DEF allocproc, MayCall
<1>3. UNCHANGED <<parent, chan, killed, ofile, ref, pipe, plock, left, closing, sent, got, gaveUp, nomaps>>
  BY DEF allocproc, fvars, hvars
<1>4. TableTypes /\ TableInv
  BY DEF Inv
<1>5. TableTypes' /\ PipeTypes'
  <2>1. state' \in [Slots -> States] /\ pc' \in [Slots -> Places]
    BY <1>2, <1>4 DEF TableTypes, States, Places
  <2>2. pid' \in [Slots -> Nat] /\ nextpid' \in Nat /\ child' \in [Slots -> Slots \cup {NULL}]
    BY <1>2, <1>4 DEF TableTypes
  <2> QED BY <1>3, <2>1, <2>2 DEF Inv, TableTypes, PipeTypes
<1>6. /\ state'[np] = "EMBRYO" /\ \A q \in Slots : q # np => state'[q] = state[q]
      /\ pc'[p] = "fork" /\ \A q \in Slots : q # p => pc'[q] = pc[q]
      /\ child'[p] = np /\ \A q \in Slots : q # p => child'[q] = child[q]
      /\ p # np /\ pc[np] = "gone"
  BY <1>1, <1>2, <1>4 DEF TableTypes, TableInv, Alive, Runs
<1>7. TableInv'
  <2>1. \A q \in Slots : /\ Alive(q)' <=> Alive(q)
                         /\ state'[q] = "ZOMBIE" => state[q] = "ZOMBIE"
                         /\ state'[q] = "UNUSED" => state[q] = "UNUSED"
    BY <1>1, <1>6 DEF Alive
  <2>2. \A q \in Slots : q # p /\ Forks(q)' => /\ Forks(q) /\ pc'[q] = pc[q] /\ child'[q] = child[q]
                                               /\ child[q] \in Slots /\ child[q] # np
    BY <1>1, <1>4, <1>6 DEF TableInv, Forks
  <2>3. Alive(initproc)' /\ pc'[initproc] # "exit" /\ \A q \in Slots : Alive(q)' <=> pc'[q] # "gone"
    BY <1>2, <1>4, <1>6, <2>1, SlotFacts DEF TableInv
  <2>4. \A q \in Slots : Forks(q)' => child'[q] \in Slots /\ state'[child'[q]] = "EMBRYO"
    BY <1>4, <1>6, <2>2 DEF TableInv
  <2>5. \A q, r \in Slots : Forks(q)' /\ Forks(r)' /\ child'[q] = child'[r] => q = r
    BY <1>4, <1>6, <2>2 DEF TableInv
  <2>6. \A q \in Slots : pc'[q] = "copy_maps" => parent'[child'[q]] = q
    BY <1>3, <1>4, <1>6, <2>2 DEF TableInv, Forks
  <2>7. \A q \in Slots \ {initproc} : Alive(q)' \/ state'[q] = "ZOMBIE" =>
           parent'[q] \in Slots /\ Alive(parent[q])'
    BY <1>3, <1>4, <2>1 DEF TableInv
  <2>8. ~nomaps' => /\ \A q \in Slots : state'[q] = "UNUSED" => parent'[q] = NULL
                    /\ \A q \in Slots : pc'[q] = "fork" => parent'[child'[q]] = NULL
    BY <1>1, <1>3, <1>4, <1>6, <2>1, <2>2 DEF TableInv, Forks
  <2> QED BY <1>3, <1>4, <2>3, <2>4, <2>5, <2>6, <2>7, <2>8 DEF TableInv
<1>8. /\ LockInv' /\ SleepInv' /\ DataInv' /\ FilesInv'
      /\ \A q \in Slots : Sleeps(q, "wait")' => /\ Sleeps(q, "wait") /\ chan'[q] = chan[q]
                                                /\ ~killed[q] => ~killed'[q]
  BY <1>2, <1>3, <1>6, ForkKept
<1>9. WaitInv'
  <2>1. \A q \in Slots : /\ state'[q] = "ZOMBIE" => state[q] = "ZOMBIE"
                         /\ state'[q] = "UNUSED" => state[q] = "UNUSED"
    BY <1>6
  <2> QED BY <1>3, <1>8, <2>1, WaitKept DEF Inv
<1> QED BY <1>5, <1>7, <1>8, <1>9 DEF Inv

\* fork fails: in copy_maps after it has set the parent.
LEMMA AbandonInv ==
    ASSUME Inv, NEW p \in Slots, fork_nomem(p) \/ fork_nomaps(p)
    PROVE  Inv'
<1>1. PICK np \in Slots : np = child[p] /\ state[np] = "EMBRYO"
  BY DEF fork_nomem, fork_nomaps, Inv, TableInv, Forks
<1>2. /\ Runs(p) /\ Forks(p) /\ state' = [state EXCEPT ![np] = "UNUSED"]
      /\ pc' = [pc EXCEPT ![p] = "user"] /\ child' = [child EXCEPT ![p] = NULL]
      /\ pc[p] = "copy_maps" => nomaps'
  BY <1>1 DEF fork_nomem, fork_nomaps, Abandon, Forks
<1>3. UNCHANGED <<pid, parent, chan, killed, nextpid, ofile, ref, pipe, plock, left, closing, sent, got, gaveUp>>
  BY DEF fork_nomem, fork_nomaps, fvars, hvars
<1>4. TableTypes /\ TableInv
  BY DEF Inv
<1>5. TableTypes' /\ PipeTypes'
  <2>1. state' \in [Slots -> States] /\ pc' \in [Slots -> Places]
    BY <1>2, <1>4 DEF TableTypes, States, Places
  <2>2. child' \in [Slots -> Slots \cup {NULL}]
    BY <1>2, <1>4 DEF TableTypes
  <2>3. nomaps' \in BOOLEAN
    BY <1>4 DEF fork_nomem, fork_nomaps, hvars, TableTypes
  <2> QED BY <1>3, <2>1, <2>2, <2>3 DEF Inv, TableTypes, PipeTypes
<1>6. /\ state'[np] = "UNUSED" /\ \A q \in Slots : q # np => state'[q] = state[q]
      /\ pc'[p] = "user" /\ \A q \in Slots : q # p => pc'[q] = pc[q]
      /\ \A q \in Slots : q # p => child'[q] = child[q]
      /\ p # np /\ pc[np] = "gone" /\ np # initproc
  BY <1>1, <1>2, <1>4, SlotFacts DEF TableTypes, TableInv, Alive, Runs
<1>7. TableInv'
  <2>1. \A q \in Slots : /\ Alive(q)' <=> Alive(q)
                         /\ state'[q] = "ZOMBIE" => state[q] = "ZOMBIE"
                         /\ state'[q] = "UNUSED" /\ q # np => state[q] = "UNUSED"
    BY <1>1, <1>6 DEF Alive
  <2>2. \A q \in Slots : Forks(q)' => /\ q # p /\ Forks(q) /\ pc'[q] = pc[q] /\ child'[q] = child[q]
                                      /\ child[q] \in Slots /\ child[q] # np
    BY <1>1, <1>2, <1>4, <1>6 DEF TableInv, Forks
  <2>3. Alive(initproc)' /\ pc'[initproc] # "exit" /\ \A q \in Slots : Alive(q)' <=> pc'[q] # "gone"
    BY <1>2, <1>4, <1>6, <2>1, SlotFacts DEF TableInv, Forks
  <2>4. \A q \in Slots : Forks(q)' => child'[q] \in Slots /\ state'[child'[q]] = "EMBRYO"
    BY <1>4, <1>6, <2>2 DEF TableInv
  <2>5. \A q, r \in Slots : Forks(q)' /\ Forks(r)' /\ child'[q] = child'[r] => q = r
    BY <1>4, <1>6, <2>2 DEF TableInv
  <2>6. \A q \in Slots : pc'[q] = "copy_maps" => parent'[child'[q]] = q
    BY <1>3, <1>4, <1>6, <2>2 DEF TableInv, Forks
  <2>7. \A q \in Slots \ {initproc} : Alive(q)' \/ state'[q] = "ZOMBIE" =>
           parent'[q] \in Slots /\ Alive(parent[q])'
    BY <1>3, <1>4, <2>1 DEF TableInv
  <2>8. ~nomaps' => ~nomaps /\ parent[np] = NULL
    BY <1>1, <1>2, <1>4 DEF fork_nomem, fork_nomaps, hvars, TableInv
  <2>9. ~nomaps' => /\ \A q \in Slots : state'[q] = "UNUSED" => parent'[q] = NULL
                    /\ \A q \in Slots : pc'[q] = "fork" => parent'[child'[q]] = NULL
    BY <1>3, <1>4, <1>6, <2>1, <2>2, <2>8 DEF TableInv, Forks
  <2> QED BY <1>3, <1>4, <2>3, <2>4, <2>5, <2>6, <2>7, <2>9 DEF TableInv
<1>8. /\ LockInv' /\ SleepInv' /\ DataInv' /\ FilesInv'
      /\ \A q \in Slots : Sleeps(q, "wait")' => /\ Sleeps(q, "wait") /\ chan'[q] = chan[q]
                                                /\ ~killed[q] => ~killed'[q]
  <2>1. closing[p] = NULL /\ pc[p] \in {"fork", "copy_maps"}
    BY <1>2, ClosingFacts DEF Inv, Forks
  <2> QED BY <1>2, <1>3, <1>6, <2>1, ForkKept
<1>9. WaitInv'
  <2> SUFFICES ASSUME NEW q \in Slots, Sleeps(q, "wait")'
               PROVE  /\ chan'[q] = OnProc(q) /\ Zombies(q)' = {} /\ ~killed'[q]
                      /\ nomaps' \/ \E r \in Kids(q)' : state'[r] # "UNUSED"
    BY DEF WaitInv
  <2>1. chan[q] = OnProc(q) /\ Zombies(q) = {} /\ ~killed[q] /\ Sleeps(q, "wait")
    BY <1>8 DEF Inv, WaitInv
  <2>2. Kids(q)' = Kids(q) /\ Zombies(q)' \subseteq Zombies(q)
    BY <1>3, <1>6 DEF Kids, Zombies
  <2>3. ASSUME ~nomaps' PROVE \E r \in Kids(q)' : state'[r] # "UNUSED"
    <3>1. ~nomaps /\ parent[np] = NULL
      BY <1>1, <1>2, <1>4, <2>3 DEF fork_nomem, fork_nomaps, hvars, TableInv
    <3>2. PICK r \in Kids(q) : state[r] # "UNUSED"
      BY <2>1, <3>1 DEF Inv, WaitInv
    <3>3. r # np /\ r \in Slots
      BY <3>1, <3>2, SlotFacts DEF Kids
    <3> QED BY <1>6, <2>2, <3>2, <3>3
  <2> QED BY <1>3, <2>1, <2>2, <2>3
<1> QED BY <1>5, <1>7, <1>8, <1>9 DEF Inv

\* So does the copying of fork.
LEMMA CopyInv ==
    ASSUME Inv, NEW p \in Slots, fork_copy(p)
    PROVE  Inv'
<1>1. PICK np \in Slots : np = child[p] /\ state[np] = "EMBRYO"
  BY DEF fork_copy, Inv, TableInv, Forks
<1>2. /\ Runs(p) /\ pc[p] = "fork" /\ parent' = [parent EXCEPT ![np] = p]
      /\ pc' = [pc EXCEPT ![p] = "copy_maps"]
      /\ ofile' = [ofile EXCEPT ![np] = @ \cup ofile[p]]
      /\ ref' = [e \in Ends |-> ref[e] + (IF e \in ofile[p] THEN 1 ELSE 0)]
  BY <1>1 DEF fork_copy
<1>3. UNCHANGED <<state, pid, chan, killed, nextpid, pipe, plock, left, child, closing, sent, got, gaveUp, nomaps>>
  BY DEF fork_copy, hvars
<1>4. TableTypes /\ TableInv /\ PipeTypes /\ FilesInv
  BY DEF Inv
<1>5. TableTypes' /\ PipeTypes'
  <2>1. pc' \in [Slots -> Places] /\ parent' \in [Slots -> Slots \cup {NULL}]
    BY <1>2, <1>4 DEF TableTypes, Places
  <2>2. ofile' \in [Slots -> SUBSET Ends]
    BY <1>2, <1>4 DEF PipeTypes
  <2>3. ref' \in [Ends -> Nat]
    BY <1>2, <1>4 DEF PipeTypes
  <2> QED BY <1>3, <1>4, <2>1, <2>2, <2>3 DEF TableTypes, PipeTypes
<1>6. /\ parent'[np] = p /\ \A q \in Slots : q # np => parent'[q] = parent[q]
      /\ pc'[p] = "copy_maps" /\ \A q \in Slots : q # p => pc'[q] = pc[q]
      /\ ofile'[np] = ofile[np] \cup ofile[p] /\ \A q \in Slots : q # np => ofile'[q] = ofile[q]
      /\ p # np /\ pc[np] = "gone" /\ np # initproc
  BY <1>1, <1>2, <1>4, SlotFacts DEF TableTypes, PipeTypes, TableInv, Alive, Runs
<1>7. TableInv'
  <2>1. \A q \in Slots : Alive(q)' <=> Alive(q)
    BY <1>3 DEF Alive
  <2>2. \A q \in Slots : Forks(q)' => /\ Forks(q) /\ child[q] \in Slots /\ state[child[q]] = "EMBRYO"
                                      /\ q # p => pc'[q] = pc[q] /\ child[q] # np
    BY <1>1, <1>2, <1>4, <1>6 DEF TableInv, Forks
  <2>3. /\ Alive(initproc)' /\ pc'[initproc] # "exit" /\ parent'[initproc] = NULL
        /\ \A q \in Slots : Alive(q)' <=> pc'[q] # "gone"
    BY <1>2, <1>4, <1>6, <2>1, SlotFacts DEF TableInv
  <2>4. \A q \in Slots : Forks(q)' => child'[q] \in Slots /\ state'[child'[q]] = "EMBRYO"
    BY <1>3, <2>2
  <2>5. \A q, r \in Slots : Forks(q)' /\ Forks(r)' /\ child'[q] = child'[r] => q = r
    BY <1>3, <1>4, <2>2 DEF TableInv
  <2>6. \A q \in Slots : pc'[q] = "copy_maps" => parent'[child'[q]] = q
    BY <1>1, <1>3, <1>4, <1>6, <2>2 DEF TableInv, Forks
  <2>7. \A q \in Slots \ {initproc} : Alive(q)' \/ state'[q] = "ZOMBIE" =>
           parent'[q] \in Slots /\ Alive(parent[q])'
    <3> TAKE q \in Slots \ {initproc}
    <3> HAVE Alive(q)' \/ state'[q] = "ZOMBIE"
    <3>1. q # np /\ (Alive(q) \/ state[q] = "ZOMBIE")
      BY <1>1, <1>3, <2>1 DEF Alive
    <3>2. parent'[q] = parent[q] /\ parent[q] \in Slots /\ Alive(parent[q])
      BY <1>4, <1>6, <3>1 DEF TableInv
    <3> QED BY <1>3, <3>2 DEF Alive
  <2>8. ~nomaps' => /\ \A q \in Slots : state'[q] = "UNUSED" => parent'[q] = NULL
                    /\ \A q \in Slots : pc'[q] = "fork" => parent'[child'[q]] = NULL
    BY <1>1, <1>3, <1>4, <1>6, <2>2 DEF TableInv, Forks
  <2>9. \A q \in Slots : parent'[q] # q
    BY <1>4, <1>6 DEF TableInv
  <2> QED BY <1>3, <2>3, <2>4, <2>5, <2>6, <2>7, <2>8, <2>9 DEF TableInv
<1>8. /\ LockInv' /\ SleepInv' /\ DataInv'
      /\ \A q \in Slots : Sleeps(q, "wait")' => /\ Sleeps(q, "wait") /\ chan'[q] = chan[q]
                                                /\ ~killed[q] => ~killed'[q]
  <2>1. closing[p] = NULL
    BY <1>2, <1>4, ClosingFacts
  <2> QED BY <1>1, <1>2, <1>3, <1>6, <2>1, ForkKept
<1>9. FilesInv'
  <2>1. ASSUME NEW e \in Ends PROVE Cardinality(Holders(e)') <= ref'[e] /\ (ref'[e] > 0 => ref[e] > 0)
    <3>1. IsFiniteSet(Holders(e)) /\ Cardinality(Holders(e)) \in Nat
      BY SlotFacts, FS_Subset, FS_CardinalityType DEF Holders
    <3>2. ref[e] \in Nat /\ Cardinality(Holders(e)) <= ref[e]
      BY <1>4 DEF PipeTypes, FilesInv
    <3>3. CASE e \in ofile[p]
      <4>1. Holders(e)' = Holders(e) \cup {np} /\ ref'[e] = ref[e] + 1 /\ ref[e] > 0
        BY <1>2, <1>4, <1>6, <3>3, UserFacts DEF Holders
      <4>2. Cardinality(Holders(e) \cup {np}) <= Cardinality(Holders(e)) + 1
        BY <3>1, AddOne
      <4>3. Cardinality(Holders(e) \cup {np}) \in Nat
        BY <3>1, AddOne
      <4> QED BY <3>1, <3>2, <4>1, <4>2, <4>3
    <3>4. CASE e \notin ofile[p]
      <4>1. Holders(e)' = Holders(e) /\ ref'[e] = ref[e]
        BY <1>2, <1>6, <3>2, <3>4 DEF Holders
      <4> QED BY <3>2, <4>1
    <3> QED BY <3>3, <3>4
  <2>2. \A e \in Ends : Open(e)' = Open(e)
    BY <1>3, PipeSame
  <2>3. \A q \in Slots, e \in Ends : closing[q] = e => ref'[e] = 0 /\ pc'[q] \in {"user", "exit"}
    <3> TAKE q \in Slots, e \in Ends
    <3> HAVE closing[q] = e
    <3>1. ref[e] = 0 /\ pc[q] \in {"user", "exit"} /\ e \notin ofile[p] /\ q # p
      BY <1>2, <1>4, UserFacts DEF FilesInv
    <3> QED BY <1>2, <1>6, <3>1
  <2>4. \A q \in Slots, e \in Ends : Using(q, e)' => e \in ofile'[q]
    BY <1>2, <1>4, <1>6 DEF FilesInv, Using
  <2> QED BY <1>3, <1>4, <2>1, <2>2, <2>3, <2>4 DEF FilesInv
<1>10. WaitInv'
  <2> SUFFICES ASSUME NEW q \in Slots, Sleeps(q, "wait")'
               PROVE  /\ chan'[q] = OnProc(q) /\ Zombies(q)' = {} /\ ~killed'[q]
                      /\ nomaps' \/ \E r \in Kids(q)' : state'[r] # "UNUSED"
    BY DEF WaitInv
  <2>1. chan[q] = OnProc(q) /\ Zombies(q) = {} /\ ~killed[q] /\ Sleeps(q, "wait")
    BY <1>8 DEF Inv, WaitInv
  <2>2. Zombies(q)' \subseteq Zombies(q)
    BY <1>1, <1>3, <1>6 DEF Kids, Zombies
  <2>3. ASSUME ~nomaps PROVE \E r \in Kids(q)' : state'[r] # "UNUSED"
    <3>1. parent[np] = NULL
      BY <1>1, <1>2, <1>4, <2>3 DEF TableInv
    <3>2. PICK r \in Kids(q) : state[r] # "UNUSED"
      BY <2>1, <2>3 DEF Inv, WaitInv
    <3>3. r # np /\ r \in Slots /\ parent[r] = q
      BY <3>1, <3>2, SlotFacts DEF Kids
    <3>4. r \in Kids(q)'
      BY <1>6, <3>3 DEF Kids
    <3> QED BY <1>3, <3>2, <3>4
  <2> QED BY <1>3, <2>1, <2>2, <2>3
<1> QED BY <1>5, <1>7, <1>8, <1>9, <1>10 DEF Inv

\* So does the end of fork, which makes the child runnable.
LEMMA DoneInv ==
    ASSUME Inv, NEW p \in Slots, fork_done(p)
    PROVE  Inv'
<1>1. PICK np \in Slots : np = child[p] /\ state[np] = "EMBRYO"
  BY DEF fork_done, Inv, TableInv, Forks
<1>2. /\ Runs(p) /\ pc[p] = "copy_maps" /\ state' = [state EXCEPT ![np] = "RUNNABLE"]
      /\ pc' = [pc EXCEPT ![p] = "user", ![np] = "user"] /\ child' = [child EXCEPT ![p] = NULL]
  BY <1>1 DEF fork_done
<1>3. UNCHANGED <<pid, parent, chan, killed, nextpid, ofile, ref, pipe, plock, left, closing, sent, got, gaveUp, nomaps>>
  BY DEF fork_done, fvars, hvars
<1>4. TableTypes /\ TableInv
  BY DEF Inv
<1>5. TableTypes' /\ PipeTypes'
  <2>1. state' \in [Slots -> States] /\ pc' \in [Slots -> Places]
    BY <1>2, <1>4 DEF TableTypes, States, Places
  <2>2. child' \in [Slots -> Slots \cup {NULL}]
    BY <1>2, <1>4 DEF TableTypes
  <2> QED BY <1>3, <2>1, <2>2 DEF Inv, TableTypes, PipeTypes
<1>6. /\ state'[np] = "RUNNABLE" /\ \A q \in Slots : q # np => state'[q] = state[q]
      /\ pc'[p] = "user" /\ pc'[np] = "user" /\ \A q \in Slots : q \notin {p, np} => pc'[q] = pc[q]
      /\ \A q \in Slots : q # p => child'[q] = child[q]
      /\ p # np /\ pc[np] = "gone" /\ np # initproc /\ parent[np] = p
  BY <1>1, <1>2, <1>4, SlotFacts DEF TableTypes, TableInv, Alive, Runs
<1>7. TableInv'
  <2>1. \A q \in Slots : /\ Alive(q)' <=> Alive(q) \/ q = np
                         /\ state'[q] = "ZOMBIE" => state[q] = "ZOMBIE"
                         /\ state'[q] = "UNUSED" => state[q] = "UNUSED"
    BY <1>1, <1>6 DEF Alive
  <2>2. \A q \in Slots : Forks(q)' => /\ q # p /\ q # np /\ Forks(q) /\ pc'[q] = pc[q] /\ child'[q] = child[q]
                                      /\ child[q] \in Slots /\ child[q] # np
    BY <1>1, <1>2, <1>4, <1>6 DEF TableInv, Forks
  <2>3. Alive(initproc)' /\ pc'[initproc] # "exit" /\ \A q \in Slots : Alive(q)' <=> pc'[q] # "gone"
    <3>1. Alive(initproc) /\ pc[initproc] # "exit" /\ Alive(p) /\ \A q \in Slots : Alive(q) <=> pc[q] # "gone"
      BY <1>2, <1>4 DEF TableInv, Alive, Runs
    <3>2. ASSUME NEW q \in Slots PROVE Alive(q)' <=> pc'[q] # "gone"
      <4>1. CASE q \in {p, np}
        BY <1>6, <2>1, <3>1, <4>1
      <4>2. CASE q \notin {p, np}
        BY <1>6, <2>1, <3>1, <4>2
      <4> QED BY <4>1, <4>2
    <3>3. pc'[initproc] # "exit"
      BY <1>6, <3>1, SlotFacts
    <3> QED BY <2>1, <3>1, <3>2, <3>3, SlotFacts
  <2>4. \A q \in Slots : Forks(q)' => child'[q] \in Slots /\ state'[child'[q]] = "EMBRYO"
    BY <1>4, <1>6, <2>2 DEF TableInv
  <2>5. \A q, r \in Slots : Forks(q)' /\ Forks(r)' /\ child'[q] = child'[r] => q = r
    BY <1>4, <1>6, <2>2 DEF TableInv
  <2>6. \A q \in Slots : pc'[q] = "copy_maps" => parent'[child'[q]] = q
    BY <1>3, <1>4, <1>6, <2>2 DEF TableInv, Forks
  <2>7. \A q \in Slots \ {initproc} : Alive(q)' \/ state'[q] = "ZOMBIE" =>
           parent'[q] \in Slots /\ Alive(parent[q])'
    <3> TAKE q \in Slots \ {initproc}
    <3> HAVE Alive(q)' \/ state'[q] = "ZOMBIE"
    <3>1. Alive(p)
      BY <1>2 DEF Runs, Alive
    <3>2. parent[q] \in Slots /\ Alive(parent[q])
      BY <1>4, <1>6, <2>1, <3>1 DEF TableInv
    <3> QED BY <1>3, <1>6, <3>2 DEF Alive
  <2>8. ~nomaps' => /\ \A q \in Slots : state'[q] = "UNUSED" => parent'[q] = NULL
                    /\ \A q \in Slots : pc'[q] = "fork" => parent'[child'[q]] = NULL
    BY <1>3, <1>4, <1>6, <2>1, <2>2 DEF TableInv, Forks
  <2> QED BY <1>3, <1>4, <2>3, <2>4, <2>5, <2>6, <2>7, <2>8 DEF TableInv
<1>8. /\ LockInv' /\ SleepInv' /\ DataInv' /\ FilesInv'
      /\ \A q \in Slots : Sleeps(q, "wait")' => /\ Sleeps(q, "wait") /\ chan'[q] = chan[q]
                                                /\ ~killed[q] => ~killed'[q]
  <2>1. closing[p] = NULL
    BY <1>2, ClosingFacts DEF Inv
  <2> QED BY <1>2, <1>3, <1>6, <2>1, ForkKept
<1>9. WaitInv'
  <2>1. \A q \in Slots : /\ state'[q] = "ZOMBIE" => state[q] = "ZOMBIE"
                         /\ state'[q] = "UNUSED" => state[q] = "UNUSED"
    BY <1>6
  <2> QED BY <1>3, <1>8, <2>1, WaitKept DEF Inv
<1> QED BY <1>5, <1>7, <1>8, <1>9 DEF Inv

-----------------------------------------------------------------------------
(* exit and wait *)

\* Who exits wakes its parent, and init if it leaves a zombie.
LEMMA ExitWakes ==
    ASSUME Inv, NEW p \in Slots, exit(p)
    PROVE  /\ state' \in [Slots -> States] /\ state'[p] = "ZOMBIE"
           /\ \A q \in Slots : q # p => \/ state'[q] = state[q]
                                        \/ state[q] = "SLEEPING" /\ state'[q] = "RUNNABLE"
           /\ \A q \in Slots : state'[q] = "SLEEPING" =>
                 /\ chan[q] # OnProc(parent[p])
                 /\ (\E r \in Slots : parent[r] = p /\ state[r] = "ZOMBIE") => chan[q] # OnProc(initproc)
<1> DEFINE st == TellParent(p)
           su == Heirs(p, st)
<1>0. state \in [Slots -> States]
  BY DEF Inv, TableTypes
<1>1. /\ st \in [Slots -> States]
      /\ \A q \in Slots : IF state[q] = "SLEEPING" /\ chan[q] = OnProc(parent[p])
                          THEN st[q] = "RUNNABLE" ELSE st[q] = state[q]
  BY <1>0, WakeFacts DEF TellParent
<1>2. state' = [su EXCEPT ![p] = "ZOMBIE"]
  BY DEF exit
<1> HIDE DEF st
<1>3. /\ su \in [Slots -> States]
      /\ \A q \in Slots : \/ su[q] = st[q]
                          \/ st[q] = "SLEEPING" /\ su[q] = "RUNNABLE"
      /\ (\E r \in Slots : parent[r] = p /\ st[r] = "ZOMBIE") =>
            \A q \in Slots : su[q] = "SLEEPING" => chan[q] # OnProc(initproc)
  <2>1. CASE \E r \in Slots : parent[r] = p /\ st[r] = "ZOMBIE"
    <3>1. su = Wakened(st, OnProc(initproc))
      BY <2>1 DEF Heirs
    <3>2. /\ Wakened(st, OnProc(initproc)) \in [Slots -> States]
          /\ \A q \in Slots : IF st[q] = "SLEEPING" /\ chan[q] = OnProc(initproc)
                              THEN Wakened(st, OnProc(initproc))[q] = "RUNNABLE"
                              ELSE Wakened(st, OnProc(initproc))[q] = st[q]
      BY <1>1, WakeFacts
    <3> HIDE DEF su
    <3>3. su \in [Slots -> States] /\ \A q \in Slots : IF st[q] = "SLEEPING" /\ chan[q] = OnProc(initproc)
                                                       THEN su[q] = "RUNNABLE" ELSE su[q] = st[q]
      BY <3>1, <3>2
    <3>4. \A q \in Slots : su[q] = "SLEEPING" => chan[q] # OnProc(initproc)
      BY <3>3
    <3> QED BY <3>3, <3>4
  <2>2. CASE ~(\E r \in Slots : parent[r] = p /\ st[r] = "ZOMBIE")
    <3>1. su = st
      BY <2>2 DEF Heirs
    <3> HIDE DEF su
    <3> QED BY <1>1, <2>2, <3>1
  <2> QED BY <2>1, <2>2
<1> HIDE DEF su
<1>4. /\ state' \in [Slots -> States] /\ state'[p] = "ZOMBIE"
      /\ \A q \in Slots : q # p => state'[q] = su[q]
  BY <1>2, <1>3 DEF States
<1>5. \A q \in Slots : q # p => \/ state'[q] = state[q]
                                \/ state[q] = "SLEEPING" /\ state'[q] = "RUNNABLE"
  BY <1>1, <1>3, <1>4
<1>6. ASSUME NEW q \in Slots, state'[q] = "SLEEPING"
      PROVE  /\ chan[q] # OnProc(parent[p])
             /\ (\E r \in Slots : parent[r] = p /\ state[r] = "ZOMBIE") => chan[q] # OnProc(initproc)
  <2>1. q # p /\ su[q] = "SLEEPING" /\ st[q] = "SLEEPING" /\ state[q] = "SLEEPING"
    BY <1>1, <1>3, <1>4, <1>6
  <2>2. chan[q] # OnProc(parent[p])
    BY <1>1, <2>1
  <2>3. \A r \in Slots : state[r] = "ZOMBIE" => st[r] = "ZOMBIE"
    BY <1>1
  <2> QED BY <1>3, <2>1, <2>2, <2>3
<1> QED BY <1>4, <1>5, <1>6

\* So does the end of exit, which passes the children on to init.
LEMMA ExitInv ==
    ASSUME Inv, NEW p \in Slots, exit(p)
    PROVE  Inv'
<1>1. /\ Runs(p) /\ pc[p] = "exit" /\ closing[p] = NULL /\ p # initproc
      /\ parent' = [q \in Slots |-> IF parent[q] = p THEN initproc ELSE parent[q]]
      /\ pc' = [pc EXCEPT ![p] = "gone"]
  BY DEF exit, PassChildren, Inv, TableInv
<1>2. UNCHANGED <<pid, chan, killed, nextpid, ofile, ref, pipe, plock, left, child, closing, sent, got, gaveUp, nomaps>>
  BY DEF exit, fvars, hvars
<1>3. TableTypes /\ TableInv
  BY DEF Inv
<1>4. /\ state' \in [Slots -> States] /\ state'[p] = "ZOMBIE"
      /\ \A q \in Slots : q # p => \/ state'[q] = state[q]
                                   \/ state[q] = "SLEEPING" /\ state'[q] = "RUNNABLE"
  BY ExitWakes
<1>5. TableTypes' /\ PipeTypes'
  <2>1. pc' \in [Slots -> Places]
    BY <1>1, <1>3 DEF TableTypes, Places
  <2>2. parent' \in [Slots -> Slots \cup {NULL}]
    BY <1>1, <1>3, SlotFacts DEF TableTypes
  <2> QED BY <1>2, <1>4, <2>1, <2>2 DEF Inv, TableTypes, PipeTypes
<1>6. /\ \A q \in Slots : parent'[q] = IF parent[q] = p THEN initproc ELSE parent[q]
      /\ pc'[p] = "gone" /\ \A q \in Slots : q # p => pc'[q] = pc[q]
  BY <1>1, <1>3 DEF TableTypes
<1>7. TableInv'
  <2>1. \A q \in Slots : /\ Alive(q)' <=> Alive(q) /\ q # p
                         /\ state[q] = "EMBRYO" => q # p /\ state'[q] = "EMBRYO"
                         /\ state'[q] = "ZOMBIE" => q = p \/ state[q] = "ZOMBIE"
                         /\ state'[q] = "UNUSED" => state[q] = "UNUSED"
    BY <1>1, <1>4 DEF Alive, Runs
  <2>2. \A q \in Slots : Forks(q)' => /\ q # p /\ Forks(q) /\ pc'[q] = pc[q]
                                      /\ child[q] \in Slots /\ state[child[q]] = "EMBRYO"
    BY <1>3, <1>6 DEF TableInv, Forks
  <2>3. /\ Alive(initproc)' /\ pc'[initproc] # "exit" /\ parent'[initproc] = NULL
        /\ \A q \in Slots : Alive(q)' <=> pc'[q] # "gone"
    BY <1>1, <1>3, <1>6, <2>1, SlotFacts DEF TableInv
  <2>4. \A q \in Slots : Forks(q)' => child'[q] \in Slots /\ state'[child'[q]] = "EMBRYO"
    BY <1>2, <2>1, <2>2
  <2>5. \A q, r \in Slots : Forks(q)' /\ Forks(r)' /\ child'[q] = child'[r] => q = r
    BY <1>2, <1>3, <2>2 DEF TableInv
  <2>6. \A q \in Slots : pc'[q] = "copy_maps" => parent'[child'[q]] = q
    BY <1>2, <1>3, <1>6, <2>2 DEF TableInv, Forks
  <2>7. \A q \in Slots \ {initproc} : Alive(q)' \/ state'[q] = "ZOMBIE" =>
           parent'[q] \in Slots /\ Alive(parent[q])'
    <3> TAKE q \in Slots \ {initproc}
    <3> HAVE Alive(q)' \/ state'[q] = "ZOMBIE"
    <3>1. Alive(q) \/ state[q] = "ZOMBIE"
      BY <1>1, <2>1 DEF Alive, Runs
    <3>2. parent[q] \in Slots /\ Alive(parent[q]) /\ Alive(initproc)
      BY <1>3, <3>1 DEF TableInv
    <3>3. PICK r \in Slots : r = parent'[q] /\ Alive(r) /\ r # p
      BY <1>1, <1>6, <3>2, SlotFacts
    <3>4. Alive(r)'
      BY <2>1, <3>3
    <3> QED BY <3>3, <3>4 DEF Alive
  <2>8. ~nomaps' => /\ \A q \in Slots : state'[q] = "UNUSED" => parent'[q] = NULL
                    /\ \A q \in Slots : pc'[q] = "fork" => parent'[child'[q]] = NULL
    <3> HAVE ~nomaps'
    <3>1. /\ \A q \in Slots : state[q] = "UNUSED" => parent[q] = NULL
          /\ \A q \in Slots : pc[q] = "fork" => parent[child[q]] = NULL
      BY <1>2, <1>3 DEF TableInv
    <3>2. \A q \in Slots : parent[q] = NULL => parent'[q] = NULL
      BY <1>6, SlotFacts
    <3>3. \A q \in Slots : state'[q] = "UNUSED" => parent'[q] = NULL
      BY <1>6, <2>1, <3>1, <3>2
    <3>4. \A q \in Slots : pc'[q] = "fork" => pc[q] = "fork" /\ child'[q] = child[q] /\ child[q] \in Slots
      BY <1>2, <1>3, <2>2 DEF Forks
    <3> QED BY <3>1, <3>2, <3>3, <3>4
  <2>9. \A q \in Slots : parent'[q] # q
    BY <1>3, <1>6, SlotFacts DEF TableInv
  <2> QED BY <2>3, <2>4, <2>5, <2>6, <2>7, <2>8, <2>9 DEF TableInv
<1>8. FilesInv'
  <2>1. \A q \in Slots, e \in Ends : Using(q, e)' => Using(q, e)
    BY <1>6 DEF Using
  <2>2. \A q \in Slots : pc'[q] = pc[q] \/ closing[q] = NULL
    BY <1>1, <1>6
  <2> QED BY <1>2, <2>1, <2>2, PipeSame, FilesKept DEF Inv
<1>9. LockInv'
  <2>1. \A q \in Slots : pc'[q] \in {"rsleep", "wsleep"} <=> pc[q] \in {"rsleep", "wsleep"}
    BY <1>1, <1>6
  <2>2. \A q \in Slots : Runs(q) /\ plock = q => Runs(q)'
    BY <1>1, <1>4 DEF Runs, Inv, LockInv
  <2> QED BY <1>2, <2>1, <2>2, LockKept DEF Inv
<1>10. SleepInv'
  <2>1. \A q \in Slots : pc'[q] \in {"rsleep", "wsleep"} => pc'[q] = pc[q]
    BY <1>6
  <2>2. \A q \in Slots : state'[q] = "SLEEPING" => state[q] = "SLEEPING" /\ pc'[q] = pc[q] /\ chan'[q] = chan[q]
    BY <1>2, <1>4, <1>6
  <2> QED BY <1>2, <2>1, <2>2, SleepKept DEF Inv
<1>11. DataInv'
  BY <1>2, DataKept DEF Inv
<1>12. WaitInv'
  <2> SUFFICES ASSUME NEW q \in Slots, Sleeps(q, "wait")'
               PROVE  /\ chan'[q] = OnProc(q) /\ Zombies(q)' = {} /\ ~killed'[q]
                      /\ nomaps' \/ \E r \in Kids(q)' : state'[r] # "UNUSED"
    BY DEF WaitInv
  <2>1. q # p /\ Sleeps(q, "wait") /\ state'[q] = "SLEEPING"
    BY <1>4, <1>6 DEF Sleeps
  <2>2. chan[q] = OnProc(q) /\ Zombies(q) = {} /\ ~killed[q]
    BY <2>1 DEF Inv, WaitInv
  <2>3. q # parent[p] /\ ((\E r \in Slots : parent[r] = p /\ state[r] = "ZOMBIE") => q # initproc)
    BY <2>1, <2>2, ExitWakes
  <2>4. ASSUME NEW r \in Slots, parent'[r] = q, state'[r] = "ZOMBIE" PROVE FALSE
    <3>1. CASE r = p
      BY <1>3, <1>6, <2>3, <2>4, <3>1 DEF TableInv
    <3>2. CASE r # p
      <4>1. state[r] = "ZOMBIE"
        BY <1>4, <2>4, <3>2
      <4>2. parent[r] # p
        BY <1>6, <2>3, <2>4, <4>1
      <4>3. r \in Zombies(q)
        BY <1>6, <2>4, <4>1, <4>2 DEF Zombies, Kids
      <4> QED BY <2>2, <4>3
    <3> QED BY <3>1, <3>2
  <2>5. Zombies(q)' = {}
    BY <2>4 DEF Zombies, Kids
  <2>6. ASSUME ~nomaps PROVE \E r \in Kids(q)' : state'[r] # "UNUSED"
    <3>1. PICK r \in Kids(q) : state[r] # "UNUSED"
      BY <2>1, <2>6 DEF Inv, WaitInv
    <3>2. r \in Slots /\ parent'[r] = q /\ state'[r] # "UNUSED"
      BY <1>4, <1>6, <2>1, <3>1 DEF Kids
    <3> QED BY <3>2 DEF Kids
  <2> QED BY <1>2, <2>2, <2>5, <2>6
<1> QED BY <1>5, <1>7, <1>8, <1>9, <1>10, <1>11, <1>12 DEF Inv

\* wait finds a zombie.
LEMMA ReapInv ==
    ASSUME Inv, NEW p \in Slots, wait(p), Zombies(p) # {}
    PROVE  Inv'
<1>1. PICK z \in Slots : z = FirstOf(Zombies(p)) /\ parent[z] = p /\ state[z] = "ZOMBIE"
  <2>1. Zombies(p) \in SUBSET Slots
    BY DEF Zombies, Kids
  <2>2. FirstOf(Zombies(p)) \in Zombies(p)
    BY <2>1, FirstFacts
  <2> QED BY <2>2 DEF Zombies, Kids
<1>2. /\ Runs(p) /\ pc[p] = "wait"
      /\ state' = [state EXCEPT ![z] = "UNUSED"] /\ pid' = [pid EXCEPT ![z] = 0]
      /\ parent' = [parent EXCEPT ![z] = NULL] /\ killed' = [killed EXCEPT ![z] = FALSE]
      /\ pc' = [pc EXCEPT ![p] = "user"] /\ UNCHANGED chan
  BY <1>1 DEF wait
<1>3. UNCHANGED <<chan, nextpid, ofile, ref, pipe, plock, left, child, closing, sent, got, gaveUp, nomaps>>
  BY <1>2 DEF wait, fvars, hvars
<1>4. TableTypes /\ TableInv
  BY DEF Inv
<1>5. TableTypes' /\ PipeTypes'
  <2>1. state' \in [Slots -> States] /\ pc' \in [Slots -> Places] /\ pid' \in [Slots -> Nat]
    BY <1>2, <1>4 DEF TableTypes, Places, States
  <2>2. parent' \in [Slots -> Slots \cup {NULL}]
    BY <1>2, <1>4 DEF TableTypes
  <2>3. killed' \in [Slots -> BOOLEAN]
    BY <1>2, <1>4 DEF TableTypes
  <2> QED BY <1>3, <2>1, <2>2, <2>3 DEF Inv, TableTypes, PipeTypes
<1>6. /\ state'[z] = "UNUSED" /\ \A q \in Slots : q # z => state'[q] = state[q]
      /\ parent'[z] = NULL /\ \A q \in Slots : q # z => parent'[q] = parent[q]
      /\ pc'[p] = "user" /\ \A q \in Slots : q # p => pc'[q] = pc[q]
      /\ z # p /\ z # initproc
  BY <1>1, <1>2, <1>4 DEF TableTypes, TableInv, Runs, Alive
<1>7. \A q \in Slots : q # z => killed'[q] = killed[q]
  BY <1>2, <1>4 DEF TableTypes
<1>8. TableInv'
  <2>1. \A q \in Slots : /\ Alive(q)' <=> Alive(q)
                         /\ state[q] = "EMBRYO" => q # z /\ state'[q] = "EMBRYO"
                         /\ state'[q] = "ZOMBIE" => q # z /\ state[q] = "ZOMBIE"
                         /\ state'[q] = "UNUSED" => q = z \/ state[q] = "UNUSED"
    BY <1>1, <1>6 DEF Alive
  <2>2. \A q \in Slots : Forks(q)' => /\ q # p /\ Forks(q) /\ pc'[q] = pc[q]
                                      /\ child[q] \in Slots /\ state[child[q]] = "EMBRYO"
    BY <1>4, <1>6 DEF TableInv, Forks
  <2>3. /\ Alive(initproc)' /\ pc'[initproc] # "exit" /\ parent'[initproc] = NULL
        /\ \A q \in Slots : Alive(q)' <=> pc'[q] # "gone"
    BY <1>2, <1>4, <1>6, <2>1, SlotFacts DEF TableInv
  <2>4. \A q \in Slots : Forks(q)' => child'[q] \in Slots /\ state'[child'[q]] = "EMBRYO"
    BY <1>3, <2>1, <2>2
  <2>5. \A q, r \in Slots : Forks(q)' /\ Forks(r)' /\ child'[q] = child'[r] => q = r
    BY <1>3, <1>4, <2>2 DEF TableInv
  <2>6. \A q \in Slots : pc'[q] = "copy_maps" => parent'[child'[q]] = q
    BY <1>3, <1>4, <1>6, <2>1, <2>2 DEF TableInv, Forks
  <2>7. \A q \in Slots \ {initproc} : Alive(q)' \/ state'[q] = "ZOMBIE" =>
           parent'[q] \in Slots /\ Alive(parent[q])'
    <3> TAKE q \in Slots \ {initproc}
    <3> HAVE Alive(q)' \/ state'[q] = "ZOMBIE"
    <3>1. q # z /\ (Alive(q) \/ state[q] = "ZOMBIE")
      BY <1>1, <2>1 DEF Alive
    <3>2. parent'[q] = parent[q] /\ parent[q] \in Slots /\ Alive(parent[q])
      BY <1>4, <1>6, <3>1 DEF TableInv
    <3>3. parent[q] # z
      BY <1>1, <3>2 DEF Alive
    <3> QED BY <1>6, <3>2, <3>3 DEF Alive
  <2>8. ~nomaps' => /\ \A q \in Slots : state'[q] = "UNUSED" => parent'[q] = NULL
                    /\ \A q \in Slots : pc'[q] = "fork" => parent'[child'[q]] = NULL
    <3> HAVE ~nomaps'
    <3>1. /\ \A q \in Slots : state[q] = "UNUSED" => parent[q] = NULL
          /\ \A q \in Slots : pc[q] = "fork" => parent[child[q]] = NULL
      BY <1>3, <1>4 DEF TableInv
    <3>2. \A q \in Slots : parent[q] = NULL => parent'[q] = NULL
      BY <1>6, SlotFacts
    <3>3. \A q \in Slots : state'[q] = "UNUSED" => parent'[q] = NULL
      BY <1>6, <2>1, <3>1, <3>2
    <3>4. \A q \in Slots : pc'[q] = "fork" => pc[q] = "fork" /\ child'[q] = child[q] /\ child[q] \in Slots
      BY <1>3, <1>4, <2>2 DEF Forks
    <3> QED BY <3>1, <3>2, <3>3, <3>4
  <2>9. \A q \in Slots : parent'[q] # q
    BY <1>4, <1>6, SlotFacts DEF TableInv
  <2> QED BY <2>3, <2>4, <2>5, <2>6, <2>7, <2>8, <2>9 DEF TableInv
<1>9. FilesInv'
  <2>1. \A q \in Slots, e \in Ends : Using(q, e)' => Using(q, e)
    BY <1>6 DEF Using
  <2>2. \A q \in Slots : pc'[q] = pc[q] \/ closing[q] = NULL
    BY <1>2, <1>6, ClosingFacts DEF Inv
  <2> QED BY <1>3, <2>1, <2>2, PipeSame, FilesKept DEF Inv
<1>10. LockInv'
  <2>1. \A q \in Slots : pc'[q] \in {"rsleep", "wsleep"} <=> pc[q] \in {"rsleep", "wsleep"}
    BY <1>2, <1>6
  <2>2. \A q \in Slots : Runs(q) /\ plock = q => Runs(q)'
    BY <1>1, <1>6 DEF Runs
  <2> QED BY <1>3, <2>1, <2>2, LockKept DEF Inv
<1>11. \A q \in Slots : state'[q] = "SLEEPING" => /\ state[q] = "SLEEPING" /\ pc'[q] = pc[q]
                                                  /\ chan'[q] = chan[q] /\ q # z /\ q # p
  BY <1>2, <1>3, <1>6 DEF Runs
<1>12. SleepInv'
  <2>1. \A q \in Slots : pc'[q] \in {"rsleep", "wsleep"} => pc'[q] = pc[q]
    BY <1>6
  <2> QED BY <1>3, <1>11, <2>1, SleepKept DEF Inv
<1>13. DataInv'
  BY <1>3, DataKept DEF Inv
<1>14. WaitInv'
  <2> SUFFICES ASSUME NEW q \in Slots, Sleeps(q, "wait")'
               PROVE  /\ chan'[q] = OnProc(q) /\ Zombies(q)' = {} /\ ~killed'[q]
                      /\ nomaps' \/ \E r \in Kids(q)' : state'[r] # "UNUSED"
    BY DEF WaitInv
  <2>1. Sleeps(q, "wait") /\ q # p /\ q # z
    BY <1>11 DEF Sleeps
  <2>2. chan[q] = OnProc(q) /\ Zombies(q) = {} /\ ~killed[q]
    BY <2>1 DEF Inv, WaitInv
  <2>3. Kids(q)' = Kids(q) /\ z \notin Kids(q)
    BY <1>1, <1>6, <2>1, SlotFacts DEF Kids
  <2>4. Zombies(q)' \subseteq Zombies(q)
    BY <1>6, <2>3 DEF Zombies, Kids
  <2>5. ASSUME ~nomaps PROVE \E r \in Kids(q)' : state'[r] # "UNUSED"
    <3>1. PICK r \in Kids(q) : state[r] # "UNUSED"
      BY <2>1, <2>5 DEF Inv, WaitInv
    <3>2. r \in Slots /\ r # z
      BY <2>3, <3>1 DEF Kids
    <3> QED BY <1>6, <2>3, <3>1, <3>2
  <2> QED BY <1>3, <1>7, <2>1, <2>2, <2>4, <2>5
<1> QED BY <1>5, <1>8, <1>9, <1>10, <1>12, <1>13, <1>14 DEF Inv

\* wait finds nothing, or goes to sleep.
LEMMA WaitsInv ==
    ASSUME Inv, NEW p \in Slots, wait(p), Zombies(p) = {}
    PROVE  Inv'
<1>1. Runs(p) /\ pc[p] = "wait" /\ closing[p] = NULL
  BY ClosingFacts DEF wait, Inv
<1>2. UNCHANGED <<pid, parent, killed, nextpid, ofile, ref, pipe, plock, left, child, closing, sent, got, gaveUp, nomaps>>
  BY DEF wait, fvars, hvars
<1>3. CASE UNCHANGED <<state, chan>> /\ pc' = [pc EXCEPT ![p] = "user"]
  <2>1. pc' \in [Slots -> Places] /\ pc'[p] = "user" /\ \A q \in Slots : q # p => pc'[q] = pc[q]
    BY <1>3 DEF Inv, TableTypes, Places
  <2>2. TableTypes' /\ PipeTypes'
    BY <1>2, <1>3, <2>1 DEF Inv, TableTypes, PipeTypes
  <2>3. \A q \in Slots : pc'[q] = pc[q] \/ Moves(q)
    BY <1>1, <1>3, <2>1 DEF Moves, Runs
  <2> QED BY <1>2, <1>3, <2>2, <2>3, Quiet
<1>4. CASE /\ Kids(p) # {} /\ ~killed[p] /\ UNCHANGED pc
           /\ state' = [state EXCEPT ![p] = "SLEEPING"] /\ chan' = [chan EXCEPT ![p] = OnProc(p)]
  <2>1. /\ state' \in [Slots -> States] /\ chan' \in [Slots -> Chans]
        /\ state'[p] = "SLEEPING" /\ chan'[p] = OnProc(p)
        /\ \A q \in Slots : q # p => state'[q] = state[q] /\ chan'[q] = chan[q]
    BY <1>4, ChanFacts DEF Inv, TableTypes, States
  <2>2. TableTypes' /\ PipeTypes'
    BY <1>2, <1>4, <2>1 DEF Inv, TableTypes, PipeTypes
  <2>3. TableInv'
    <3>1. \A q \in Slots : state'[q] = state[q] \/ (Alive(q) /\ Alive(q)')
      BY <1>1, <2>1 DEF Runs, Alive
    <3> QED BY <1>2, <1>4, <2>2, <3>1, TableKept DEF Inv
  <2>4. FilesInv'
    <3>1. \A q \in Slots, e \in Ends : Using(q, e)' => Using(q, e)
      BY <1>4 DEF Using
    <3> QED BY <1>2, <1>4, <3>1, PipeSame, FilesKept DEF Inv
  <2>5. LockInv'
    <3>1. plock # p
      BY <1>1 DEF Inv, LockInv
    <3>2. \A q \in Slots : Runs(q) /\ plock = q => Runs(q)'
      BY <2>1, <3>1 DEF Runs
    <3> QED BY <1>2, <1>4, <3>2, LockKept DEF Inv
  <2>6. SleepInv'
    <3>1. \A q \in Slots : state'[q] = "SLEEPING" =>
             \/ pc'[q] = "wait"
             \/ state[q] = "SLEEPING" /\ pc'[q] = pc[q] /\ chan'[q] = chan[q]
      BY <1>1, <1>4, <2>1
    <3> QED BY <1>2, <1>4, <3>1, SleepKept DEF Inv
  <2>7. DataInv'
    BY <1>2, DataKept DEF Inv
  <2>8. WaitInv'
    <3> SUFFICES ASSUME NEW q \in Slots, Sleeps(q, "wait")'
                 PROVE  /\ chan'[q] = OnProc(q) /\ Zombies(q)' = {} /\ ~killed'[q]
                        /\ nomaps' \/ \E r \in Kids(q)' : state'[r] # "UNUSED"
      BY DEF WaitInv
    <3>1. Kids(q)' = Kids(q) /\ Zombies(q)' \subseteq Zombies(q)
      BY <1>2, <2>1 DEF Kids, Zombies
    <3>2. /\ chan'[q] = OnProc(q) /\ Zombies(q) = {} /\ ~killed[q]
          /\ nomaps \/ \E r \in Kids(q) : state[r] # "UNUSED"
      <4>1. CASE q = p
        <5>1. PICK r \in Kids(p) : TRUE
          BY <1>4
        <5>2. ~nomaps => state[r] # "UNUSED"
          BY SlotFacts DEF Kids, Inv, TableInv
        <5> QED BY <1>4, <2>1, <4>1, <5>2
      <4>2. CASE q # p
        <5>1. Sleeps(q, "wait") /\ chan'[q] = chan[q]
          BY <1>4, <2>1, <4>2 DEF Sleeps
        <5> QED BY <5>1 DEF Inv, WaitInv
      <4> QED BY <4>1, <4>2
    <3>3. \A r \in Kids(q) : state[r] # "UNUSED" => state'[r] # "UNUSED"
      BY <2>1 DEF Kids
    <3> QED BY <1>2, <3>1, <3>2, <3>3
  <2> QED BY <2>2, <2>3, <2>4, <2>5, <2>6, <2>7, <2>8 DEF Inv
<1> QED BY <1>3, <1>4 DEF wait

-----------------------------------------------------------------------------
(* The pipe *)

\* The table and the sleepers in wait when a process goes on in the kernel,
\* and wakes others or not.
LEMMA KernelKept ==
    ASSUME Inv, TableTypes', NEW p \in Slots,
           UNCHANGED <<parent, chan, killed, child, nomaps>>,
           \A q \in Slots : \/ state'[q] = state[q]
                            \/ state[q] = "SLEEPING" /\ state'[q] = "RUNNABLE",
           \A q \in Slots : q # p => pc'[q] = pc[q],
           \/ pc'[p] = pc[p]
           \/ /\ pc[p] \in {"read", "write", "rsleep", "wsleep"}
              /\ pc'[p] \in {"user", "read", "write", "rsleep", "wsleep"}
    PROVE  TableInv' /\ WaitInv'
<1>1. TableInv'
  <2>1. \A q \in Slots : state'[q] = state[q] \/ (Alive(q) /\ Alive(q)')
    BY DEF Alive
  <2>2. \A q \in Slots : \/ pc'[q] = pc[q]
                         \/ /\ ~Forks(q) /\ pc[q] # "gone" /\ pc'[q] \notin {"gone", "fork", "copy_maps"}
                            /\ pc'[q] = "exit" => q # initproc
    BY DEF Forks
  <2> QED BY <2>1, <2>2, TableKept DEF Inv
<1>2. WaitInv'
  <2>1. \A q \in Slots : Sleeps(q, "wait")' => /\ Sleeps(q, "wait") /\ chan'[q] = chan[q]
                                               /\ ~killed[q] => ~killed'[q]
    BY DEF Sleeps
  <2>2. \A q \in Slots : /\ state'[q] = "ZOMBIE" => state[q] = "ZOMBIE"
                         /\ state'[q] = "UNUSED" => state[q] = "UNUSED"
    OBVIOUS
  <2> QED BY <2>1, <2>2, WaitKept DEF Inv
<1> QED BY <1>1, <1>2

\* So does sleep: what it waits for has not happened since the test.
LEMMA SleepingInv ==
    ASSUME Inv, NEW p \in Slots, sleep(p)
    PROVE  Inv'
<1>1. /\ Runs(p) /\ pc[p] \in {"rsleep", "wsleep"} /\ plock' = NULL
      /\ state' = [state EXCEPT ![p] = "SLEEPING"]
      /\ chan' = [chan EXCEPT ![p] = IF pc[p] = "rsleep" THEN OnRead ELSE OnWrite]
      /\ pc' = [pc EXCEPT ![p] = IF pc[p] = "rsleep" THEN "read" ELSE "write"]
  BY DEF sleep
<1>2. UNCHANGED <<pid, parent, killed, nextpid, ofile, ref, pipe, left, child, closing, sent, got, gaveUp, nomaps>>
  BY DEF sleep, fvars, hvars
<1>3. /\ state' \in [Slots -> States] /\ chan' \in [Slots -> Chans] /\ pc' \in [Slots -> Places]
      /\ state'[p] = "SLEEPING"
      /\ \/ pc[p] = "rsleep" /\ pc'[p] = "read" /\ chan'[p] = OnRead
         \/ pc[p] = "wsleep" /\ pc'[p] = "write" /\ chan'[p] = OnWrite
      /\ \A q \in Slots : q # p => state'[q] = state[q] /\ chan'[q] = chan[q] /\ pc'[q] = pc[q]
  <2>1. state \in [Slots -> States] /\ chan \in [Slots -> Chans] /\ pc \in [Slots -> Places]
    BY DEF Inv, TableTypes
  <2>2. state' \in [Slots -> States] /\ state'[p] = "SLEEPING" /\ \A q \in Slots : q # p => state'[q] = state[q]
    BY <1>1, <2>1 DEF States
  <2>3. CASE pc[p] = "rsleep"
    BY <1>1, <2>1, <2>2, <2>3, ChanFacts DEF Places
  <2>4. CASE pc[p] = "wsleep"
    BY <1>1, <2>1, <2>2, <2>4, ChanFacts DEF Places
  <2> QED BY <1>1, <2>3, <2>4
<1>4. TableTypes' /\ PipeTypes'
  BY <1>1, <1>2, <1>3 DEF Inv, TableTypes, PipeTypes
<1>5. TableInv'
  <2>1. \A q \in Slots : state'[q] = state[q] \/ (Alive(q) /\ Alive(q)')
    BY <1>1, <1>3 DEF Runs, Alive
  <2>2. \A q \in Slots : \/ pc'[q] = pc[q]
                         \/ /\ ~Forks(q) /\ pc[q] # "gone" /\ pc'[q] \notin {"gone", "fork", "copy_maps"}
                            /\ pc'[q] = "exit" => q # initproc
    BY <1>3 DEF Forks
  <2> QED BY <1>2, <1>4, <2>1, <2>2, TableKept DEF Inv
<1>6. FilesInv'
  <2>1. \A q \in Slots, e \in Ends : Using(q, e)' => Using(q, e)
    BY <1>3 DEF Using
  <2>2. \A q \in Slots : pc'[q] = pc[q] \/ closing[q] = NULL
    BY <1>1, <1>3, ClosingFacts DEF Inv
  <2> QED BY <1>2, <2>1, <2>2, PipeSame, FilesKept DEF Inv
<1>7. LockInv'
  <2>1. plock = p /\ \A q \in Slots : q # p => pc[q] \notin {"rsleep", "wsleep"}
    BY <1>1 DEF Inv, LockInv
  <2>2. \A q \in Slots : pc'[q] \notin {"rsleep", "wsleep"}
    BY <1>3, <2>1
  <2> QED BY <1>1, <2>2, SlotFacts DEF LockInv
<1>8. WaitInv'
  <2>1. \A q \in Slots : Sleeps(q, "wait")' => /\ Sleeps(q, "wait") /\ chan'[q] = chan[q]
                                               /\ ~killed[q] => ~killed'[q]
    BY <1>2, <1>3 DEF Sleeps
  <2>2. \A q \in Slots : /\ state'[q] = "ZOMBIE" => state[q] = "ZOMBIE"
                         /\ state'[q] = "UNUSED" => state[q] = "UNUSED"
    BY <1>3
  <2> QED BY <1>2, <2>1, <2>2, WaitKept DEF Inv
<1>9. SleepInv'
  <2>1. Drained' = Drained /\ Filled' = Filled /\ SleepInv
    BY <1>2 DEF Drained, Filled, Empty, Room, Used, Inv
  <2> SUFFICES ASSUME NEW q \in Slots
               PROVE  /\ state'[q] = "SLEEPING" => pc'[q] \in {"wait", "read", "write"}
                      /\ pc'[q] = "rsleep" => Drained
                      /\ pc'[q] = "wsleep" => Filled
                      /\ Sleeps(q, "read")' => chan'[q] = OnRead /\ (gaveUp \/ Drained)
                      /\ Sleeps(q, "write")' => chan'[q] = OnWrite /\ Filled
    BY <1>2, <2>1 DEF SleepInv
  <2>2. CASE q = p
    BY <1>3, <2>1, <2>2 DEF SleepInv, Sleeps
  <2>3. CASE q # p
    BY <1>3, <2>1, <2>3 DEF SleepInv, Sleeps
  <2> QED BY <2>2, <2>3
<1>10. DataInv'
  BY <1>2, DataKept DEF Inv
<1> QED BY <1>4, <1>5, <1>6, <1>7, <1>8, <1>9, <1>10 DEF Inv

\* Nobody is at the pipe while there is none.
LEMMA NoPipe ==
    ASSUME Inv, pipe = NULL
    PROVE  /\ \A q \in Slots : closing[q] = NULL
           /\ \A q \in Slots : pc[q] \notin {"read", "rsleep", "write", "wsleep"}
           /\ \A e \in Ends : ref[e] = 0
<1>1. \A e \in Ends : ~Open(e)
  BY DEF Open
<1>2. \A q \in Slots, e \in Ends : ~Using(q, e) /\ closing[q] # e
  BY <1>1, UserFacts DEF Inv, FilesInv
<1>3. \A q \in Slots : closing[q] = NULL
  BY <1>2 DEF Inv, PipeTypes
<1>4. \A q \in Slots : pc[q] \notin {"read", "rsleep", "write", "wsleep"}
  BY <1>2 DEF Using, Ends
<1>5. \A e \in Ends : ref[e] = 0
  BY <1>1 DEF Inv, FilesInv, PipeTypes
<1> QED BY <1>3, <1>4, <1>5

\* So does pipealloc.
LEMMA PipeallocInv ==
    ASSUME Inv, NEW p \in Slots, pipealloc(p)
    PROVE  Inv'
<1>1. /\ pipe = NULL /\ sent = 0 /\ ref' = [e \in Ends |-> 1] /\ ofile' = [ofile EXCEPT ![p] = Ends]
      /\ pipe' = [data |-> [i \in 0..(PIPESIZE - 1) |-> 0], nread |-> 0, nwrite |-> 0,
                  readopen |-> TRUE, writeopen |-> TRUE]
  BY DEF pipealloc
<1>2. UNCHANGED <<state, pid, parent, chan, killed, nextpid, plock, pc, left, child, closing, sent, got, gaveUp, nomaps>>
  BY DEF pipealloc, tvars, lvars, hvars
<1>3. pipe' \in Pipes /\ pipe' # NULL
  <2> DEFINE d == [i \in 0..(PIPESIZE - 1) |-> 0]
  <2>1. d \in [0..(PIPESIZE - 1) -> Nat]
    OBVIOUS
  <2> HIDE DEF d
  <2>2. [data |-> d, nread |-> 0, nwrite |-> 0, readopen |-> TRUE, writeopen |-> TRUE] \in Pipes
    BY <2>1 DEF Pipes
  <2>3. pipe' \in Pipes
    BY <1>1, <2>2 DEF d
  <2> QED BY <2>3, SlotFacts
<1>4. ofile' \in [Slots -> SUBSET Ends] /\ ref' \in [Ends -> Nat]
  BY <1>1 DEF Inv, PipeTypes
<1>5. TableTypes' /\ PipeTypes'
  BY <1>2, <1>3, <1>4 DEF Inv, TableTypes, PipeTypes
<1>6. /\ ofile'[p] = Ends /\ \A q \in Slots : q # p => ofile'[q] = ofile[q]
      /\ \A e \in Ends : ref'[e] = 1
  BY <1>1 DEF Inv, PipeTypes
<1>7. TableInv' /\ WaitInv'
  BY <1>2, <1>5, KernelKept
<1>8. LockInv'
  BY <1>2 DEF Inv, LockInv, Runs
<1>9. FilesInv'
  <2>1. \A e \in Ends : Open(e)'
    BY <1>1, <1>3 DEF Open
  <2>2. ASSUME NEW e \in Ends PROVE Cardinality(Holders(e)') <= ref'[e]
    <3>1. \A q \in Slots : e \notin ofile[q]
      <4>1. ref[e] = 0
        BY <1>1, NoPipe
      <4> QED BY <4>1, UserFacts DEF Inv
    <3>2. Holders(e)' = {p}
      BY <1>6, <3>1 DEF Holders
    <3>3. Cardinality({p}) = 1
      BY FS_Singleton
    <3> QED BY <1>6, <3>2, <3>3
  <2>3. \A q \in Slots, e \in Ends : closing'[q] # e
    BY <1>1, <1>2, NoPipe, SlotFacts
  <2>4. \A q \in Slots, e \in Ends : ~Using(q, e)'
    BY <1>1, <1>2, NoPipe DEF Using
  <2>5. \A q \in Slots : closing'[q] = NULL
    BY <1>1, <1>2, NoPipe
  <2> QED BY <2>1, <2>2, <2>3, <2>4, <2>5 DEF FilesInv
<1>10. SleepInv'
  BY <1>1, <1>2, NoPipe DEF Inv, SleepInv, Sleeps
<1>11. DataInv'
  <2>1. Len(got) = 0
    BY <1>1 DEF Inv, PipeTypes, DataInv
  <2>2. 0 % WORD = 0
    BY ProcAssumption
  <2>3. pipe'.nread = 0 /\ pipe'.nwrite = 0
    BY <1>1
  <2> QED BY <1>1, <1>2, <2>1, <2>2, <2>3, ProcAssumption DEF DataInv
<1> QED BY <1>5, <1>7, <1>8, <1>9, <1>10, <1>11 DEF Inv

\* So does fileclose, whose last reference leaves the end to be closed.
LEMMA FilecloseInv ==
    ASSUME Inv, NEW p \in Slots, NEW e \in Ends, fileclose(p, e)
    PROVE  Inv'
<1>1. /\ closing[p] = NULL /\ e \in ofile[p] /\ pc[p] \in {"user", "exit"}
      /\ ofile' = [ofile EXCEPT ![p] = @ \ {e}] /\ ref' = [ref EXCEPT ![e] = @ - 1]
      /\ closing' = [closing EXCEPT ![p] = IF ref[e] = 1 THEN e ELSE NULL]
  BY DEF fileclose
<1>2. UNCHANGED <<state, pid, parent, chan, killed, nextpid, pipe, plock, pc, left, child, sent, got, gaveUp, nomaps>>
  BY DEF fileclose, tvars, hvars
<1>3. PipeTypes /\ FilesInv /\ ref[e] \in Nat /\ ref[e] > 0
  BY <1>1, UserFacts DEF Inv, PipeTypes
<1>4. /\ ofile' \in [Slots -> SUBSET Ends] /\ ref' \in [Ends -> Nat] /\ closing' \in [Slots -> Ends \cup {NULL}]
      /\ ofile'[p] = ofile[p] \ {e} /\ \A q \in Slots : q # p => ofile'[q] = ofile[q]
      /\ ref'[e] = ref[e] - 1 /\ \A f \in Ends : f # e => ref'[f] = ref[f]
  BY <1>1, <1>3 DEF PipeTypes
<1>5. /\ ref[e] = 1 => closing'[p] = e
      /\ ref[e] # 1 => closing'[p] = NULL
      /\ \A q \in Slots : q # p => closing'[q] = closing[q]
  BY <1>1, <1>3 DEF PipeTypes
<1>6. TableTypes' /\ PipeTypes'
  BY <1>2, <1>4 DEF Inv, TableTypes, PipeTypes
<1>7. TableInv' /\ WaitInv'
  BY <1>2, <1>6, KernelKept
<1>8. LockInv' /\ DataInv'
  BY <1>2, DataKept DEF Inv, LockInv, Runs
<1>9. SleepInv'
  BY <1>2, SleepKept DEF Inv
<1>10. FilesInv'
  <2>1. \A f \in Ends : Open(f)' = Open(f)
    BY <1>2, PipeSame
  <2>2. ASSUME NEW f \in Ends PROVE Cardinality(Holders(f)') <= ref'[f] /\ (ref'[f] > 0 => ref[f] > 0)
    <3>1. IsFiniteSet(Holders(f)) /\ Cardinality(Holders(f)) \in Nat /\ Cardinality(Holders(f)) <= ref[f]
      BY <1>3, SlotFacts, FS_Subset, FS_CardinalityType DEF Holders, FilesInv
    <3>2. CASE f = e
      <4>1. Holders(e)' = Holders(e) \ {p} /\ p \in Holders(e)
        BY <1>1, <1>4 DEF Holders
      <4>2. Cardinality(Holders(e) \ {p}) = Cardinality(Holders(e)) - 1
        BY <3>1, <3>2, <4>1, FS_RemoveElement
      <4> QED BY <1>3, <1>4, <3>1, <3>2, <4>1, <4>2
    <3>3. CASE f # e
      <4>1. Holders(f)' = Holders(f) /\ ref'[f] = ref[f]
        BY <1>4, <3>3 DEF Holders
      <4> QED BY <3>1, <4>1
    <3> QED BY <3>2, <3>3
  <2>3. \A q \in Slots, f \in Ends : closing'[q] = f =>
           /\ ref'[f] = 0 /\ Open(f) /\ pc[q] \in {"user", "exit"}
           /\ q = p => f = e
           /\ q # p => f # e /\ closing[q] = f
    <3> TAKE q \in Slots, f \in Ends
    <3> HAVE closing'[q] = f
    <3>1. CASE q = p
      BY <1>1, <1>3, <1>4, <1>5, <3>1, SlotFacts DEF FilesInv
    <3>2. CASE q # p
      <4>1. closing[q] = f /\ ref[f] = 0 /\ Open(f) /\ pc[q] \in {"user", "exit"}
        BY <1>3, <1>5, <3>2 DEF FilesInv
      <4> QED BY <1>3, <1>4, <3>2, <4>1
    <3> QED BY <3>1, <3>2
  <2>4. \A q \in Slots, f \in Ends : Using(q, f)' => f \in ofile'[q]
    BY <1>1, <1>2, <1>3, <1>4 DEF Using, FilesInv
  <2>5. \A q, r \in Slots : closing'[q] # NULL /\ closing'[q] = closing'[r] => q = r
    <3> TAKE q, r \in Slots
    <3> HAVE closing'[q] # NULL /\ closing'[q] = closing'[r]
    <3>1. PICK f \in Ends : closing'[q] = f /\ closing'[r] = f
      BY <1>6 DEF PipeTypes
    <3> QED BY <1>3, <2>3, <3>1, SlotFacts DEF FilesInv
  <2>6. \A f \in Ends : Cardinality(Holders(f))' <= ref'[f] /\ (ref'[f] > 0 => Open(f)')
    BY <1>3, <2>1, <2>2 DEF FilesInv
  <2> QED BY <1>2, <2>1, <2>3, <2>4, <2>5, <2>6 DEF FilesInv
<1> QED BY <1>6, <1>7, <1>8, <1>9, <1>10 DEF Inv

\* pipeclose wakes whoever sleeps at the other end; at this end is nobody.
LEMMA PipecloseInv ==
    ASSUME Inv, NEW p \in Slots, pipeclose(p)
    PROVE  Inv'
<1>1. PICK e \in Ends : e = closing[p]
  BY DEF pipeclose, Inv, PipeTypes
<1>2. /\ Runs(p) /\ plock = NULL /\ state' = Shut(e)
      /\ pipe' = IF e = "w"
                 THEN IF pipe.readopen THEN [pipe EXCEPT !.writeopen = FALSE] ELSE NULL
                 ELSE IF pipe.writeopen THEN [pipe EXCEPT !.readopen = FALSE] ELSE NULL
      /\ closing' = [closing EXCEPT ![p] = NULL]
  BY <1>1 DEF pipeclose
<1>3. UNCHANGED <<pid, parent, chan, killed, nextpid, ofile, ref, plock, pc, left, child, sent, got, gaveUp, nomaps>>
  BY DEF pipeclose, fvars, hvars
<1>4. /\ TableTypes /\ PipeTypes /\ FilesInv /\ state \in [Slots -> States]
      /\ ref[e] = 0 /\ pipe # NULL /\ pipe \in Pipes
  BY <1>1 DEF Inv, TableTypes, PipeTypes, FilesInv, Open
<1>5. /\ state' \in [Slots -> States]
      /\ \A q \in Slots : IF state[q] = "SLEEPING" /\ chan[q] = (IF e = "w" THEN OnRead ELSE OnWrite)
                          THEN state'[q] = "RUNNABLE" ELSE state'[q] = state[q]
  BY <1>2, <1>4, WakeFacts DEF Shut
<1>6. /\ pipe' = NULL \/ /\ pipe' \in Pipes /\ pipe' # NULL
                         /\ pipe'.nread = pipe.nread /\ pipe'.nwrite = pipe.nwrite /\ pipe'.data = pipe.data
      /\ \A f \in Ends : f # e /\ Open(f) => Open(f)'
  <2>1. CASE e = "w" /\ pipe.readopen
    <3>1. pipe' = [pipe EXCEPT !.writeopen = FALSE]
      BY <1>2, <2>1
    <3>2. /\ pipe' \in Pipes /\ pipe'.nread = pipe.nread /\ pipe'.nwrite = pipe.nwrite
          /\ pipe'.data = pipe.data /\ pipe'.readopen = pipe.readopen
      BY <1>4, <3>1 DEF Pipes
    <3> QED BY <2>1, <3>2, SlotFacts DEF Open, Ends
  <2>2. CASE e = "r" /\ pipe.writeopen
    <3>1. pipe' = [pipe EXCEPT !.readopen = FALSE]
      BY <1>2, <2>2
    <3>2. /\ pipe' \in Pipes /\ pipe'.nread = pipe.nread /\ pipe'.nwrite = pipe.nwrite
          /\ pipe'.data = pipe.data /\ pipe'.writeopen = pipe.writeopen
      BY <1>4, <3>1 DEF Pipes
    <3> QED BY <2>2, <3>2, SlotFacts DEF Open, Ends
  <2>3. CASE (e = "w" /\ ~pipe.readopen) \/ (e = "r" /\ ~pipe.writeopen)
    BY <1>2, <2>3 DEF Open, Ends
  <2> QED BY <2>1, <2>2, <2>3 DEF Ends
<1>7. /\ closing' \in [Slots -> Ends \cup {NULL}] /\ closing'[p] = NULL
      /\ \A q \in Slots : q # p => closing'[q] = closing[q]
  BY <1>2, <1>4 DEF PipeTypes
<1>8. TableTypes' /\ PipeTypes'
  BY <1>3, <1>4, <1>5, <1>6, <1>7 DEF TableTypes, PipeTypes
<1>9. TableInv' /\ WaitInv'
  <2>1. \A q \in Slots : \/ state'[q] = state[q]
                         \/ state[q] = "SLEEPING" /\ state'[q] = "RUNNABLE"
    BY <1>5
  <2> QED BY <1>3, <1>8, <2>1, KernelKept
<1>10. LockInv'
  <2>1. \A q \in Slots : Runs(q) /\ plock = q => Runs(q)'
    BY <1>5 DEF Runs
  <2> QED BY <1>3, <2>1, LockKept DEF Inv
<1>11. FilesInv'
  <2>1. \A f \in Ends : Holders(f)' = Holders(f)
    BY <1>3 DEF Holders
  <2>2. \A f \in Ends : ref'[f] > 0 => Open(f)'
    BY <1>3, <1>4, <1>6 DEF FilesInv
  <2>3. \A q \in Slots, f \in Ends : closing'[q] = f => closing[q] = f /\ f # e
    BY <1>1, <1>4, <1>7, SlotFacts DEF FilesInv
  <2>4. \A q \in Slots, f \in Ends : closing'[q] = f => ref'[f] = 0 /\ Open(f)' /\ pc'[q] \in {"user", "exit"}
    BY <1>3, <1>4, <1>6, <2>3 DEF FilesInv
  <2>5. \A q \in Slots, f \in Ends : Using(q, f)' => f \in ofile'[q]
    BY <1>3, <1>4 DEF FilesInv, Using
  <2>6. \A q, r \in Slots : closing'[q] # NULL /\ closing'[q] = closing'[r] => q = r
    BY <1>4, <1>7 DEF FilesInv
  <2> QED BY <1>3, <1>4, <2>1, <2>2, <2>4, <2>5, <2>6 DEF FilesInv
<1>12. SleepInv'
  <2>1. \A q \in Slots : ~Using(q, e) /\ pc[q] \notin {"rsleep", "wsleep"}
    BY <1>2, <1>4, UserFacts, SlotFacts DEF Inv, LockInv
  <2>2. \A q \in Slots : state'[q] = "SLEEPING" => state[q] = "SLEEPING" /\ pc[q] = "wait"
    <3> TAKE q \in Slots
    <3> HAVE state'[q] = "SLEEPING"
    <3>1. state[q] = "SLEEPING" /\ chan[q] # (IF e = "w" THEN OnRead ELSE OnWrite)
      BY <1>5
    <3>2. /\ pc[q] \in {"wait", "read", "write"}
          /\ pc[q] = "read" => chan[q] = OnRead
          /\ pc[q] = "write" => chan[q] = OnWrite
      BY <3>1 DEF Inv, SleepInv, Sleeps
    <3>3. CASE e = "w"
      BY <2>1, <3>1, <3>2, <3>3 DEF Using
    <3>4. CASE e = "r"
      BY <2>1, <3>1, <3>2, <3>4 DEF Using
    <3> QED BY <3>1, <3>3, <3>4 DEF Ends
  <2> QED BY <1>3, <2>1, <2>2 DEF SleepInv, Sleeps
<1>13. DataInv'
  BY <1>3, <1>4, <1>6 DEF Inv, DataInv
<1> QED BY <1>8, <1>9, <1>10, <1>11, <1>12, <1>13 DEF Inv

\* Counters modulo m may be added to before or after they wrap around.
LEMMA ModPlus ==
    ASSUME NEW m \in Nat \ {0}, NEW x \in Nat, NEW i \in Nat
    PROVE  ((x % m) + i) % m = (x + i) % m
<1> DEFINE q == x \div m
           r == x % m
           u == r + i
           s == u \div m
           t == u % m
<1>1. q \in Int /\ r \in Nat /\ x = m * q + r
  BY ModBy
<1>2. s \in Int /\ t \in 0..(m - 1) /\ r + i = m * s + t
  <2>1. u \in Int
    BY <1>1
  <2> HIDE DEF u
  <2>2. s \in Int /\ t \in 0..(m - 1) /\ u = m * s + t
    BY <2>1, ModBy
  <2> QED BY <2>2 DEF u
<1>3. ((x % m) + i) % m = t
  OBVIOUS
<1> HIDE DEF q, r, s, t, u
<1>4. x + i = m * (q + s) + t
  <2>1. m * (q + s) = m * q + m * s
    BY <1>1, <1>2
  <2> QED BY <1>1, <1>2, <2>1
<1>5. (x + i) % m = t
  <2>1. q + s \in Int
    BY <1>1, <1>2
  <2> QED BY <1>2, <1>4, <2>1, ModIs
<1> QED BY <1>3, <1>5

\* An index into the ring is inside it.
LEMMA IndexFacts ==
    ASSUME NEW x \in Nat
    PROVE  x % PIPESIZE \in 0..(PIPESIZE - 1)
BY ProcAssumption, ModBy

\* The loop of piperead takes the oldest bytes.
Taken(n) == [i \in 1..n |-> pipe.data[(pipe.nread + i - 1) % PIPESIZE]]

\* The next n bytes of the ring are the next n not yet read.
LEMMA TakeFacts ==
    ASSUME PipeTypes, DataInv, pipe # NULL, NEW n \in 0..Used
    PROVE  /\ Taken(n) \in Seq(Nat) /\ Len(Taken(n)) = n
           /\ \A i \in 1..n : Taken(n)[i] = Len(got) + i
           /\ (pipe.nread + n) % WORD = (Len(got) + n) % WORD
<1> DEFINE g == Len(got)
<1>1. /\ g \in Nat /\ sent \in Nat /\ g <= sent /\ n \in Nat /\ n <= sent - g
      /\ WORD \in Nat \ {0} /\ pipe \in Pipes /\ pipe.nread = g % WORD
      /\ \A k \in g + 1..sent : pipe.data[(k - 1) % PIPESIZE] = k
  BY UsedFacts, ProcAssumption DEF PipeTypes, DataInv
<1> HIDE DEF g
<1>2. ASSUME NEW i \in 1..n PROVE pipe.data[(pipe.nread + i - 1) % PIPESIZE] = g + i
  <2>1. i - 1 \in Nat /\ i \in Nat /\ g + i \in g + 1..sent
    BY <1>1
  <2>2. ((g % WORD) + (i - 1)) % PIPESIZE = (g + (i - 1)) % PIPESIZE
    BY <1>1, <2>1, ModWraps
  <2>3. g % WORD \in Nat
    BY <1>1, ModBy
  <2>4. pipe.nread + i - 1 = (g % WORD) + (i - 1)
    BY <1>1, <2>1, <2>3
  <2>5. g + (i - 1) = (g + i) - 1
    BY <1>1, <2>1
  <2>6. (pipe.nread + i - 1) % PIPESIZE = ((g + i) - 1) % PIPESIZE
    BY <2>2, <2>4, <2>5
  <2>7. pipe.data[((g + i) - 1) % PIPESIZE] = g + i
    BY <1>1, <2>1
  <2> QED BY <2>6, <2>7
<1>3. Taken(n) = [i \in 1..n |-> g + i]
  BY <1>2 DEF Taken
<1>4. [i \in 1..n |-> g + i] \in Seq(Nat) /\ Len([i \in 1..n |-> g + i]) = n
  BY <1>1
<1>5. ((g % WORD) + n) % WORD = (g + n) % WORD
  BY <1>1, ModPlus
<1> QED BY <1>1, <1>3, <1>4, <1>5 DEF g

\* The loop of pipewrite puts the bytes behind the others and on top of none.
LEMMA PutFacts ==
    ASSUME PipeTypes, DataInv, pipe # NULL, NEW n \in 0..Room
    PROVE  /\ Put(n) \in Pipes /\ Put(n).nread = pipe.nread /\ Put(n).nwrite = (sent + n) % WORD
           /\ Put(n).readopen = pipe.readopen /\ Put(n).writeopen = pipe.writeopen
           /\ \A k \in Len(got) + 1..sent + n : Put(n).data[(k - 1) % PIPESIZE] = k
<1> DEFINE g == Len(got)
           P == PIPESIZE
           At(i) == (pipe.nwrite + i - 1) % PIPESIZE
           d == [j \in DOMAIN pipe.data |-> IF \E i \in 1..n : At(i) = j
                                            THEN sent + CHOOSE i \in 1..n : At(i) = j
                                            ELSE pipe.data[j]]
<1>1. /\ g \in Nat /\ sent \in Nat /\ g <= sent /\ n \in Nat /\ n <= P - (sent - g)
      /\ WORD \in Nat \ {0} /\ P \in Nat \ {0} /\ pipe \in Pipes /\ pipe.nwrite = sent % WORD
      /\ \A k \in g + 1..sent : pipe.data[(k - 1) % P] = k
  BY UsedFacts, ProcAssumption DEF PipeTypes, DataInv
<1> HIDE DEF g
<1>2. DOMAIN pipe.data = 0..(P - 1) /\ \A j \in 0..(P - 1) : pipe.data[j] \in Nat
  BY <1>1 DEF Pipes
<1>3. ASSUME NEW i \in 1..n PROVE At(i) = ((sent + i) - 1) % P /\ At(i) \in 0..(P - 1)
  <2>1. i - 1 \in Nat /\ i \in Nat
    BY <1>1
  <2>2. ((sent % WORD) + (i - 1)) % PIPESIZE = (sent + (i - 1)) % PIPESIZE
    BY <1>1, <2>1, ModWraps
  <2>3. sent % WORD \in Nat
    BY <1>1, ModBy
  <2>4. pipe.nwrite + i - 1 = (sent % WORD) + (i - 1)
    BY <1>1, <2>1, <2>3
  <2>5. sent + (i - 1) = (sent + i) - 1 /\ sent + (i - 1) \in Nat
    BY <1>1, <2>1
  <2>6. (sent + (i - 1)) % PIPESIZE \in 0..(P - 1)
    BY <2>5, IndexFacts
  <2> QED BY <2>2, <2>4, <2>5, <2>6
<1>4. Put(n) = [pipe EXCEPT !.nwrite = (pipe.nwrite + n) % WORD, !.data = d]
  BY DEF Put
<1>5. d \in [0..(P - 1) -> Nat]
  <2> SUFFICES ASSUME NEW j \in 0..(P - 1) PROVE d[j] \in Nat
    BY <1>2
  <2>1. CASE \E i \in 1..n : At(i) = j
    <3>1. (CHOOSE i \in 1..n : At(i) = j) \in 1..n
      BY <2>1
    <3> DEFINE c == CHOOSE i \in 1..n : At(i) = j
    <3>2. d[j] = sent + c /\ c \in 1..n
      BY <1>2, <2>1, <3>1
    <3> HIDE DEF c
    <3> QED BY <1>1, <3>2
  <2>2. CASE ~(\E i \in 1..n : At(i) = j)
    BY <1>2, <2>2
  <2> QED BY <2>1, <2>2
<1>6. ASSUME NEW k \in g + 1..sent + n PROVE d[(k - 1) % P] = k
  <2> DEFINE j == (k - 1) % P
  <2>1. k \in Nat /\ k - 1 \in Nat /\ j \in 0..(P - 1)
    BY <1>1, IndexFacts
  <2>2. CASE k <= sent
    <3>1. ASSUME NEW i \in 1..n PROVE At(i) # j
      <4>1. k - 1 < (sent + i) - 1 /\ ((sent + i) - 1) - (k - 1) < P /\ (sent + i) - 1 \in Nat
        BY <1>1, <2>1, <2>2
      <4>2. (k - 1) % P # ((sent + i) - 1) % P
        BY <1>1, <2>1, <4>1, ModApart
      <4> QED BY <1>3, <4>2
    <3>2. d[j] = pipe.data[j]
      BY <1>2, <2>1, <3>1
    <3> HIDE DEF d
    <3> QED BY <1>1, <2>1, <2>2, <3>2
  <2>3. CASE k > sent
    <3>1. PICK i \in 1..n : k = sent + i
      <4>1. k - sent \in 1..n /\ k = sent + (k - sent)
        BY <1>1, <2>1, <2>3
      <4> QED BY <4>1
    <3>2. At(i) = j
      BY <1>3, <3>1
    <3>3. ASSUME NEW h \in 1..n, At(h) = j PROVE h = i
      <4>1. ((sent + h) - 1) % P = ((sent + i) - 1) % P
        BY <1>3, <3>2, <3>3
      <4>2. (sent + h) - 1 \in Nat /\ (sent + i) - 1 \in Nat
        BY <1>1
      <4>3. CASE h < i
        <5>1. (sent + h) - 1 < (sent + i) - 1 /\ ((sent + i) - 1) - ((sent + h) - 1) < P
          BY <1>1, <4>3
        <5> QED BY <1>1, <4>1, <4>2, <5>1, ModApart
      <4>4. CASE i < h
        <5>1. (sent + i) - 1 < (sent + h) - 1 /\ ((sent + h) - 1) - ((sent + i) - 1) < P
          BY <1>1, <4>4
        <5> QED BY <1>1, <4>1, <4>2, <5>1, ModApart
      <4> QED BY <1>1, <4>3, <4>4
    <3>4. (CHOOSE h \in 1..n : At(h) = j) = i
      BY <3>2, <3>3
    <3>5. d[j] = sent + CHOOSE h \in 1..n : At(h) = j
      BY <1>2, <2>1, <3>2
    <3> QED BY <3>1, <3>4, <3>5
  <2> QED BY <1>1, <2>1, <2>2, <2>3
<1>7. (pipe.nwrite + n) % WORD = (sent + n) % WORD /\ (pipe.nwrite + n) % WORD \in Nat
  <2>1. ((sent % WORD) + n) % WORD = (sent + n) % WORD
    BY <1>1, ModPlus
  <2>2. sent + n \in Int
    BY <1>1
  <2>3. (sent + n) % WORD \in Nat
    BY <1>1, <2>2, ModBy
  <2> QED BY <1>1, <2>1, <2>3
<1> HIDE DEF d
<1> DEFINE w == (pipe.nwrite + n) % WORD
<1>8. w \in Nat /\ Put(n) = [pipe EXCEPT !.nwrite = w, !.data = d]
  BY <1>4, <1>7
<1>9. w = (sent + n) % WORD
  BY <1>7
<1> HIDE DEF w
<1>10. /\ Put(n) \in Pipes /\ Put(n).nread = pipe.nread /\ Put(n).nwrite = w
       /\ Put(n).readopen = pipe.readopen /\ Put(n).writeopen = pipe.writeopen /\ Put(n).data = d
  BY <1>1, <1>5, <1>8 DEF Pipes
<1> QED BY <1>6, <1>9, <1>10 DEF g

\* Sequences of numbers, one after the other.
LEMMA ConcatFacts ==
    ASSUME NEW s \in Seq(Nat), NEW t \in Seq(Nat)
    PROVE  s \o t \in Seq(Nat) /\ Len(s \o t) = Len(s) + Len(t)
OBVIOUS

\* What readers and writers have in common.
LEMMA AtPipe ==
    ASSUME Inv, NEW p \in Slots, NEW e \in Ends, Using(p, e), plock = NULL
    PROVE  /\ Open(e) /\ pipe # NULL /\ pipe \in Pipes /\ closing[p] = NULL
           /\ \A q \in Slots : pc[q] \notin {"rsleep", "wsleep"} /\ (q # p => plock # q)
           /\ state \in [Slots -> States] /\ pc \in [Slots -> Places] /\ left \in [Slots -> Nat]
<1>1. Open(e)
  BY UserFacts DEF Inv
<1>2. closing[p] = NULL
  BY ClosingFacts DEF Inv, Using
<1>3. \A q \in Slots : pc[q] \notin {"rsleep", "wsleep"} /\ plock # q
  BY SlotFacts DEF Inv, LockInv
<1> QED BY <1>1, <1>2, <1>3 DEF Open, Inv, TableTypes, PipeTypes

\* The rest of the invariant, for a step of p at the pipe.
LEMMA PipeKept ==
    ASSUME Inv, PipeTypes', NEW p \in Slots, NEW e \in Ends, Using(p, e), plock = NULL, Runs(p),
           UNCHANGED <<pid, parent, chan, killed, nextpid, ofile, ref, child, closing, nomaps>>,
           state' \in [Slots -> States],
           \A q \in Slots : \/ state'[q] = state[q]
                            \/ state[q] = "SLEEPING" /\ state'[q] = "RUNNABLE",
           \A f \in Ends : Open(f)' = Open(f),
           NEW at \in {"user", IF e = "r" THEN "rsleep" ELSE "wsleep"}, pc' = [pc EXCEPT ![p] = at],
           plock' = IF at = "user" THEN NULL ELSE p
    PROVE  TableTypes' /\ TableInv' /\ WaitInv' /\ FilesInv' /\ LockInv'
<1>1. pc' \in [Slots -> Places] /\ pc'[p] = at /\ \A q \in Slots : q # p => pc'[q] = pc[q]
  BY AtPipe DEF Places
<1>2. TableTypes'
  BY <1>1 DEF Inv, TableTypes
<1>3. pc[p] \in {"read", "write", "rsleep", "wsleep"}
  BY DEF Using
<1>4. TableInv' /\ WaitInv'
  BY <1>1, <1>2, <1>3, KernelKept
<1>5. FilesInv'
  <2>1. \A q \in Slots : pc'[q] = pc[q] \/ closing[q] = NULL
    BY <1>1, AtPipe
  <2>2. \A q \in Slots, f \in Ends : Using(q, f)' => Using(q, f)
    BY <1>1 DEF Using, Ends
  <2> QED BY <2>1, <2>2, FilesKept DEF Inv
<1>6. LockInv'
  <2>1. Runs(p)' /\ \A q \in Slots : pc[q] \notin {"rsleep", "wsleep"}
    BY AtPipe DEF Runs
  <2> QED BY <1>1, <2>1, SlotFacts DEF LockInv
<1> QED BY <1>2, <1>4, <1>5, <1>6

\* The smaller of two numbers.
LEMMA LeastFacts ==
    ASSUME NEW a \in Nat, NEW b \in Nat
    PROVE  Least(a, b) \in 0..b /\ Least(a, b) <= a /\ (Least(a, b) = a \/ Least(a, b) = b)
BY DEF Least

\* piperead keeps the invariant.
LEMMA ReadInv ==
    ASSUME Inv, NEW p \in Slots, piperead(p)
    PROVE  Inv'
<1>1. Runs(p) /\ pc[p] = "read" /\ plock = NULL /\ Using(p, "r") /\ "r" \in Ends
  BY DEF piperead, Using, Ends
<1>2. UNCHANGED <<pid, parent, chan, killed, nextpid, ofile, ref, child, closing, sent, gaveUp, nomaps>>
  BY DEF piperead, fvars
<1>3. /\ pipe # NULL /\ pipe \in Pipes /\ left \in [Slots -> Nat] /\ pc \in [Slots -> Places]
      /\ state \in [Slots -> States] /\ \A q \in Slots : pc[q] \notin {"rsleep", "wsleep"}
  BY <1>1, AtPipe
<1>4. CASE Empty /\ pipe.writeopen
  <2>1. UNCHANGED <<state, pipe, got>>
    BY <1>4 DEF piperead
  <2>2. PICK at \in {"user", "rsleep"} :
           pc' = [pc EXCEPT ![p] = at] /\ plock' = (IF at = "user" THEN NULL ELSE p) /\ left' \in [Slots -> Nat]
    <3>1. CASE killed[p]
      BY <1>1, <1>3, <1>4, <3>1 DEF piperead, Return
    <3>2. CASE ~killed[p]
      <4>1. plock' = p /\ pc' = [pc EXCEPT ![p] = "rsleep"] /\ left' = left
        BY <1>4, <3>2 DEF piperead
      <4> QED BY <1>3, <4>1
    <3> QED BY <3>1, <3>2
  <2>3. PipeTypes'
    BY <1>2, <2>1, <2>2 DEF Inv, PipeTypes
  <2>4. TableTypes' /\ TableInv' /\ WaitInv' /\ FilesInv' /\ LockInv'
    BY <1>1, <1>2, <1>3, <2>1, <2>2, <2>3, PipeSame, PipeKept
  <2>5. DataInv'
    BY <1>2, <2>1, DataKept DEF Inv
  <2>6. SleepInv'
    <3>1. Drained' = Drained /\ Filled' = Filled /\ Drained /\ SleepInv
      BY <1>4, <2>1 DEF Drained, Filled, Empty, Room, Used, Inv
    <3>2. pc'[p] = at /\ \A q \in Slots : q # p => pc'[q] = pc[q]
      BY <1>3, <2>2
    <3> SUFFICES ASSUME NEW q \in Slots
                 PROVE  /\ state'[q] = "SLEEPING" => pc'[q] \in {"wait", "read", "write"}
                        /\ pc'[q] = "rsleep" => Drained
                        /\ pc'[q] = "wsleep" => Filled
                        /\ Sleeps(q, "read")' => chan'[q] = OnRead /\ (gaveUp \/ Drained)
                        /\ Sleeps(q, "write")' => chan'[q] = OnWrite /\ Filled
      BY <1>2, <3>1 DEF SleepInv
    <3>3. CASE q = p
      BY <1>1, <2>1, <3>1, <3>2, <3>3 DEF Sleeps, Runs
    <3>4. CASE q # p
      BY <1>2, <2>1, <3>1, <3>2, <3>4 DEF SleepInv, Sleeps
    <3> QED BY <3>3, <3>4
  <2> QED BY <2>3, <2>4, <2>5, <2>6 DEF Inv
<1>5. CASE ~(Empty /\ pipe.writeopen)
  <2>1. PICK n \in 0..Used : n = Least(left[p], Used)
    <3>1. left[p] \in Nat
      BY <1>3
    <3>2. Used \in 0..PIPESIZE
      BY <1>3, UsedFacts DEF Inv
    <3>3. Used \in Nat
      BY <3>2, ProcAssumption
    <3>4. Least(left[p], Used) \in 0..Used
      BY <3>1, <3>3, LeastFacts
    <3> QED BY <3>4
  <2>a. pipe' = [pipe EXCEPT !.nread = (pipe.nread + n) % WORD]
    BY <1>5, <2>1 DEF piperead
  <2>b. (pipe.nread + n) % WORD = (Len(got) + n) % WORD
    BY <1>3, TakeFacts DEF Inv
  <2>2. /\ got' = got \o Taken(n) /\ state' = Wakened(state, OnWrite) /\ pc' = [pc EXCEPT ![p] = "user"]
        /\ left' = [left EXCEPT ![p] = 0] /\ plock' = plock
    BY <1>5, <2>1 DEF piperead, Return, Taken
  <2>3. Taken(n) \in Seq(Nat) /\ Len(Taken(n)) = n /\ \A i \in 1..n : Taken(n)[i] = Len(got) + i
    BY <1>3, TakeFacts DEF Inv
  <2>4. Len(got) \in Nat /\ sent \in Nat /\ got \in Seq(Nat) /\ n \in Nat /\ n <= sent - Len(got) /\ Len(got) <= sent
    BY <1>3, UsedFacts DEF Inv, PipeTypes, DataInv
  <2>5. /\ got' \in Seq(Nat) /\ Len(got') = Len(got) + n
        /\ \A i \in 1..Len(got') : got'[i] = i
    <3>1. \A i \in 1..Len(got) : got[i] = i
      BY DEF Inv, DataInv
    <3> DEFINE t == Taken(n)
    <3>a. t \in Seq(Nat) /\ Len(t) = n /\ got' = got \o t /\ got \in Seq(Nat)
      BY <2>2, <2>3, <2>4
    <3> HIDE DEF t
    <3>b. got \o t \in Seq(Nat) /\ Len(got \o t) = Len(got) + Len(t)
      BY <3>a, ConcatFacts
    <3>2. got' \in Seq(Nat) /\ Len(got') = Len(got) + n
      BY <3>a, <3>b
    <3>3. \A i \in 1..(Len(got) + n) : got'[i] = IF i <= Len(got) THEN got[i] ELSE Taken(n)[i - Len(got)]
      BY <2>2, <2>3, <2>4
    <3>4. ASSUME NEW i \in 1..(Len(got) + n) PROVE got'[i] = i
      <4>1. CASE i <= Len(got)
        BY <2>4, <3>1, <3>3, <4>1
      <4>2. CASE i > Len(got)
        <5>1. i - Len(got) \in 1..n /\ Len(got) + (i - Len(got)) = i
          BY <2>4, <4>2
        <5> QED BY <2>3, <2>4, <3>3, <4>2, <5>1
      <4> QED BY <2>4, <4>1, <4>2
    <3> QED BY <3>2, <3>4
  <2>6. /\ pipe' \in Pipes /\ pipe' # NULL /\ pipe'.nread = (Len(got) + n) % WORD
        /\ pipe'.nwrite = pipe.nwrite /\ pipe'.data = pipe.data
        /\ pipe'.readopen = pipe.readopen /\ pipe'.writeopen = pipe.writeopen
    <3> DEFINE w == (pipe.nread + n) % WORD
    <3>1. Len(got) + n \in Int /\ WORD \in Nat \ {0}
      BY <2>4, ProcAssumption
    <3>2. w \in Nat
      <4> DEFINE x == Len(got) + n
      <4>1. x \in Int
        BY <3>1
      <4> HIDE DEF x
      <4>2. x % WORD \in 0..(WORD - 1)
        BY <3>1, <4>1, ModBy
      <4>3. x % WORD \in Nat
        BY <3>1, <4>2
      <4> QED BY <2>b, <4>3 DEF x
    <3>3. pipe' = [pipe EXCEPT !.nread = w] /\ w = (Len(got) + n) % WORD
      BY <2>a, <2>b
    <3> HIDE DEF w
    <3>4. /\ pipe' \in Pipes /\ pipe'.nread = w /\ pipe'.nwrite = pipe.nwrite /\ pipe'.data = pipe.data
          /\ pipe'.readopen = pipe.readopen /\ pipe'.writeopen = pipe.writeopen
      BY <1>3, <3>2, <3>3 DEF Pipes
    <3> QED BY <3>3, <3>4, SlotFacts
  <2>7. /\ state' \in [Slots -> States]
        /\ \A q \in Slots : IF state[q] = "SLEEPING" /\ chan[q] = OnWrite
                            THEN state'[q] = "RUNNABLE" ELSE state'[q] = state[q]
    <3>1. state \in [Slots -> States] /\ state' = Wakened(state, OnWrite)
      BY <1>3, <2>2
    <3>2. /\ Wakened(state, OnWrite) \in [Slots -> States]
          /\ \A q \in Slots : IF state[q] = "SLEEPING" /\ chan[q] = OnWrite
                              THEN Wakened(state, OnWrite)[q] = "RUNNABLE"
                              ELSE Wakened(state, OnWrite)[q] = state[q]
      BY <3>1, WakeFacts
    <3> QED BY <3>1, <3>2
  <2>8. PipeTypes'
    <3>1. left' \in [Slots -> Nat]
      BY <1>3, <2>2
    <3> QED BY <1>2, <2>2, <2>5, <2>6, <3>1 DEF Inv, PipeTypes
  <2>9. TableTypes' /\ TableInv' /\ WaitInv' /\ FilesInv' /\ LockInv'
    <3>1. \A f \in Ends : Open(f)' = Open(f)
      BY <1>3, <2>6 DEF Open
    <3>2. \A q \in Slots : \/ state'[q] = state[q]
                           \/ state[q] = "SLEEPING" /\ state'[q] = "RUNNABLE"
      BY <2>7
    <3> QED BY <1>1, <1>2, <2>2, <2>7, <2>8, <3>1, <3>2, PipeKept
  <2>10. DataInv'
    <3>1. sent' = sent /\ pipe'.nwrite = sent % WORD /\ sent - Len(got) <= PIPESIZE
          /\ \A k \in Len(got) + 1..sent : pipe.data[(k - 1) % PIPESIZE] = k
      BY <1>2, <1>3, <2>6 DEF Inv, DataInv
    <3>2. Len(got') <= sent /\ sent - Len(got') <= PIPESIZE /\ PIPESIZE \in Nat
      BY <2>4, <2>5, <3>1, ProcAssumption
    <3>3. \A k \in Len(got') + 1..sent : k \in Len(got) + 1..sent
      BY <2>4, <2>5
    <3> QED BY <2>5, <2>6, <3>1, <3>2, <3>3 DEF DataInv
  <2>11. SleepInv'
    <3>1. pc'[p] = "user" /\ \A q \in Slots : q # p => pc'[q] = pc[q]
      BY <1>3, <2>2
    <3>2. \A q \in Slots : pc'[q] \notin {"rsleep", "wsleep"}
      BY <1>3, <3>1
    <3>3. ASSUME NEW q \in Slots, state'[q] = "SLEEPING"
          PROVE  /\ pc'[q] \in {"wait", "read"} /\ pc'[q] = pc[q]
                 /\ pc[q] = "read" => chan[q] = OnRead /\ gaveUp
      <4>1. state[q] = "SLEEPING" /\ chan[q] # OnWrite /\ q # p
        BY <1>1, <2>7, <3>3 DEF Runs
      <4>2. /\ pc[q] \in {"wait", "read", "write"} /\ (pc[q] = "write" => chan[q] = OnWrite)
            /\ pc[q] = "read" => chan[q] = OnRead /\ (gaveUp \/ Drained)
        BY <4>1 DEF Inv, SleepInv, Sleeps
      <4> QED BY <1>5, <3>1, <4>1, <4>2 DEF Drained
    <3> QED BY <1>2, <3>2, <3>3 DEF SleepInv, Sleeps
  <2> QED BY <2>8, <2>9, <2>10, <2>11 DEF Inv
<1> QED BY <1>4, <1>5

\* pipewrite keeps it.
LEMMA WriteInv ==
    ASSUME Inv, NEW p \in Slots, pipewrite(p)
    PROVE  Inv'
<1>1. Runs(p) /\ pc[p] = "write" /\ plock = NULL /\ Using(p, "w") /\ "w" \in Ends
  BY DEF pipewrite, Using, Ends
<1>2. UNCHANGED <<pid, parent, chan, killed, nextpid, ofile, ref, child, closing, got, nomaps>>
  BY DEF pipewrite, fvars
<1>3. /\ pipe # NULL /\ pipe \in Pipes /\ left \in [Slots -> Nat] /\ pc \in [Slots -> Places]
      /\ state \in [Slots -> States] /\ \A q \in Slots : pc[q] \notin {"rsleep", "wsleep"}
  BY <1>1, AtPipe
<1>4. /\ Len(got) \in Nat /\ sent \in Nat /\ PIPESIZE \in Nat /\ Len(got) <= sent
      /\ Room = PIPESIZE - (sent - Len(got)) /\ Room \in Nat
  BY <1>3, UsedFacts, ProcAssumption DEF Inv, PipeTypes, DataInv
<1>5. PICK n \in 0..Room : n = Least(left[p], Room) /\ n <= left[p] /\ (n = left[p] \/ n = Room)
  <2> DEFINE l == left[p]
             m == Room
  <2>1. l \in Nat /\ m \in Nat
    BY <1>3, <1>4
  <2> HIDE DEF l, m
  <2>2. Least(l, m) \in 0..m /\ Least(l, m) <= l /\ (Least(l, m) = l \/ Least(l, m) = m)
    BY <2>1, LeastFacts
  <2> QED BY <2>2 DEF l, m
<1>6. pipe' = Put(n) /\ sent' = sent + n
  BY <1>5 DEF pipewrite
<1>7. /\ pipe' \in Pipes /\ pipe' # NULL /\ pipe'.nread = pipe.nread /\ pipe'.nwrite = (sent + n) % WORD
      /\ pipe'.readopen = pipe.readopen /\ pipe'.writeopen = pipe.writeopen
      /\ \A k \in Len(got) + 1..sent + n : pipe'.data[(k - 1) % PIPESIZE] = k
  BY <1>3, <1>6, PutFacts, SlotFacts DEF Inv
<1>8. DataInv'
  <2>1. pipe.nread = Len(got) % WORD /\ \A i \in 1..Len(got) : got[i] = i
    BY <1>3 DEF Inv, DataInv
  <2>2. Len(got) <= sent + n /\ (sent + n) - Len(got) <= PIPESIZE
    BY <1>4
  <2> QED BY <1>2, <1>6, <1>7, <2>1, <2>2 DEF DataInv
<1>9. PICK at \in {"user", "wsleep"} :
        /\ pc' = [pc EXCEPT ![p] = at] /\ plock' = (IF at = "user" THEN NULL ELSE p)
        /\ left' \in [Slots -> Nat] /\ gaveUp' \in BOOLEAN /\ (gaveUp => gaveUp')
        /\ \/ state' = Wakened(state, OnRead)
           \/ state' = state /\ (pipe.readopen => gaveUp')
        /\ at = "wsleep" => n = Room /\ pipe.readopen
  <2>0. gaveUp \in BOOLEAN /\ pipe.readopen \in BOOLEAN
    BY <1>3 DEF Inv, PipeTypes, Pipes
  <2>1. CASE n = left[p] /\ state' = Wakened(state, OnRead) /\ Return(p) /\ UNCHANGED <<plock, gaveUp>>
    BY <1>1, <1>3, <2>0, <2>1 DEF Return
  <2>2. CASE Return(p) /\ gaveUp' = (gaveUp \/ pipe.readopen) /\ UNCHANGED <<state, plock>>
    BY <1>1, <1>3, <2>0, <2>2 DEF Return
  <2>3. CASE /\ n < left[p] /\ pipe.readopen /\ ~killed[p]
             /\ state' = Wakened(state, OnRead) /\ plock' = p
             /\ pc' = [pc EXCEPT ![p] = "wsleep"] /\ left' = [left EXCEPT ![p] = @ - n]
             /\ UNCHANGED gaveUp
    <3>1. left[p] - n \in Nat /\ n = Room
      BY <1>3, <1>4, <1>5, <2>3
    <3> QED BY <1>3, <2>0, <2>3, <3>1
  <2> QED BY <1>5, <2>1, <2>2, <2>3 DEF pipewrite
<1>10. /\ state' \in [Slots -> States]
       /\ \A q \in Slots : \/ state'[q] = state[q]
                           \/ state[q] = "SLEEPING" /\ state'[q] = "RUNNABLE"
       /\ \A q \in Slots : state'[q] = "SLEEPING" => chan[q] # OnRead \/ (pipe.readopen => gaveUp')
  <2>1. CASE state' = Wakened(state, OnRead)
    <3>1. /\ state' \in [Slots -> States]
          /\ \A q \in Slots : IF state[q] = "SLEEPING" /\ chan[q] = OnRead
                              THEN state'[q] = "RUNNABLE" ELSE state'[q] = state[q]
      BY <1>3, <2>1, WakeFacts
    <3> QED BY <3>1
  <2>2. CASE state' = state /\ (pipe.readopen => gaveUp')
    BY <1>3, <2>2
  <2> QED BY <1>9, <2>1, <2>2
<1>11. PipeTypes'
  <2>1. plock' \in Slots \cup {NULL} /\ sent' \in Nat
    BY <1>4, <1>6, <1>9
  <2> QED BY <1>2, <1>7, <1>9, <2>1 DEF Inv, PipeTypes
<1>12. TableTypes' /\ TableInv' /\ WaitInv' /\ FilesInv' /\ LockInv'
  <2>1. \A f \in Ends : Open(f)' = Open(f)
    BY <1>3, <1>7 DEF Open
  <2> QED BY <1>1, <1>2, <1>9, <1>10, <1>11, <2>1, PipeKept
<1>13. SleepInv'
  <2>1. pc'[p] = at /\ \A q \in Slots : q # p => pc'[q] = pc[q]
    BY <1>3, <1>9
  <2>2. Room = n /\ pipe.readopen => Filled'
    <3>1. Room' = PIPESIZE - (sent' - Len(got'))
      BY <1>7, <1>8, <1>11, UsedFactsNext
    <3> QED BY <1>2, <1>4, <1>6, <1>7, <3>1 DEF Filled
  <2>3. ASSUME NEW q \in Slots, q # p, state'[q] = "SLEEPING"
        PROVE  /\ pc[q] \in {"wait", "read", "write"}
               /\ pc[q] = "read" => chan[q] = OnRead /\ gaveUp'
               /\ pc[q] = "write" => chan[q] = OnWrite /\ Filled'
    <3>1. state[q] = "SLEEPING"
      BY <1>10, <2>3
    <3>2. /\ pc[q] \in {"wait", "read", "write"} /\ (pc[q] = "read" => chan[q] = OnRead)
          /\ pc[q] = "write" => chan[q] = OnWrite /\ Filled
      BY <3>1 DEF Inv, SleepInv, Sleeps
    <3>3. pc[q] = "read" => pipe.readopen
      <4>1. pc[q] = "read" => Using(q, "r") /\ "r" \in Ends
        BY DEF Using, Ends
      <4>2. pc[q] = "read" => Open("r")
        BY <4>1, UserFacts DEF Inv
      <4> QED BY <4>2 DEF Open
    <3>4. Filled => Filled'
      BY <1>4, <1>5, <2>2 DEF Filled
    <3> QED BY <1>10, <2>3, <3>2, <3>3, <3>4
  <2>4. state'[p] # "SLEEPING"
    BY <1>1, <1>10 DEF Runs
  <2> SUFFICES ASSUME NEW q \in Slots
               PROVE  /\ state'[q] = "SLEEPING" => pc'[q] \in {"wait", "read", "write"}
                      /\ pc'[q] = "rsleep" => Drained'
                      /\ pc'[q] = "wsleep" => Filled'
                      /\ Sleeps(q, "read")' => chan'[q] = OnRead /\ (gaveUp' \/ Drained')
                      /\ Sleeps(q, "write")' => chan'[q] = OnWrite /\ Filled'
    BY DEF SleepInv
  <2>5. CASE q = p
    BY <1>9, <2>1, <2>2, <2>4, <2>5 DEF Sleeps
  <2>6. CASE q # p
    BY <1>2, <1>3, <2>1, <2>3, <2>6 DEF Sleeps
  <2> QED BY <2>5, <2>6
<1> QED BY <1>8, <1>11, <1>12, <1>13 DEF Inv

-----------------------------------------------------------------------------
\* It holds when init is about to run.
LEMMA InitInv == Init => Inv
<1> SUFFICES ASSUME Init PROVE Inv
  OBVIOUS
<1>1. TableTypes
  <2>1. initproc \in Slots /\ Nowhere \in Chans
    BY SlotFacts, ChanFacts
  <2> QED BY <2>1 DEF Init, TableTypes, States, Places
<1>2. PipeTypes
  <2>1. /\ ofile \in [Slots -> SUBSET Ends] /\ ref \in [Ends -> Nat] /\ closing \in [Slots -> Ends \cup {NULL}]
        /\ pipe = NULL /\ plock = NULL /\ left \in [Slots -> Nat] /\ sent \in Nat
    BY DEF Init
  <2>2. got \in Seq(Nat)
    <3>1. got = <<>>
      BY DEF Init
    <3> QED BY <3>1
  <2>3. gaveUp \in BOOLEAN
    <3>1. gaveUp = FALSE
      BY DEF Init
    <3> QED BY <3>1
  <2> QED BY <2>1, <2>2, <2>3 DEF PipeTypes
<1>3. TableInv
  BY SlotFacts DEF Init, TableInv, Alive, Forks
<1>4. FilesInv
  <2>1. \A e \in Ends : Holders(e) = {} /\ ref[e] = 0
    BY DEF Init, Holders
  <2>2. Cardinality({}) = 0
    BY FS_EmptySet
  <2>3. \A e \in Ends : Cardinality(Holders(e)) <= ref[e] /\ ~(ref[e] > 0)
    BY <2>1, <2>2
  <2>4. \A p \in Slots, e \in Ends : closing[p] # e /\ ~Using(p, e) /\ closing[p] = NULL
    BY SlotFacts DEF Init, Using
  <2> QED BY <2>3, <2>4 DEF FilesInv, Ends
<1>5. LockInv
  BY SlotFacts DEF Init, LockInv
<1>6. WaitInv /\ SleepInv
  BY DEF Init, WaitInv, SleepInv, Sleeps
<1>7. DataInv
  BY DEF Init, DataInv
<1> QED BY <1>1, <1>2, <1>3, <1>4, <1>5, <1>6, <1>7 DEF Inv

\* Every step keeps it.
LEMMA NextInv == Inv /\ [Next]_vars => Inv'
<1> SUFFICES ASSUME Inv, [Next]_vars PROVE Inv'
  OBVIOUS
<1>1. CASE UNCHANGED vars
  BY <1>1, Stutter
<1>2. ASSUME NEW p \in Slots, scheduler(p) \/ yield(p) PROVE Inv'
  BY <1>2, SchedulerInv
<1>3. ASSUME NEW p \in Slots, Calls(p) PROVE Inv'
  BY <1>3, AllocInv, CallsInv, PipeallocInv, KillInv DEF Calls
<1>4. ASSUME NEW p \in Slots, Steps(p) PROVE Inv'
  BY <1>4, AbandonInv, CopyInv, DoneInv, ExitInv, ReapInv, WaitsInv, ReadInv, WriteInv, SleepingInv, PipecloseInv
     DEF Steps
<1>5. ASSUME NEW p \in Slots, NEW e \in Ends, fileclose(p, e) PROVE Inv'
  BY <1>5, FilecloseInv
<1> QED BY <1>1, <1>2, <1>3, <1>4, <1>5 DEF Next

\* The inductive invariant of processes, files, locks, sleepers and the pipe
\* holds always: the wakeups, the order of bytes and the ownership of slots and
\* pipe ends all follow from it (proc.c, pipe.c).
THEOREM ProcInvariant == Spec => []Inv
BY InitInv, NextInv, PTL DEF Spec

\* Nobody sleeps through what it waits for: no wakeup of exit, kill, piperead,
\* pipewrite or pipeclose comes between a process's test and its sleep.
THEOREM WakeupsArrive == Spec => []NoLostWakeup
<1>1. Inv => NoLostWakeup
  <2> SUFFICES ASSUME Inv, NEW p \in Slots, state[p] = "SLEEPING"
               PROVE  /\ chan[p] = OnProc(p) => /\ Zombies(p) = {} /\ ~killed[p]
                                                /\ nomaps \/ \E q \in Kids(p) : state[q] # "UNUSED"
                      /\ chan[p] = OnRead /\ ~gaveUp => Empty /\ pipe.writeopen
                      /\ chan[p] = OnWrite => Room = 0 /\ pipe.readopen
    BY DEF NoLostWakeup
  <2>1. CASE pc[p] = "wait"
    BY <2>1, ChanFacts DEF Inv, WaitInv, Sleeps
  <2>2. CASE pc[p] = "read"
    BY <2>2, ChanFacts DEF Inv, SleepInv, Sleeps, Drained
  <2>3. CASE pc[p] = "write"
    BY <2>3, ChanFacts DEF Inv, SleepInv, Sleeps, Filled
  <2> QED BY <2>1, <2>2, <2>3 DEF Inv, SleepInv
<1> QED BY <1>1, ProcInvariant, PTL

\* What is read from the pipe is what was written, in order and once, also
\* when the unsigned counters wrap around (piperead, pipewrite).
THEOREM PipeIsFifo == Spec => []PipeFifo
<1>1. Inv => PipeFifo
  <2> SUFFICES ASSUME Inv, pipe # NULL
               PROVE  got \o Taken(Used) = [i \in 1..sent |-> i]
    BY DEF PipeFifo, Taken
  <2> DEFINE n == Used
             t == Taken(n)
  <2>1. /\ n \in Nat /\ n = sent - Len(got) /\ Len(got) \in Nat /\ sent \in Nat
        /\ got \in Seq(Nat) /\ \A i \in 1..Len(got) : got[i] = i
    BY UsedFacts DEF Inv, PipeTypes, DataInv
  <2>2. n \in 0..Used
    BY <2>1
  <2>3. t \in Seq(Nat) /\ Len(t) = n /\ \A i \in 1..n : t[i] = Len(got) + i
    BY <2>2, TakeFacts DEF Inv
  <2> HIDE DEF n, t
  <2>4. got \o t \in Seq(Nat) /\ Len(got \o t) = sent
    BY <2>1, <2>3
  <2>5. ASSUME NEW i \in 1..sent PROVE (got \o t)[i] = i
    <3>1. (got \o t)[i] = IF i <= Len(got) THEN got[i] ELSE t[i - Len(got)]
      BY <2>1, <2>3
    <3>2. CASE i <= Len(got)
      BY <2>1, <3>1, <3>2
    <3>3. CASE i > Len(got)
      <4>1. i - Len(got) \in 1..n /\ Len(got) + (i - Len(got)) = i
        BY <2>1, <3>3
      <4> QED BY <2>1, <2>3, <3>1, <3>3, <4>1
    <3>4. i <= Len(got) \/ i > Len(got)
      BY <2>1
    <3> QED BY <3>2, <3>3, <3>4
  <2> DEFINE s == got \o t
  <2>6. s \in Seq(Nat) /\ Len(s) = sent /\ \A i \in 1..sent : s[i] = i
    BY <2>4, <2>5
  <2> HIDE DEF s
  <2>7. s = [i \in 1..sent |-> s[i]]
    BY <2>6
  <2>8. s = [i \in 1..sent |-> i]
    BY <2>6, <2>7
  <2> QED BY <2>8 DEF n, t, s
<1> QED BY <1>1, ProcInvariant, PTL

\* Every process has a parent that can wait for it, every open end is counted
\* and open, and who holds the pipe's lock has a processor.
THEOREM AlwaysOwned == Spec => []Owned
<1>1. Inv => Owned
  <2> SUFFICES ASSUME Inv PROVE Owned
    OBVIOUS
  <2>1. \A p \in Slots \ {initproc} : state[p] \notin {"UNUSED", "EMBRYO"} =>
           parent[p] # NULL /\ state[parent[p]] \notin {"UNUSED", "EMBRYO", "ZOMBIE"}
    <3> TAKE p \in Slots \ {initproc}
    <3> HAVE state[p] \notin {"UNUSED", "EMBRYO"}
    <3>1. Alive(p) \/ state[p] = "ZOMBIE"
      BY DEF Inv, TableTypes, States, Alive
    <3>2. parent[p] \in Slots /\ Alive(parent[p])
      BY <3>1 DEF Inv, TableInv
    <3> QED BY <3>2, SlotFacts DEF Alive
  <2>2. ASSUME NEW e \in Ends
        PROVE  /\ Cardinality(Holders(e)) <= ref[e]
               /\ Holders(e) # {} => pipe # NULL /\ (IF e = "r" THEN pipe.readopen ELSE pipe.writeopen)
    <3>1. Holders(e) # {} => Open(e)
      BY UserFacts DEF Inv, FilesInv, Holders
    <3> QED BY <3>1 DEF Inv, FilesInv, Open
  <2>3. plock # NULL => Runs(plock)
    BY DEF Inv, LockInv, PipeTypes
  <2> QED BY <2>1, <2>2, <2>3 DEF Owned, Holders
<1> QED BY <1>1, ProcInvariant, PTL

=============================================================================
