---------------------------- MODULE XvLogProofs -----------------------------
(* Proofs about XvLog for any number of processes, blocks, operations and    *)
(* crashes, and for every size of the log.                                   *)
EXTENDS XvLog, FiniteSetTheorems, TLAPS

-----------------------------------------------------------------------------
(* The inductive invariant. *)

Steps == {"none", "write_log", "write_head", "install", "erase", "end", "read_head"}
Active == {p \in Procs : pc[p] = "op"}
Logs == {s \in Seq(Home) : Len(s) <= LogBlocks - 1 /\ IsInjective(s)}

\* Every variable keeps its type; a log has a block once.
Types ==
    /\ disk \in [Home -> Vals] /\ dlog \in [1..(LogBlocks - 1) -> Vals] /\ dhead \in Logs
    /\ cache \in [Home -> Vals \cup {NotCached}] /\ dirty \subseteq Home
    /\ lh \in Logs /\ outstanding = Cardinality(Active) /\ committing \in BOOLEAN
    /\ step \in Steps /\ tail \in Nat \ {0}
    /\ pc \in [Procs -> {"idle", "begin", "sleep", "op", "commit"}]
    /\ wrote \in [Procs -> SUBSET Home]

\* No operation is half done during a commit, and none has begun during
\* recovery.  What a finished group wrote is committed before the next one.
Control ==
    /\ committing => step \in {"write_log", "write_head", "install", "erase", "end"}
    /\ ~committing => step \in {"none", "install", "erase", "read_head"}
    /\ \A p \in Procs : pc[p] = "op" => step = "none"
    /\ Booting => \A p \in Procs : pc[p] = "idle"
    /\ step = "none" /\ Active = {} => lh = <<>>

InLog(b) == \E i \in 1..Len(lh) : lh[i] = b

\* The blocks of the group are pinned until each of them is installed.
DirtyInv ==
    /\ step \in {"none", "write_log", "write_head"} => \A b \in Home : b \in dirty <=> InLog(b)
    /\ step = "install" /\ committing =>
           \A b \in Home : b \in dirty <=> \E i \in tail..Len(lh) : lh[i] = b
    /\ step = "install" /\ ~committing => dirty = {}
    /\ step \in {"erase", "end", "read_head"} => dirty = {} /\ lh = <<>>

\* A clean buffer has what the disk has.
CacheInv == \A b \in Home : IF b \in dirty THEN cache[b] # NotCached
                            ELSE cache[b] \in {NotCached, disk[b]}

\* How far the commit or the recovery is.  The header on disk is empty but from
\* write_head to the end of the installation.
LogInv ==
    /\ step = "write_log" => /\ tail <= Len(lh) + 1
                             /\ \A i \in 1..(tail - 1) : dlog[i] = cache[lh[i]]
    /\ step = "write_head" => \A i \in 1..Len(lh) : dlog[i] = cache[lh[i]]
    /\ step = "install" => /\ dhead = lh /\ tail <= Len(lh) + 1
                           /\ \A i \in 1..(tail - 1) : disk[lh[i]] = dlog[i]
                           /\ committing => \A i \in tail..Len(lh) : cache[lh[i]] = dlog[i]
    /\ step = "erase" => \A i \in 1..Len(dhead) : disk[dhead[i]] = dlog[i]
    /\ step \notin {"install", "erase", "read_head"} => dhead = <<>>

Inv == Types /\ Control /\ DirtyInv /\ CacheInv /\ LogInv

-----------------------------------------------------------------------------
(* The invariant for the space in the log. *)

\* The blocks that are set aside for the operations in progress.
Reserve == {x \in Procs \X (1..MAXOPBLOCKS) : pc[x[1]] = "op" /\ Cardinality(wrote[x[1]]) < x[2]}

\* An operation writes fewer blocks than begin_op sets aside for it; two such
\* reservations make up for what the log on disk is short of.
LogFits ==
    /\ OpBlocks < MAXOPBLOCKS /\ OpBlocks < LogBlocks - 1
    /\ LOGSIZE < LogBlocks - 1 + 2 * (MAXOPBLOCKS - OpBlocks)

\* The blocks of an operation are in the log.
WroteInv(p) == /\ IsFiniteSet(wrote[p]) /\ Cardinality(wrote[p]) <= OpBlocks
               /\ pc[p] = "op" => \A b \in wrote[p] : InLog(b)
               /\ pc[p] # "op" => wrote[p] = {}

\* The log has room for what is set aside; and for more if an operation of the
\* group has ended.
SpaceInv ==
    /\ \A p \in Procs : WroteInv(p)
    /\ Active # {} => Len(lh) + Cardinality(Reserve) <= LOGSIZE
    /\ \/ Active = {} \/ outstanding >= 2
       \/ \A p \in Active : Len(lh) <= Cardinality(wrote[p])
       \/ Len(lh) + Cardinality(Reserve) + (MAXOPBLOCKS - OpBlocks) <= LOGSIZE

-----------------------------------------------------------------------------
(* Logs and operations in progress. *)

\* A log is a sequence of different home blocks that fits on disk.
LEMMA LogFacts ==
    ASSUME NEW s \in Logs
    PROVE  /\ s \in Seq(Home) /\ Len(s) \in Nat /\ Len(s) <= LogBlocks - 1 /\ DOMAIN s = 1..Len(s)
           /\ \A i \in 1..Len(s) : s[i] \in Home /\ i \in 1..(LogBlocks - 1)
           /\ \A i, j \in 1..Len(s) : s[i] = s[j] => i = j
<1>1. s \in Seq(Home) /\ Len(s) <= LogBlocks - 1 /\ IsInjective(s) /\ LogBlocks \in Nat
  BY LogAssumption DEF Logs
<1>2. DOMAIN s = 1..Len(s) /\ Len(s) \in Nat /\ \A i \in 1..Len(s) : s[i] \in Home
  BY <1>1
<1> QED BY <1>1, <1>2 DEF IsInjective

\* The empty one is a log.
LEMMA EmptyLog == <<>> \in Logs /\ Len(<<>>) = 0
BY LogAssumption DEF Logs, IsInjective

\* log_write adds the block to the log unless it is there.
LEMMA LoggedFacts ==
    ASSUME lh \in Logs, NEW b \in Home, ~TooBig
    PROVE  /\ Logged(b) \in Logs
           /\ InLog(b) => Logged(b) = lh
           /\ ~InLog(b) => Len(Logged(b)) = Len(lh) + 1
           /\ \A c \in Home : (\E i \in 1..Len(Logged(b)) : Logged(b)[i] = c) <=> InLog(c) \/ c = b
<1>1. b \in ToSet(lh) <=> InLog(b)
  BY LogFacts DEF ToSet, InLog
<1>2. CASE InLog(b)
  BY <1>1, <1>2 DEF Logged, InLog
<1>3. CASE ~InLog(b)
  <2> DEFINE s == Append(lh, b)
  <2>1. Logged(b) = s
    BY <1>1, <1>3 DEF Logged
  <2>2. Len(lh) < LogBlocks - 1 /\ LogBlocks \in Nat /\ Len(lh) \in Nat /\ lh \in Seq(Home)
    BY LogAssumption, LogFacts DEF TooBig
  <2>3. /\ s \in Seq(Home) /\ Len(s) = Len(lh) + 1 /\ s[Len(lh) + 1] = b
        /\ \A i \in 1..Len(lh) : s[i] = lh[i]
    BY <2>2
  <2> HIDE DEF s
  <2>4. \A i, j \in 1..Len(s) : s[i] = s[j] => i = j
    BY <1>3, <2>2, <2>3, LogFacts DEF InLog
  <2>5. s \in Logs
    BY <2>2, <2>3, <2>4 DEF Logs, IsInjective
  <2>6. \A c \in Home : (\E i \in 1..Len(s) : s[i] = c) <=> InLog(c) \/ c = b
    BY <2>2, <2>3 DEF InLog
  <2> QED BY <1>3, <2>1, <2>3, <2>5, <2>6
<1> QED BY <1>2, <1>3

\* outstanding counts the operations under way.
LEMMA ActiveFinite ==
    ASSUME Types
    PROVE  IsFiniteSet(Active) /\ outstanding \in Nat /\ (outstanding = 0 <=> Active = {})
           /\ outstanding = Cardinality(Active)
<1>1. IsFiniteSet(Active)
  BY LogAssumption, FS_Subset DEF Active
<1> QED BY <1>1, FS_CardinalityType, FS_EmptySet DEF Types

\* An operation more, an operation less.
LEMMA ActiveMore ==
    ASSUME Types, NEW p \in Procs, p \notin Active
    PROVE  Cardinality(Active \cup {p}) = outstanding + 1
BY ActiveFinite, FS_AddElement

\* One of them less.
LEMMA ActiveLess ==
    ASSUME Types, NEW p \in Active
    PROVE  /\ Cardinality(Active \ {p}) = outstanding - 1
           /\ outstanding = 1 <=> Active \ {p} = {}
<1>1. IsFiniteSet(Active \ {p}) /\ Cardinality(Active \ {p}) = outstanding - 1
  BY ActiveFinite, FS_RemoveElement
<1>2. Cardinality(Active \ {p}) = 0 <=> Active \ {p} = {}
  BY <1>1, FS_EmptySet
<1> QED BY <1>1, <1>2, ActiveFinite

-----------------------------------------------------------------------------
(* One lemma per action. *)

\* A program that starts an operation keeps the invariant.
LEMMA CallInv ==
    ASSUME Inv, NEW p \in Procs, Call(p)
    PROVE  Inv' /\ Active' = Active
<1>1. /\ step = "none" \/ committing
      /\ pc[p] = "idle" /\ pc' = [pc EXCEPT ![p] = "begin"]
      /\ UNCHANGED <<disk, dlog, dhead, cache, dirty, lh, outstanding, committing, step, tail, wrote>>
  BY DEF Call, dvars, cvars, lvars
<1>2. Active' = Active
  BY <1>1 DEF Active, Inv, Types
<1>3. Types'
  BY <1>1, <1>2 DEF Inv, Types
<1>4. Control'
  BY <1>1, <1>2 DEF Inv, Types, Control, Booting
<1>5. DirtyInv' /\ CacheInv' /\ LogInv'
  BY <1>1 DEF Inv, DirtyInv, CacheInv, LogInv, InLog
<1> QED BY <1>2, <1>3, <1>4, <1>5 DEF Inv

\* begin_op keeps it, whether it sleeps or goes on.
LEMMA BeginInv ==
    ASSUME Inv, NEW p \in Procs, begin_op(p)
    PROVE  Inv'
<1>1. /\ pc[p] = "begin"
      /\ UNCHANGED <<disk, dlog, dhead, cache, dirty, lh, committing, step, tail, wrote>>
  BY DEF begin_op, dvars, cvars
<1>2. ~Booting
  BY <1>1 DEF Inv, Control
<1>3. DirtyInv' /\ CacheInv' /\ LogInv'
  BY <1>1 DEF Inv, DirtyInv, CacheInv, LogInv, InLog
<1>4. CASE committing \/ Exhausts
  <2>1. pc' = [pc EXCEPT ![p] = "sleep"] /\ outstanding' = outstanding
    BY <1>4 DEF begin_op
  <2>2. Active' = Active
    BY <1>1, <2>1 DEF Active, Inv, Types
  <2>3. Types'
    BY <1>1, <2>1, <2>2 DEF Inv, Types
  <2>4. Control'
    BY <1>1, <1>2, <2>1, <2>2 DEF Inv, Types, Control, Booting
  <2> QED BY <1>3, <2>3, <2>4 DEF Inv
<1>5. CASE ~(committing \/ Exhausts)
  <2>1. pc' = [pc EXCEPT ![p] = "op"] /\ outstanding' = outstanding + 1 /\ step = "none"
    BY <1>2, <1>5 DEF begin_op, Booting
  <2>2. Active' = Active \cup {p} /\ p \notin Active
    BY <1>1, <2>1 DEF Active, Inv, Types
  <2>3. Cardinality(Active') = outstanding'
    BY <2>1, <2>2, ActiveMore DEF Inv
  <2>4. Types'
    BY <1>1, <2>1, <2>3 DEF Inv, Types
  <2>5. Control'
    BY <1>1, <1>2, <2>1, <2>2 DEF Inv, Types, Control, Booting
  <2> QED BY <1>3, <2>4, <2>5 DEF Inv
<1> QED BY <1>4, <1>5

\* log_write keeps it, and adds at most its block to the log.
LEMMA WriteInv ==
    ASSUME Inv, NEW p \in Procs, NEW b \in Home, NEW v \in Vals, log_write(p, b, v)
    PROVE  Inv' /\ Active' = Active /\ step = "none" /\ (\A c \in Home : InLog(c)' <=> InLog(c) \/ c = b)
<1>1. /\ pc[p] = "op" /\ ~TooBig /\ wrote' = [wrote EXCEPT ![p] = @ \cup {b}]
      /\ cache' = [cache EXCEPT ![b] = v] /\ dirty' = dirty \cup {b} /\ lh' = Logged(b)
      /\ UNCHANGED <<disk, dlog, dhead, outstanding, committing, step, tail, pc>>
  BY DEF log_write, dvars, Pin
<1>2. step = "none" /\ ~committing /\ p \in Active /\ Active' = Active
  BY <1>1 DEF Inv, Control, Active
<1>3. lh' \in Logs /\ \A c \in Home : InLog(c)' <=> InLog(c) \/ c = b
  BY <1>1, LoggedFacts DEF Inv, Types, InLog
<1>4. Types'
  BY <1>1, <1>2, <1>3 DEF Inv, Types
<1>5. Control'
  BY <1>1, <1>2 DEF Inv, Control, Booting
<1>6. DirtyInv'
  BY <1>1, <1>2, <1>3 DEF Inv, DirtyInv
<1>7. CacheInv'
  BY <1>1, LogAssumption DEF Inv, Types, CacheInv
<1>8. LogInv'
  BY <1>1, <1>2 DEF Inv, LogInv
<1> QED BY <1>2, <1>3, <1>4, <1>5, <1>6, <1>7, <1>8 DEF Inv

\* end_op keeps it; no commit is under way then.
LEMMA EndInv ==
    ASSUME Inv, NEW p \in Procs, end_op(p)
    PROVE  Inv' /\ Active' = Active \ {p} /\ p \in Active /\ step = "none"
<1>1. /\ pc[p] = "op" /\ outstanding' = outstanding - 1 /\ committing' = (outstanding = 1)
      /\ wrote' = [wrote EXCEPT ![p] = {}]
      /\ UNCHANGED <<disk, dlog, dhead, cache, dirty, lh>>
  BY DEF end_op, dvars, cvars
<1>2. step = "none" /\ ~committing /\ p \in Active
  BY <1>1 DEF Inv, Control, Active
<1>3. CacheInv'
  BY <1>1 DEF Inv, CacheInv
<1>4. CASE outstanding = 1
  <2>1. /\ committing' /\ pc' = [pc EXCEPT ![p] = "commit"] /\ tail' = 1
        /\ step' = IF lh = <<>> THEN "end" ELSE "write_log"
    BY <1>1, <1>4 DEF end_op
  <2>2. Active' = Active \ {p} /\ Active' = {}
    <3>1. Active' = Active \ {p}
      BY <2>1 DEF Active, Inv, Types
    <3> QED BY <1>2, <1>4, <3>1, ActiveLess DEF Inv
  <2>3. Types'
    BY <1>1, <1>2, <2>1, <2>2, ActiveLess DEF Inv, Types, Steps
  <2>4. Control'
    BY <2>1, <2>2 DEF Inv, Types, Control, Booting, Active
  <2>5. DirtyInv'
    <3>1. \A b \in Home : b \in dirty <=> InLog(b)
      BY <1>2 DEF Inv, DirtyInv
    <3>2. lh = <<>> => dirty = {}
      BY <3>1, EmptyLog DEF InLog, Inv, Types
    <3>3. \A b \in Home : InLog(b)' <=> InLog(b)
      BY <1>1 DEF InLog
    <3> QED BY <1>1, <2>1, <3>1, <3>2, <3>3 DEF DirtyInv
  <2>6. LogInv'
    <3>1. dhead' = <<>> /\ Len(lh') \in Nat
      BY <1>1, <1>2, LogFacts DEF Inv, LogInv, Types
    <3> QED BY <1>1, <2>1, <3>1 DEF LogInv
  <2> QED BY <1>2, <1>3, <2>2, <2>3, <2>4, <2>5, <2>6 DEF Inv
<1>5. CASE outstanding # 1
  <2>1. ~committing' /\ pc' = [Woken EXCEPT ![p] = "idle"] /\ step' = step /\ tail' = tail
    BY <1>1, <1>5 DEF end_op
  <2>2. Active' = Active \ {p} /\ Active' # {}
    <3>1. Active' = Active \ {p}
      BY <2>1 DEF Active, Inv, Types, Woken
    <3> QED BY <1>2, <1>5, <3>1, ActiveLess DEF Inv
  <2>3. Types'
    <3>1. pc' \in [Procs -> {"idle", "begin", "sleep", "op", "commit"}]
      BY <2>1 DEF Inv, Types, Woken
    <3>2. outstanding' = Cardinality(Active')
      BY <1>1, <1>2, <2>2, ActiveLess DEF Inv
    <3> QED BY <1>1, <1>2, <2>1, <3>1, <3>2 DEF Inv, Types
  <2>4. Control'
    BY <1>2, <2>1, <2>2 DEF Inv, Types, Control, Booting
  <2>5. DirtyInv' /\ LogInv'
    BY <1>1, <1>2, <2>1 DEF Inv, DirtyInv, LogInv, InLog
  <2> QED BY <1>2, <1>3, <2>2, <2>3, <2>4, <2>5 DEF Inv
<1> QED BY <1>4, <1>5

\* Writing a block of the log keeps it.
LEMMA WriteLogInv ==
    ASSUME Inv, write_log
    PROVE  Inv' /\ committing /\ Active' = Active
<1>1. /\ step = "write_log"
      /\ UNCHANGED <<disk, dhead, cache, dirty, lh, outstanding, committing, pc, wrote>>
  BY DEF write_log, cvars, lvars, pvars
<1>2. committing /\ Active' = Active /\ dhead = <<>>
  BY <1>1 DEF Inv, Control, Active, LogInv
<1>3. CacheInv'
  BY <1>1 DEF Inv, CacheInv
<1>4. lh \in Logs /\ \A i \in 1..Len(lh) : lh[i] \in dirty /\ View(lh[i]) = cache[lh[i]] /\ cache[lh[i]] \in Vals
  <2>1. lh \in Logs
    BY DEF Inv, Types
  <2>2. \A i \in 1..Len(lh) : lh[i] \in Home /\ lh[i] \in dirty
    BY <1>1, <2>1, LogFacts DEF Inv, DirtyInv, InLog
  <2>3. \A b \in dirty : cache[b] # NotCached /\ cache[b] \in Vals
    BY DEF Inv, CacheInv, Types
  <2> QED BY <2>1, <2>2, <2>3 DEF View
<1>5. CASE tail <= Len(lh)
  <2>1. dlog' = [dlog EXCEPT ![tail] = View(lh[tail])] /\ tail' = tail + 1 /\ step' = step
    BY <1>1, <1>5 DEF write_log
  <2>2. tail \in 1..Len(lh) /\ Len(lh) \in Nat /\ tail \in 1..(LogBlocks - 1)
    BY <1>4, <1>5, LogFacts DEF Inv, Types
  <2>3. Types'
    BY <1>1, <1>2, <1>4, <2>1, <2>2 DEF Inv, Types
  <2>4. Control' /\ DirtyInv'
    BY <1>1, <1>2, <2>1 DEF Inv, Control, DirtyInv, Booting, InLog
  <2>5. LogInv'
    <3>1. \A i \in 1..tail : dlog'[i] = cache[lh[i]]
      <4>1. \A i \in 1..tail : i \in 1..(LogBlocks - 1) /\ i \in 1..Len(lh)
        BY <2>2, LogAssumption
      <4>2. \A i \in 1..tail : i # tail => i \in 1..(tail - 1)
        BY <2>2
      <4>3. \A i \in 1..(tail - 1) : dlog[i] = cache[lh[i]]
        BY <1>1 DEF Inv, LogInv
      <4> QED BY <1>4, <2>1, <2>2, <4>1, <4>2, <4>3 DEF Inv, Types
    <3>2. (tail + 1) - 1 = tail /\ tail + 1 <= Len(lh) + 1
      BY <2>2
    <3> QED BY <1>1, <1>2, <2>1, <3>1, <3>2 DEF LogInv
  <2> QED BY <1>2, <1>3, <2>3, <2>4, <2>5 DEF Inv
<1>6. CASE ~(tail <= Len(lh))
  <2>1. step' = "write_head" /\ dlog' = dlog /\ tail' = tail
    BY <1>1, <1>6 DEF write_log
  <2>2. tail \in Nat \ {0} /\ Len(lh) \in Nat /\ tail - 1 = Len(lh)
    BY <1>1, <1>4, <1>6, LogFacts DEF Inv, Types, LogInv
  <2>3. Types'
    BY <1>1, <1>2, <2>1 DEF Inv, Types, Steps
  <2>4. Control' /\ DirtyInv'
    BY <1>1, <1>2, <2>1 DEF Inv, Control, DirtyInv, Booting, InLog
  <2>5. LogInv'
    BY <1>1, <1>2, <2>1, <2>2 DEF Inv, LogInv
  <2> QED BY <1>2, <1>3, <2>3, <2>4, <2>5 DEF Inv
<1> QED BY <1>5, <1>6

\* So does the write of the header, which commits.
LEMMA WriteHeadInv ==
    ASSUME Inv, write_head
    PROVE  Inv' /\ committing /\ Active' = Active
<1>1. /\ step = "write_head" /\ dhead' = lh /\ step' = "install" /\ tail' = 1
      /\ UNCHANGED <<disk, dlog, cache, dirty, lh, outstanding, committing, pc, wrote>>
  BY DEF write_head, cvars, lvars, pvars
<1>2. committing /\ Active' = Active /\ lh \in Logs /\ Len(lh) \in Nat
  BY <1>1, LogFacts DEF Inv, Types, Control, Active
<1>3. Types'
  BY <1>1, <1>2 DEF Inv, Types, Steps
<1>4. Control' /\ CacheInv'
  BY <1>1, <1>2 DEF Inv, Control, CacheInv, Booting
<1>5. DirtyInv'
  BY <1>1, <1>2 DEF Inv, DirtyInv, InLog
<1>6. LogInv'
  BY <1>1, <1>2 DEF Inv, LogInv
<1> QED BY <1>2, <1>3, <1>4, <1>5, <1>6 DEF Inv

\* So does installing a block; no operation is under way.
LEMMA InstallInv ==
    ASSUME Inv, install_trans
    PROVE  Inv' /\ Active' = Active /\ Active = {}
<1>1. /\ step = "install"
      /\ UNCHANGED <<dlog, dhead, outstanding, committing, pc, wrote>>
  BY DEF install_trans, pvars
<1>2. Active' = Active /\ Active = {} /\ lh \in Logs /\ Len(lh) \in Nat /\ dhead = lh /\ tail \in Nat \ {0}
  BY <1>1, LogFacts DEF Inv, Types, Control, Active, LogInv
<1>3. CASE More
  <2>1. /\ disk' = [disk EXCEPT ![lh[tail]] = dlog[tail]]
        /\ cache' = [cache EXCEPT ![lh[tail]] = dlog[tail]]
        /\ dirty' = dirty \ {lh[tail]}
        /\ tail' = tail + 1 /\ UNCHANGED <<lh, step>>
    BY <1>1, <1>3 DEF install_trans
  <2>2. PICK b \in Home : b = lh[tail]
    BY <1>2, <1>3, LogFacts DEF More
  <2>3. PICK v \in Vals : v = dlog[tail]
    BY <1>2, <1>3, LogFacts DEF More, Inv, Types
  <2>4. tail \in 1..Len(lh) /\ \A i \in 1..Len(lh) : lh[i] \in Home /\ (lh[i] = b => i = tail)
    BY <1>2, <1>3, <2>2, LogFacts DEF More
  <2>5. disk' = [disk EXCEPT ![b] = v] /\ cache' = [cache EXCEPT ![b] = v] /\ dirty' = dirty \ {b}
    BY <2>1, <2>2, <2>3
  <2>6. Types'
    <3>1. disk' \in [Home -> Vals] /\ cache' \in [Home -> Vals \cup {NotCached}]
      BY <2>5 DEF Inv, Types
    <3>2. dirty' \subseteq Home
      BY <2>5 DEF Inv, Types
    <3>3. tail' \in Nat \ {0}
      BY <1>2, <2>1
    <3> QED BY <1>1, <1>2, <2>1, <3>1, <3>2, <3>3 DEF Inv, Types
  <2>7. Control'
    BY <1>1, <1>2, <2>1 DEF Inv, Control, Booting
  <2>8. CacheInv'
    BY <2>5 DEF Inv, Types, CacheInv
  <2>9. DirtyInv'
    <3>1. CASE committing
      <4>1. \A c \in Home : c \in dirty <=> \E i \in tail..Len(lh) : lh[i] = c
        BY <1>1, <3>1 DEF Inv, DirtyInv
      <4>2. \A i : i \in tail..Len(lh) <=> i = tail \/ i \in tail + 1..Len(lh)
        BY <1>2, <2>4
      <4>3. tail \notin tail + 1..Len(lh) /\ \A i \in tail + 1..Len(lh) : i \in 1..Len(lh)
        BY <1>2, <2>4
      <4>4. \A c \in Home : c \in dirty' <=> \E i \in tail + 1..Len(lh) : lh[i] = c
        BY <2>2, <2>4, <2>5, <4>1, <4>2, <4>3
      <4> QED BY <1>1, <2>1, <3>1, <4>4 DEF DirtyInv
    <3>2. CASE ~committing
      BY <1>1, <2>1, <2>5, <3>2 DEF Inv, DirtyInv
    <3> QED BY <3>1, <3>2
  <2>10. LogInv'
    <3>1. \A i \in 1..tail : i \in 1..Len(lh) /\ (i # tail => i \in 1..(tail - 1))
      BY <1>2, <2>4
    <3>2. \A i \in 1..tail : disk'[lh[i]] = dlog[i]
      BY <1>1, <2>2, <2>3, <2>4, <2>5, <3>1 DEF Inv, LogInv, Types
    <3>3. committing => \A i \in tail + 1..Len(lh) : cache'[lh[i]] = dlog[i]
      <4>1. \A i \in tail + 1..Len(lh) : i \in 1..Len(lh) /\ i \in tail..Len(lh) /\ i # tail
        BY <1>2, <2>4
      <4> QED BY <1>1, <2>4, <2>5, <4>1 DEF Inv, LogInv, Types
    <3>4. (tail + 1) - 1 = tail /\ tail + 1 <= Len(lh) + 1
      BY <1>2, <2>4
    <3> QED BY <1>1, <1>2, <2>1, <3>2, <3>3, <3>4 DEF LogInv
  <2> QED BY <1>2, <2>6, <2>7, <2>8, <2>9, <2>10 DEF Inv
<1>4. CASE ~More
  <2>1. lh' = <<>> /\ step' = "erase" /\ UNCHANGED <<disk, cache, dirty, tail>>
    BY <1>1, <1>4 DEF install_trans, cvars
  <2>2. tail - 1 = Len(lh) /\ tail..Len(lh) = {}
    BY <1>1, <1>2, <1>4 DEF More, Inv, LogInv
  <2>3. Types'
    BY <1>1, <1>2, <2>1, EmptyLog DEF Inv, Types, Steps
  <2>4. Control' /\ CacheInv'
    BY <1>1, <1>2, <2>1 DEF Inv, Control, Booting, CacheInv
  <2>5. DirtyInv'
    BY <1>1, <2>1, <2>2 DEF Inv, Types, DirtyInv
  <2>6. LogInv'
    BY <1>1, <1>2, <2>1, <2>2 DEF Inv, LogInv
  <2> QED BY <1>2, <2>3, <2>4, <2>5, <2>6 DEF Inv
<1> QED BY <1>3, <1>4

\* So does the write of the empty header.
LEMMA EraseInv ==
    ASSUME Inv, erase
    PROVE  Inv' /\ Active' = Active /\ Active = {}
<1>1. /\ step = "erase" /\ dhead' = lh /\ step' = IF committing THEN "end" ELSE "none"
      /\ UNCHANGED <<disk, dlog, cache, dirty, lh, outstanding, committing, tail, pc, wrote>>
  BY DEF erase, cvars, lvars, pvars
<1>2. Active' = Active /\ Active = {} /\ lh = <<>> /\ dirty = {}
  BY <1>1 DEF Inv, Control, Active, DirtyInv
<1>3. Types'
  BY <1>1, <1>2 DEF Inv, Types, Steps
<1>4. Control' /\ CacheInv'
  BY <1>1, <1>2 DEF Inv, Control, Booting, CacheInv, Active
<1>5. DirtyInv'
  BY <1>1, <1>2, EmptyLog DEF DirtyInv, InLog
<1>6. LogInv'
  BY <1>1, <1>2 DEF LogInv
<1> QED BY <1>2, <1>3, <1>4, <1>5, <1>6 DEF Inv

\* So does the end of a commit, which wakes the waiters.
LEMMA EndCommitInv ==
    ASSUME Inv, NEW p \in Procs, end_commit(p)
    PROVE  Inv' /\ Active' = Active /\ Active = {} /\ committing
<1>1. /\ pc[p] = "commit" /\ step = "end" /\ ~committing' /\ committing' = FALSE /\ step' = "none"
      /\ pc' = [Woken EXCEPT ![p] = "idle"]
      /\ UNCHANGED <<disk, dlog, dhead, cache, dirty, lh, outstanding, tail, wrote>>
  BY DEF end_commit, AfterCommit, dvars, cvars
<1>2. /\ Active' = Active /\ Active = {} /\ lh = <<>> /\ dirty = {} /\ committing /\ dhead = <<>>
      /\ \A q \in Procs : pc'[q] # "op"
      /\ pc' \in [Procs -> {"idle", "begin", "sleep", "op", "commit"}]
  BY <1>1 DEF Inv, Types, Control, Active, DirtyInv, LogInv, Woken
<1>3. Types'
  BY <1>1, <1>2 DEF Inv, Types, Steps
<1>4. Control' /\ CacheInv'
  BY <1>1, <1>2 DEF Inv, Control, Booting, CacheInv, Active
<1>5. DirtyInv'
  BY <1>1, <1>2, EmptyLog DEF DirtyInv, InLog
<1>6. LogInv'
  BY <1>1, <1>2 DEF LogInv
<1> QED BY <1>2, <1>3, <1>4, <1>5, <1>6 DEF Inv

\* So does a crash, between any two writes.
LEMMA CrashInv ==
    ASSUME Inv, Crash
    PROVE  Inv' /\ Active' = {}
<1>1. /\ cache' = [b \in Home |-> NotCached] /\ dirty' = {}
      /\ lh' = <<>> /\ outstanding' = 0 /\ committing' = FALSE
      /\ step' = "read_head" /\ tail' = 1
      /\ pc' = [p \in Procs |-> "idle"] /\ wrote' = [p \in Procs |-> {}]
      /\ UNCHANGED <<disk, dlog, dhead>>
  BY DEF Crash, dvars
<1>2. Active' = {}
  BY <1>1 DEF Active
<1>3. Types'
  <2>1. outstanding' = Cardinality(Active')
    BY <1>1, <1>2, FS_EmptySet
  <2>2. lh' \in Logs /\ dhead' \in Logs
    BY <1>1, EmptyLog DEF Inv, Types
  <2>3. /\ disk' \in [Home -> Vals] /\ dlog' \in [1..(LogBlocks - 1) -> Vals]
        /\ cache' \in [Home -> Vals \cup {NotCached}]
    BY <1>1 DEF Inv, Types
  <2>4. wrote' \in [Procs -> SUBSET Home] /\ dirty' \subseteq Home
    BY <1>1
  <2>6. committing' \in BOOLEAN
    BY <1>1
  <2>5. /\ step' \in Steps /\ tail' \in Nat \ {0}
        /\ pc' \in [Procs -> {"idle", "begin", "sleep", "op", "commit"}]
    BY <1>1 DEF Steps
  <2> QED BY <2>1, <2>2, <2>3, <2>4, <2>5, <2>6 DEF Types
<1>4. Control' /\ CacheInv'
  BY <1>1, <1>2 DEF Control, CacheInv, Booting
<1>5. DirtyInv' /\ LogInv'
  BY <1>1 DEF DirtyInv, LogInv
<1> QED BY <1>2, <1>3, <1>4, <1>5 DEF Inv

\* So does the start of recovery.
LEMMA ReadHeadInv ==
    ASSUME Inv, read_head
    PROVE  Inv' /\ Active' = Active /\ Active = {} /\ ~committing
<1>1. /\ step = "read_head" /\ lh' = dhead /\ step' = "install" /\ tail' = 1
      /\ UNCHANGED <<disk, dlog, dhead, cache, dirty, outstanding, committing, pc, wrote>>
  BY DEF read_head, dvars, cvars, pvars
<1>2. Active' = Active /\ Active = {} /\ dirty = {} /\ ~committing /\ dhead \in Logs /\ Len(dhead) \in Nat
  BY <1>1, LogFacts DEF Inv, Types, Control, Active, DirtyInv
<1>3. Types'
  BY <1>1, <1>2 DEF Inv, Types, Steps
<1>4. Control' /\ CacheInv'
  BY <1>1, <1>2 DEF Inv, Control, Booting, CacheInv
<1>5. DirtyInv' /\ LogInv'
  BY <1>1, <1>2 DEF DirtyInv, LogInv
<1> QED BY <1>2, <1>3, <1>4, <1>5 DEF Inv

\* Reading and recycling change no buffer that the log needs.
LEMMA BufferInv ==
    ASSUME Inv, NEW b \in Home, bread(b) \/ Recycle(b)
    PROVE  Inv' /\ Active' = Active /\ \A c \in Home : View(c)' = View(c)
<1>1. UNCHANGED <<disk, dlog, dhead, dirty, lh, outstanding, committing, step, tail, pc, wrote>>
  BY DEF bread, Recycle, dvars, lvars, pvars
<1>2. PICK x \in Vals \cup {NotCached} : cache' = [cache EXCEPT ![b] = x]
  BY DEF bread, Recycle, View, Inv, Types
<1>3. /\ b \in dirty => x = cache[b]
      /\ b \notin dirty => x \in {NotCached, disk[b]} /\ cache[b] \in {NotCached, disk[b]}
  <2>1. IF b \in dirty THEN cache[b] # NotCached ELSE cache[b] \in {NotCached, disk[b]}
    BY DEF Inv, CacheInv
  <2>2. x = View(b) \/ (x = NotCached /\ b \notin dirty)
    BY <1>2 DEF bread, Recycle, Inv, Types
  <2> QED BY <2>1, <2>2 DEF View
<1>4. \A c \in Home : c # b => cache'[c] = cache[c]
  BY <1>2 DEF Inv, Types
<1>5. cache'[b] = x /\ (b \in dirty => cache' = cache)
  BY <1>2, <1>3 DEF Inv, Types
<1>6. Active' = Active
  BY <1>1 DEF Active
<1>7. Types'
  BY <1>1, <1>2, <1>6 DEF Inv, Types
<1>8. Control' /\ DirtyInv'
  BY <1>1, <1>6 DEF Inv, Control, Booting, DirtyInv, InLog
<1>9. CacheInv'
  BY <1>1, <1>3, <1>4, <1>5 DEF Inv, CacheInv
<1>10. LogInv'
  <2>1. \A i \in 1..Len(lh) : lh[i] \in Home /\ Len(lh) \in Nat
    BY LogFacts DEF Inv, Types
  <2>2. step \in {"write_log", "write_head"} => \A i \in 1..Len(lh) : cache'[lh[i]] = cache[lh[i]]
    BY <1>4, <1>5, <2>1 DEF Inv, DirtyInv, InLog
  <2>3. step = "install" /\ committing => \A i \in tail..Len(lh) : cache'[lh[i]] = cache[lh[i]]
    <3>1. \A i \in tail..Len(lh) : i \in 1..Len(lh)
      BY <2>1, LogFacts DEF Inv, Types
    <3> QED BY <1>4, <1>5, <2>1, <3>1 DEF Inv, DirtyInv
  <2>4. step = "write_log" => \A i \in 1..(tail - 1) : i \in 1..Len(lh)
    BY LogFacts DEF Inv, Types, LogInv
  <2> QED BY <1>1, <2>2, <2>3, <2>4 DEF Inv, LogInv
<1>11. \A c \in Home : View(c)' = View(c)
  BY <1>1, <1>3, <1>4, <1>5 DEF View
<1> QED BY <1>6, <1>7, <1>8, <1>9, <1>10, <1>11 DEF Inv

\* The invariant holds when the system comes up on an empty log.
LEMMA InvInit == Init => Inv
<1> SUFFICES ASSUME Init PROVE Inv
  OBVIOUS
<1>1. Active = {}
  BY DEF Init, Active
<1>2. Types
  <2>1. outstanding = Cardinality(Active)
    BY <1>1, FS_EmptySet DEF Init
  <2>2. lh \in Logs /\ dhead \in Logs
    BY EmptyLog DEF Init
  <2>3. /\ disk \in [Home -> Vals] /\ dlog \in [1..(LogBlocks - 1) -> Vals]
        /\ cache \in [Home -> Vals \cup {NotCached}]
    BY LogAssumption DEF Init
  <2>4. wrote \in [Procs -> SUBSET Home] /\ dirty \subseteq Home
    BY DEF Init
  <2>6. committing \in BOOLEAN
    BY DEF Init
  <2>5. /\ step \in Steps /\ tail \in Nat \ {0}
        /\ pc \in [Procs -> {"idle", "begin", "sleep", "op", "commit"}]
    BY DEF Init, Steps
  <2> QED BY <2>1, <2>2, <2>3, <2>4, <2>5, <2>6 DEF Types
<1>3. Control /\ DirtyInv /\ CacheInv /\ LogInv
  BY DEF Init, Control, Booting, DirtyInv, CacheInv, LogInv
<1> QED BY <1>2, <1>3 DEF Inv

\* A step that changes nothing keeps it.
LEMMA Unchanged ==
    ASSUME Inv, UNCHANGED vars
    PROVE  Inv'
<1>1. Active' = Active
  BY DEF vars, pvars, Active
<1> QED BY <1>1 DEF vars, dvars, cvars, lvars, pvars, Inv, Types, Control, Booting, DirtyInv, CacheInv, LogInv, InLog

\* Every step keeps it.
LEMMA InvNext ==
    ASSUME Inv, [Next]_vars
    PROVE  Inv'
<1>1. CASE UNCHANGED vars \/ Terminated
  BY <1>1, Unchanged DEF Terminated
<1>2. ASSUME NEW p \in Procs, Call(p) \/ Step(p) PROVE Inv'
  BY <1>2, CallInv, BeginInv, EndInv, EndCommitInv DEF Step
<1>3. ASSUME NEW p \in Procs, NEW b \in Home, NEW v \in Vals, log_write(p, b, v) PROVE Inv'
  BY <1>3, WriteInv
<1>4. ASSUME NEW b \in Home, bread(b) \/ Recycle(b) PROVE Inv'
  BY <1>4, BufferInv
<1>5. CASE Commits
  BY <1>5, WriteLogInv, WriteHeadInv, InstallInv, EraseInv, ReadHeadInv DEF Commits
<1>6. CASE Crash
  BY <1>6, CrashInv
<1> QED BY <1>1, <1>2, <1>3, <1>4, <1>5, <1>6 DEF Next

\* It holds always.
LEMMA Invariance == Spec => []Inv
<1>1. Inv /\ [Next]_vars => Inv'
  BY InvNext
<1> QED BY <1>1, InvInit, PTL DEF Spec

\* When the last end_op of a group has returned, what recovery would make of
\* the disk is what every reader sees (log.c end_op, commit, recover_from_log).
THEOREM AlwaysDurable == Spec => []Durable
<1>1. Inv => Durable
  <2> SUFFICES ASSUME Inv, step = "none", outstanding = 0, NEW b \in Home PROVE Recovered[b] = View(b)
    BY DEF Durable
  <2>1. lh = <<>> /\ dhead = <<>>
    BY ActiveFinite DEF Inv, Control, LogInv
  <2>2. b \notin dirty
    BY <2>1, EmptyLog DEF Inv, DirtyInv, InLog
  <2>3. Recovered[b] = disk[b]
    BY <2>1, EmptyLog DEF Recovered, ToSet
  <2> QED BY <2>2, <2>3 DEF Inv, CacheInv, View
<1> QED BY <1>1, Invariance, PTL

-----------------------------------------------------------------------------
(* The log implements AtomicDisk. *)

Views == [b \in Home |-> View(b)]
Seen == IF Booting THEN Recovered ELSE Views

\* What recovery makes of a block that the header on disk names, and of others.
LEMMA RecoveredAt ==
    ASSUME dhead \in Logs
    PROVE  /\ \A i \in 1..Len(dhead) : Recovered[dhead[i]] = dlog[i]
           /\ \A b \in Home : (\A i \in 1..Len(dhead) : dhead[i] # b) => Recovered[b] = disk[b]
<1>1. DOMAIN dhead = 1..Len(dhead) /\ \A i \in 1..Len(dhead) : dhead[i] \in Home
  BY LogFacts
<1>2. \A b \in Home : b \in ToSet(dhead) <=> \E i \in 1..Len(dhead) : dhead[i] = b
  BY <1>1 DEF ToSet
<1>3. ASSUME NEW i \in 1..Len(dhead) PROVE Recovered[dhead[i]] = dlog[i]
  <2>1. (CHOOSE j \in DOMAIN dhead : dhead[j] = dhead[i]) = i
    BY <1>1, LogFacts
  <2> QED BY <1>1, <1>2, <2>1 DEF Recovered
<1>4. ASSUME NEW b \in Home, \A i \in 1..Len(dhead) : dhead[i] # b PROVE Recovered[b] = disk[b]
  BY <1>2, <1>4 DEF Recovered
<1> QED BY <1>3, <1>4

\* What recovery would make of the next state's disk, block by block.
LEMMA RecoveredAtNext ==
    ASSUME dhead' \in Logs
    PROVE  /\ \A i \in 1..Len(dhead') : Recovered'[dhead'[i]] = dlog'[i]
           /\ \A b \in Home : (\A i \in 1..Len(dhead') : dhead'[i] # b) => Recovered'[b] = disk'[b]
<1>1. DOMAIN dhead' = 1..Len(dhead') /\ \A i \in 1..Len(dhead') : dhead'[i] \in Home
  BY LogFacts
<1>2. \A b \in Home : b \in ToSet(dhead)' <=> \E i \in 1..Len(dhead') : dhead'[i] = b
  BY <1>1 DEF ToSet
<1>3. ASSUME NEW i \in 1..Len(dhead') PROVE Recovered'[dhead'[i]] = dlog'[i]
  <2>1. (CHOOSE j \in DOMAIN dhead' : dhead'[j] = dhead'[i]) = i
    BY <1>1, LogFacts
  <2> QED BY <1>1, <1>2, <2>1 DEF Recovered
<1>4. ASSUME NEW b \in Home, \A i \in 1..Len(dhead') : dhead'[i] # b PROVE Recovered'[b] = disk'[b]
  BY <1>2, <1>4 DEF Recovered
<1> QED BY <1>3, <1>4

\* Two functions on the home blocks that agree are equal.
LEMMA SameBlocks ==
    /\ (\A b \in Home : Recovered'[b] = Recovered[b]) => Recovered' = Recovered
    /\ (\A b \in Home : View(b)' = View(b)) => Views' = Views
    /\ (\A b \in Home : Recovered[b] = View(b)) => Recovered = Views
    /\ (\A b \in Home : Recovered'[b] = View(b)) => Recovered' = Views
BY DEF Recovered, Views

\* A clean buffer shows the disk.
LEMMA CleanView ==
    ASSUME Inv, NEW b \in Home
    PROVE  /\ b \notin dirty => View(b) = disk[b]
           /\ b \in dirty => View(b) = cache[b]
BY DEF Inv, CacheInv, View

\* What a reader sees in the next state: the pinned buffer, or the disk.
LEMMA CleanViewNext ==
    ASSUME Inv', NEW b \in Home
    PROVE  /\ b \notin dirty' => View(b)' = disk'[b]
           /\ b \in dirty' => View(b)' = cache'[b]
BY DEF Inv, CacheInv, View

\* A step that touches neither the disk nor the buffers.
LEMMA QuietStep ==
    ASSUME UNCHANGED <<disk, dlog, dhead, cache>>
    PROVE  Recovered' = Recovered /\ Views' = Views
BY DEF Recovered, Views, View, ToSet

\* Installing a block that the header names changes nothing that recovery or a
\* reader would see.
LEMMA RefineInstall ==
    ASSUME Inv, Inv', install_trans
    PROVE  UNCHANGED <<Seen, Recovered>>
<1>1. step = "install" /\ UNCHANGED <<dlog, dhead, committing>> /\ dhead = lh /\ dhead \in Logs /\ lh \in Logs
  BY DEF install_trans, Inv, LogInv, Types
<1>2. Booting <=> ~committing
  BY <1>1 DEF Booting
<1>3. Booting' <=> ~committing
  BY <1>1 DEF Booting, install_trans
<1>4. CASE More
  <2>1. /\ disk' = [disk EXCEPT ![lh[tail]] = dlog[tail]]
        /\ cache' = [cache EXCEPT ![lh[tail]] = dlog[tail]]
        /\ dirty' = dirty \ {lh[tail]}
    BY <1>1, <1>4 DEF install_trans
  <2>2. tail \in 1..Len(lh)
    BY <1>1, <1>4, LogFacts DEF More, Inv, Types
  <2>3. PICK b \in Home : b = lh[tail]
    BY <1>1, <2>2, LogFacts
  <2>4. disk \in [Home -> Vals] /\ cache \in [Home -> Vals \cup {NotCached}]
    BY DEF Inv, Types
  <2>5. \A c \in Home : c # b => disk'[c] = disk[c] /\ cache'[c] = cache[c]
    BY <2>1, <2>3, <2>4
  <2>6. ASSUME NEW c \in Home PROVE Recovered'[c] = Recovered[c]
    <3>1. CASE \E i \in 1..Len(dhead) : dhead[i] = c
      BY <1>1, <3>1, RecoveredAt, RecoveredAtNext
    <3>2. CASE ~ \E i \in 1..Len(dhead) : dhead[i] = c
      <4>1. c # b
        BY <1>1, <2>2, <2>3, <3>2
      <4> QED BY <1>1, <2>5, <3>2, <4>1, RecoveredAt, RecoveredAtNext
    <3> QED BY <3>1, <3>2
  <2>7. Recovered' = Recovered
    BY <2>6, SameBlocks
  <2>8. ASSUME committing, NEW c \in Home PROVE View(c)' = View(c)
    <3>1. CASE c = b
      <4>1. cache[b] = dlog[tail] /\ cache[b] # NotCached
        <5>1. tail \in tail..Len(lh)
          BY <2>2
        <5>2. b \in dirty
          BY <1>1, <2>3, <2>8, <5>1 DEF Inv, DirtyInv
        <5> QED BY <1>1, <2>3, <2>8, <5>1, <5>2 DEF Inv, LogInv, CacheInv
      <4>2. cache'[b] = dlog[tail]
        BY <2>1, <2>3, <2>4
      <4> QED BY <3>1, <4>1, <4>2 DEF View
    <3>2. CASE c # b
      BY <2>5, <3>2 DEF View
    <3> QED BY <3>1, <3>2
  <2>9. CASE committing
    <3>1. Views' = Views
      BY <2>8, <2>9, SameBlocks
    <3> QED BY <1>2, <1>3, <2>7, <2>9, <3>1 DEF Seen
  <2>10. CASE ~committing
    BY <1>2, <1>3, <2>7, <2>10 DEF Seen
  <2> QED BY <2>9, <2>10
<1>5. CASE ~More
  <2>1. disk' = disk /\ cache' = cache
    BY <1>1, <1>5 DEF install_trans, cvars
  <2> QED BY <1>1, <1>2, <1>3, <2>1, QuietStep DEF Seen
<1> QED BY <1>4, <1>5

\* Erasing the header makes recovery leave alone what is installed.
LEMMA RefineErase ==
    ASSUME Inv, Inv', erase
    PROVE  UNCHANGED <<Seen, Recovered>>
<1>1. /\ step = "erase" /\ dhead' = lh /\ step' = IF committing THEN "end" ELSE "none"
      /\ UNCHANGED <<disk, dlog, cache, dirty, committing>>
      /\ dirty = {} /\ lh = <<>> /\ dhead \in Logs /\ dhead' \in Logs
  BY DEF erase, cvars, lvars, Inv, Types, DirtyInv
<1>2. ASSUME NEW c \in Home PROVE Recovered'[c] = disk[c] /\ Recovered[c] = disk[c]
  <2>1. Recovered'[c] = disk[c]
    BY <1>1, EmptyLog, RecoveredAtNext
  <2>2. Recovered[c] = disk[c]
    BY <1>1, RecoveredAt DEF Inv, LogInv
  <2> QED BY <2>1, <2>2
<1>3. Recovered' = Recovered
  BY <1>2, SameBlocks
<1>4. Views' = Views
  BY <1>1 DEF Views, View
<1>5. Recovered = Views
  BY <1>1, <1>2, CleanView, SameBlocks
<1> QED BY <1>3, <1>4, <1>5 DEF Seen

\* Writing the header is the commit of the whole group.
LEMMA RefineCommit ==
    ASSUME Inv, Inv', write_head
    PROVE  Active = {} /\ Active' = {} /\ Recovered' = Seen /\ Seen' = Seen
<1>1. /\ step = "write_head" /\ dhead' = lh /\ step' = "install" /\ committing /\ committing'
      /\ UNCHANGED <<disk, dlog, cache, dirty, lh, pc>> /\ lh \in Logs
  BY WriteHeadInv DEF write_head, cvars, lvars, pvars, Inv, Types
<1>2. Active = {} /\ Active' = {}
  BY <1>1 DEF Inv, Control, Active
<1>3. ~Booting /\ ~Booting'
  BY <1>1 DEF Booting
<1>4. ASSUME NEW c \in Home PROVE Recovered'[c] = View(c)
  <2>1. CASE \E i \in 1..Len(lh) : lh[i] = c
    <3>1. PICK i \in 1..Len(lh) : lh[i] = c
      BY <2>1
    <3>2. Recovered'[c] = dlog[i]
      BY <1>1, <3>1, RecoveredAtNext
    <3>3. dlog[i] = cache[c] /\ c \in dirty
      BY <1>1, <3>1 DEF Inv, LogInv, DirtyInv, InLog
    <3> QED BY <3>2, <3>3, CleanView
  <2>2. CASE ~ \E i \in 1..Len(lh) : lh[i] = c
    <3>1. Recovered'[c] = disk[c]
      BY <1>1, <2>2, RecoveredAtNext
    <3>2. c \notin dirty
      BY <1>1, <2>2 DEF Inv, DirtyInv, InLog
    <3> QED BY <3>1, <3>2, CleanView
  <2> QED BY <2>1, <2>2
<1>5. Recovered' = Views
  BY <1>4, SameBlocks
<1>6. Views' = Views
  BY <1>1 DEF Views, View
<1> QED BY <1>2, <1>3, <1>5, <1>6 DEF Seen

\* The log on disk is written while the header is empty.
LEMMA RefineWriteLog ==
    ASSUME Inv, Inv', write_log
    PROVE  UNCHANGED <<Seen, Recovered>>
<1>1. /\ step = "write_log" /\ committing /\ committing' /\ UNCHANGED <<disk, dhead, cache>> /\ dhead = <<>>
      /\ dhead \in Logs
  BY WriteLogInv DEF write_log, cvars, lvars, Inv, LogInv, Types
<1>2. \A c \in Home : Recovered'[c] = disk[c] /\ Recovered[c] = disk[c]
  BY <1>1, EmptyLog, RecoveredAt, RecoveredAtNext
<1>3. Recovered' = Recovered
  BY <1>2, SameBlocks
<1>4. Views' = Views
  BY <1>1 DEF Views, View
<1> QED BY <1>1, <1>3, <1>4 DEF Seen, Booting

\* A log_write is a write of the abstract disk.
LEMMA RefineWrite ==
    ASSUME Inv, Inv', NEW p \in Procs, NEW b \in Home, NEW v \in Vals, log_write(p, b, v)
    PROVE  p \in Active /\ Active' = Active /\ Seen' = [Seen EXCEPT ![b] = v] /\ Recovered' = Recovered
<1>1. /\ pc[p] = "op" /\ cache' = [cache EXCEPT ![b] = v] /\ step = "none" /\ Active' = Active
      /\ UNCHANGED <<disk, dlog, dhead, step>>
  BY WriteInv DEF log_write, dvars
<1>2. Recovered' = Recovered
  BY <1>1 DEF Recovered, ToSet
<1>3. \A c \in Home : View(c)' = IF c = b THEN v ELSE View(c)
  BY <1>1, LogAssumption DEF View, Inv, Types
<1>4. Views' = [Views EXCEPT ![b] = v]
  BY <1>3 DEF Views
<1> QED BY <1>1, <1>2, <1>4 DEF Seen, Booting, Active

\* The initial states are those of AtomicDisk.
LEMMA RefineInit == Init => Promise!Init
<1> SUFFICES ASSUME Init PROVE Promise!Init
  OBVIOUS
<1>1. dhead \in Logs /\ dhead = <<>> /\ Active = {} /\ Booting
  BY EmptyLog DEF Init, Active, Booting
<1>2. \A b \in Home : Recovered[b] = Zero
  BY <1>1, EmptyLog, RecoveredAt DEF Init
<1>3. Recovered = [b \in Home |-> Zero]
  BY <1>2 DEF Recovered
<1> QED BY <1>1, <1>3 DEF Promise!Init, Active

\* Every step of the log is a step of AtomicDisk or none.
LEMMA RefineNext ==
    ASSUME Inv, Inv', [Next]_vars
    PROVE  [Promise!Next]_(Promise!dvars)
<1>0. UNCHANGED <<Seen, Recovered, Active>> => UNCHANGED Promise!dvars
  BY DEF Seen, Views, Active, Promise!dvars
<1>1. CASE UNCHANGED vars \/ Terminated
  <2>1. UNCHANGED <<disk, dlog, dhead, cache, step, committing, pc>>
    BY <1>1 DEF Terminated, vars, dvars, cvars, lvars, pvars
  <2> QED BY <1>0, <2>1, QuietStep DEF Seen, Booting, Active
<1>2. ASSUME NEW p \in Procs, Call(p) PROVE [Promise!Next]_(Promise!dvars)
  <2>1. UNCHANGED <<disk, dlog, dhead, cache, step, committing>> /\ Active' = Active
    BY <1>2, CallInv DEF Call, dvars, cvars, lvars
  <2> QED BY <1>0, <2>1, QuietStep DEF Seen, Booting
<1>3. ASSUME NEW p \in Procs, begin_op(p) PROVE [Promise!Next]_(Promise!dvars)
  <2>1. UNCHANGED <<disk, dlog, dhead, cache, step, committing>>
    BY <1>3 DEF begin_op, dvars, cvars
  <2>2. Active' = Active \/ Active' = Active \cup {p}
    BY <1>3 DEF begin_op, Active, Inv, Types
  <2>3. Seen' = Seen /\ Recovered' = Recovered
    BY <2>1, QuietStep DEF Seen, Booting
  <2>4. CASE Active' = Active \cup {p}
    <3>1. Promise!Begin(p)
      BY <2>3, <2>4 DEF Promise!Begin, Seen, Views, Active
    <3> QED BY <3>1 DEF Promise!Next
  <2> QED BY <1>0, <2>2, <2>3, <2>4
<1>4. ASSUME NEW p \in Procs, end_op(p) PROVE Promise!Next
  <2>1. UNCHANGED <<disk, dlog, dhead, cache>> /\ Active' = Active \ {p} /\ step = "none"
    BY <1>4, EndInv DEF end_op, dvars, cvars
  <2>2. ~Booting /\ ~Booting'
    BY <1>4, <2>1 DEF Booting, end_op
  <2>3. Seen' = Seen /\ Recovered' = Recovered
    BY <2>1, <2>2, QuietStep DEF Seen
  <2>4. Promise!End(p)
    BY <2>1, <2>3 DEF Promise!End, Seen, Views, Active
  <2> QED BY <2>4 DEF Promise!Next
<1>5. ASSUME NEW p \in Procs, end_commit(p) PROVE [Promise!Next]_(Promise!dvars)
  <2>1. UNCHANGED <<disk, dlog, dhead, cache>> /\ Active' = Active /\ committing /\ step' = "none"
    BY <1>5, EndCommitInv DEF end_commit, dvars, cvars
  <2> QED BY <1>0, <2>1, QuietStep DEF Seen, Booting
<1>6. ASSUME NEW p \in Procs, NEW b \in Home, NEW v \in Vals, log_write(p, b, v) PROVE Promise!Next
  <2>1. Promise!Write(p, b, v)
    BY <1>6, RefineWrite DEF Promise!Write, Seen, Views, Active
  <2> QED BY <2>1 DEF Promise!Next
<1>7. ASSUME NEW b \in Home, bread(b) \/ Recycle(b) PROVE [Promise!Next]_(Promise!dvars)
  <2>1. UNCHANGED <<disk, dlog, dhead, step, committing>> /\ Active' = Active
    BY <1>7, BufferInv DEF bread, Recycle, dvars, lvars
  <2>2. Views' = Views
    BY <1>7, BufferInv, SameBlocks
  <2>3. Recovered' = Recovered
    BY <2>1 DEF Recovered, ToSet
  <2> QED BY <1>0, <2>1, <2>2, <2>3 DEF Seen, Booting
<1>8. CASE write_log
  BY <1>0, <1>8, RefineWriteLog, WriteLogInv
<1>9. CASE write_head
  <2>1. Promise!Commit
    BY <1>9, RefineCommit DEF Promise!Commit, Seen, Views, Active
  <2> QED BY <2>1 DEF Promise!Next
<1>10. CASE install_trans
  BY <1>0, <1>10, RefineInstall, InstallInv
<1>11. CASE erase
  BY <1>0, <1>11, RefineErase, EraseInv
<1>12. CASE read_head
  <2>1. UNCHANGED <<disk, dlog, dhead, cache, committing>> /\ Active' = Active /\ Booting /\ Booting'
    BY <1>12, ReadHeadInv DEF read_head, dvars, cvars, Booting
  <2> QED BY <1>0, <2>1, QuietStep DEF Seen
<1>13. CASE Crash
  <2>1. UNCHANGED <<disk, dlog, dhead>> /\ Active' = {} /\ Booting'
    BY <1>13, CrashInv DEF Crash, dvars, Booting
  <2>2. Recovered' = Recovered
    BY <2>1 DEF Recovered, ToSet
  <2>3. Promise!Crash
    BY <2>1, <2>2 DEF Promise!Crash, Active
  <2> QED BY <2>3 DEF Promise!Next
<1> QED BY <1>1, <1>2, <1>3, <1>4, <1>5, <1>6, <1>7, <1>8, <1>9, <1>10, <1>11, <1>12, <1>13 DEF Next, Step, Commits

\* Whatever the order of operations, evictions, commits and crashes, and in
\* whatever step of a commit or a recovery a crash comes, the disk changes by
\* whole groups of operations (log.c commit, install_trans, recover_from_log).
THEOREM DiskImplemented == Spec => ImplementsAtomicDisk
<1>1. Inv /\ Inv' /\ [Next]_vars => [Promise!Next]_(Promise!dvars)
  BY RefineNext
<1> QED BY <1>1, Invariance, RefineInit, PTL DEF Spec, ImplementsAtomicDisk, Promise!Spec

-----------------------------------------------------------------------------
(* The log has room: NoPanic *)

\* What is left of the reservation of an operation.
Mine(p) == {p} \X (Cardinality(wrote[p]) + 1..MAXOPBLOCKS)

\* The blocks that are reserved and not used can be counted.
LEMMA ReserveFinite ==
    /\ MAXOPBLOCKS \in Nat /\ OpBlocks \in Nat /\ LOGSIZE \in Nat /\ LogBlocks \in Nat
    /\ IsFiniteSet(1..MAXOPBLOCKS) /\ Cardinality(1..MAXOPBLOCKS) = MAXOPBLOCKS
    /\ IsFiniteSet(Reserve) /\ Cardinality(Reserve) \in Nat
<1>1. MAXOPBLOCKS \in Nat \ {0} /\ OpBlocks \in Nat /\ LOGSIZE \in Nat /\ LogBlocks \in Nat /\ IsFiniteSet(Procs)
  BY LogAssumption
<1>2. IsFiniteSet(1..MAXOPBLOCKS) /\ Cardinality(1..MAXOPBLOCKS) = MAXOPBLOCKS
  BY <1>1, FS_Interval
<1>3. IsFiniteSet(Procs \X (1..MAXOPBLOCKS))
  BY <1>1, <1>2, FS_Product
<1>4. IsFiniteSet(Reserve)
  BY <1>3, FS_Subset DEF Reserve
<1> QED BY <1>1, <1>2, <1>4, FS_CardinalityType

\* An operation has at least MAXOPBLOCKS - OpBlocks blocks left.
LEMMA MineFacts ==
    ASSUME LogFits, SpaceInv, NEW p \in Active
    PROVE  /\ Mine(p) \subseteq Reserve /\ IsFiniteSet(Mine(p)) /\ Cardinality(Mine(p)) \in Nat
           /\ Cardinality(Mine(p)) >= MAXOPBLOCKS - OpBlocks
           /\ Cardinality(wrote[p]) \in Nat /\ Cardinality(wrote[p]) <= OpBlocks
<1> DEFINE w == Cardinality(wrote[p])
           I == w + 1..MAXOPBLOCKS
<1>1. p \in Procs /\ pc[p] = "op" /\ w \in Nat /\ w <= OpBlocks
  BY FS_CardinalityType DEF Active, SpaceInv, WroteInv
<1>2. OpBlocks < MAXOPBLOCKS /\ OpBlocks \in Nat /\ MAXOPBLOCKS \in Nat
  BY ReserveFinite DEF LogFits
<1> HIDE DEF w
<1>3. IsFiniteSet(I) /\ Cardinality(I) = MAXOPBLOCKS - w
  <2>1. w + 1 \in Int /\ MAXOPBLOCKS \in Int /\ ~(w + 1 > MAXOPBLOCKS)
    BY <1>1, <1>2
  <2>2. IsFiniteSet(I) /\ Cardinality(I) = MAXOPBLOCKS - (w + 1) + 1
    BY <2>1, FS_Interval
  <2> QED BY <1>1, <1>2, <2>2
<1>4. IsFiniteSet({p}) /\ Cardinality({p}) = 1
  BY FS_Singleton
<1>5. IsFiniteSet({p} \X I) /\ Cardinality({p} \X I) = 1 * Cardinality(I)
  BY <1>3, <1>4, FS_Product
<1>6. Mine(p) = {p} \X I
  BY DEF Mine, w
<1>7. Mine(p) \subseteq Reserve
  BY <1>1, <1>2 DEF Mine, Reserve, w
<1> HIDE DEF I
<1> QED BY <1>1, <1>2, <1>3, <1>5, <1>6, <1>7 DEF w

\* An operation that has written nothing.
LEMMA NoneWritten == IsFiniteSet({}) /\ Cardinality({}) = 0 /\ Cardinality({}) <= OpBlocks
<1>1. IsFiniteSet({}) /\ Cardinality({}) = 0
  BY FS_EmptySet
<1>2. 0 <= OpBlocks
  BY LogAssumption
<1> QED BY <1>1, <1>2

\* With no operation in progress there is nothing to show.
LEMMA SpaceIdle ==
    ASSUME Active' = {}, \A p \in Procs : wrote'[p] = {}, OpBlocks \in Nat
    PROVE  SpaceInv'
<1>1. \A p \in Procs : pc'[p] # "op"
  BY DEF Active
<1>2. \A p \in Procs : WroteInv(p)'
  BY <1>1, FS_EmptySet DEF WroteInv
<1> QED BY <1>2 DEF SpaceInv

\* With the operations and the log as they were there is nothing either.
LEMMA SpaceSame ==
    ASSUME Inv, SpaceInv, pc' \in [Procs -> {"idle", "begin", "sleep", "op", "commit"}],
           Active' = Active, UNCHANGED <<lh, wrote, outstanding>>
    PROVE  SpaceInv'
<1>1. \A p \in Procs : pc'[p] = "op" <=> pc[p] = "op"
  BY DEF Active
<1>2. Reserve' = Reserve
  BY <1>1 DEF Reserve
<1>3. \A p \in Procs : WroteInv(p)'
  BY <1>1 DEF SpaceInv, WroteInv, InLog
<1> QED BY <1>2, <1>3 DEF SpaceInv

\* begin_op has checked that everyone's reservation fits.
LEMMA BeginSpace ==
    ASSUME LogFits, Inv, Inv', SpaceInv, NEW p \in Procs, begin_op(p)
    PROVE  SpaceInv'
<1>1. pc[p] = "begin" /\ UNCHANGED <<lh, wrote, step>>
  BY DEF begin_op
<1>2. CASE committing \/ Exhausts
  <2>1. pc' = [pc EXCEPT ![p] = "sleep"] /\ outstanding' = outstanding
    BY <1>2 DEF begin_op
  <2>2. Active' = Active
    BY <1>1, <2>1 DEF Active, Inv, Types
  <2> QED BY <1>1, <2>1, <2>2, SpaceSame DEF Inv, Types
<1>3. CASE ~(committing \/ Exhausts)
  <2>1. pc' = [pc EXCEPT ![p] = "op"] /\ outstanding' = outstanding + 1
    BY <1>3 DEF begin_op
  <2>2. Active' = Active \cup {p} /\ p \notin Active /\ pc \in [Procs -> {"idle", "begin", "sleep", "op", "commit"}]
    BY <1>1, <2>1 DEF Active, Inv, Types
  <2>3. \A q \in Procs : WroteInv(q)'
    BY <1>1, <2>1, <2>2 DEF SpaceInv, WroteInv, InLog
  <2>4. Len(lh) \in Nat /\ outstanding \in Nat
    BY ActiveFinite, LogFacts DEF Inv, Types
  <2>5. Len(lh) + Cardinality(Reserve') <= LOGSIZE
    <3>1. IsFiniteSet(Active') /\ Cardinality(Active') = outstanding + 1
      BY <2>1, <2>2, ActiveFinite, ActiveMore, FS_AddElement DEF Inv
    <3> DEFINE A == Active'
               R == Reserve'
               C == A \X (1..MAXOPBLOCKS)
    <3>2. R \subseteq C
      BY <2>2 DEF Reserve, Active
    <3>3. IsFiniteSet(C) /\ Cardinality(C) = Cardinality(A) * Cardinality(1..MAXOPBLOCKS)
      <4> HIDE DEF A
      <4> QED BY <3>1, ReserveFinite, FS_Product DEF A
    <3>4. Cardinality(C) = (outstanding + 1) * MAXOPBLOCKS
      BY <3>1, <3>3, ReserveFinite
    <3>5. IsFiniteSet(R) /\ Cardinality(R) <= Cardinality(C)
      <4> HIDE DEF R, C
      <4> QED BY <3>2, <3>3, FS_Subset
    <3>6. Cardinality(R) \in Nat /\ Cardinality(C) \in Nat
      BY <3>3, <3>5, FS_CardinalityType
    <3>7. Len(lh) + Cardinality(C) <= LOGSIZE
      BY <1>3, <2>4, <3>4, <3>6, ReserveFinite DEF Exhausts
    <3> HIDE DEF R, C
    <3> QED BY <2>4, <3>5, <3>6, <3>7, ReserveFinite DEF R
  <2>6. CASE Active = {}
    <3>1. lh = <<>> /\ Active' = {p} /\ wrote'[p] = {}
      BY <1>1, <1>3, <2>2, <2>6 DEF Inv, Control, Booting, SpaceInv, WroteInv
    <3>2. \A q \in Active' : Len(lh') <= Cardinality(wrote'[q])
      <4>1. lh' = <<>> /\ Len(<<>>) = 0
        BY <1>1, <3>1, EmptyLog
      <4>2. Cardinality(wrote'[p]) = 0
        BY <3>1, NoneWritten
      <4>3. Len(lh') <= Cardinality(wrote'[p])
        <5>1. Len(lh') = 0
          BY <4>1
        <5> QED BY <4>2, <5>1
      <4> QED BY <3>1, <4>3
    <3> QED BY <1>1, <2>3, <2>5, <3>2 DEF SpaceInv
  <2>7. CASE Active # {}
    <3>1. outstanding' >= 2
      BY <2>1, <2>4, <2>7, ActiveFinite DEF Inv
    <3> QED BY <1>1, <2>3, <2>5, <3>1 DEF SpaceInv
  <2> QED BY <2>6, <2>7
<1> QED BY <1>2, <1>3

\* A block that is new to the operation comes out of its reservation.
LEMMA WriteSpace ==
    ASSUME LogFits, Inv, Inv', SpaceInv, NEW p \in Procs, NEW b \in Home, NEW v \in Vals, log_write(p, b, v)
    PROVE  SpaceInv'
<1>1. /\ pc[p] = "op" /\ ~TooBig /\ wrote' = [wrote EXCEPT ![p] = @ \cup {b}] /\ lh' = Logged(b)
      /\ UNCHANGED <<pc, outstanding>> /\ Cardinality(wrote[p] \cup {b}) <= OpBlocks
  BY DEF log_write
<1>2. /\ Active' = Active /\ p \in Active /\ wrote \in [Procs -> SUBSET Home] /\ lh \in Logs
      /\ \A c \in Home : InLog(c)' <=> InLog(c) \/ c = b
  BY <1>1, WriteInv DEF Active, Inv, Types
<1>3. /\ InLog(b) => lh' = lh
      /\ Len(lh) \in Nat /\ Len(lh') \in Nat /\ Len(lh') <= Len(lh) + 1
  <2>1. lh' \in Logs /\ Len(lh) \in Nat
    BY <1>2, LogFacts DEF Inv, Types
  <2>2. CASE InLog(b)
    <3>1. lh' = lh
      BY <1>1, <1>2, <2>2, LoggedFacts
    <3> QED BY <2>1, <3>1
  <2>3. CASE ~InLog(b)
    <3>1. Len(lh') = Len(lh) + 1
      BY <1>1, <1>2, <2>3, LoggedFacts
    <3> QED BY <2>1, <2>3, <3>1
  <2> QED BY <2>2, <2>3
<1>4. /\ wrote'[p] = wrote[p] \cup {b} /\ \A q \in Procs : q # p => wrote'[q] = wrote[q]
      /\ IsFiniteSet(wrote[p]) /\ wrote[p] \subseteq Home
  BY <1>1, <1>2 DEF SpaceInv, WroteInv
<1>5. ASSUME NEW q \in Procs PROVE WroteInv(q)'
  <2>1. CASE q = p
    <3>1. IsFiniteSet(wrote'[p]) /\ Cardinality(wrote'[p]) <= OpBlocks
      <4>1. IsFiniteSet(wrote[p] \cup {b})
        BY <1>4, FS_AddElement
      <4> QED BY <1>1, <1>4, <4>1
    <3>2. \A c \in wrote'[p] : InLog(c)'
      BY <1>1, <1>2, <1>4 DEF SpaceInv, WroteInv
    <3> QED BY <1>1, <2>1, <3>1, <3>2 DEF WroteInv
  <2>2. CASE q # p
    <3>1. wrote'[q] = wrote[q] /\ wrote[q] \subseteq Home /\ WroteInv(q) /\ pc' = pc
      BY <1>1, <1>2, <1>4, <2>2 DEF SpaceInv
    <3> QED BY <1>2, <3>1 DEF WroteInv
  <2> QED BY <2>1, <2>2
<1>6. CASE b \in wrote[p]
  <2>1. lh' = lh /\ wrote' = wrote
    BY <1>1, <1>2, <1>3, <1>6 DEF SpaceInv, WroteInv
  <2> QED BY <1>1, <1>2, <2>1, SpaceSame DEF Inv, Types
<1>7. CASE b \notin wrote[p]
  <2> DEFINE w == Cardinality(wrote[p])
             x == <<p, w + 1>>
  <2>1. w \in Nat /\ Cardinality(wrote'[p]) = w + 1 /\ w + 1 <= OpBlocks
    BY <1>1, <1>4, <1>7, FS_AddElement, FS_CardinalityType
  <2> HIDE DEF w
  <2>2. w + 1 \in 1..MAXOPBLOCKS
    BY <2>1, ReserveFinite DEF LogFits
  <2>3. x \in Reserve
    BY <1>1, <2>1, <2>2 DEF Reserve, w
  <2>4. Reserve' = Reserve \ {x}
    <3>1. \A q \in Procs, i \in 1..MAXOPBLOCKS :
             pc'[q] = "op" /\ Cardinality(wrote'[q]) < i
               <=> pc[q] = "op" /\ Cardinality(wrote[q]) < i /\ ~(q = p /\ i = w + 1)
      <4> TAKE q \in Procs, i \in 1..MAXOPBLOCKS
      <4>1. CASE q = p
        <5>1. w + 1 < i <=> w < i /\ i # w + 1
          BY <2>1, ReserveFinite
        <5> QED BY <1>1, <2>1, <4>1, <5>1 DEF w
      <4>2. CASE q # p
        BY <1>1, <1>4, <4>2
      <4> QED BY <4>1, <4>2
    <3>2. \A y \in Procs \X (1..MAXOPBLOCKS) : y \in Reserve' <=> y \in Reserve /\ y # x
      BY <3>1 DEF Reserve
    <3> QED BY <3>2 DEF Reserve
  <2>5. Cardinality(Reserve') = Cardinality(Reserve) - 1
    BY <2>3, <2>4, ReserveFinite, FS_RemoveElement
  <2> HIDE DEF x
  <2>6. Len(lh') + Cardinality(Reserve') <= Len(lh) + Cardinality(Reserve)
    BY <1>3, <2>5, ReserveFinite
  <2>7. Cardinality(Reserve') \in Nat
    <3>1. IsFiniteSet(Reserve')
      BY <2>4, ReserveFinite, FS_RemoveElement
    <3> QED BY <3>1, FS_CardinalityType
  <2>8. Len(lh') + Cardinality(Reserve') <= LOGSIZE
    BY <1>2, <1>3, <2>6, <2>7, ReserveFinite DEF SpaceInv
  <2>9. CASE outstanding >= 2
    BY <1>1, <1>5, <2>8, <2>9 DEF SpaceInv
  <2>10. CASE ~(outstanding >= 2) /\ \A q \in Active : Len(lh) <= Cardinality(wrote[q])
    <3>1. Active = {p}
      <4>1. outstanding = 1
        BY <1>2, <2>10, ActiveFinite DEF Inv
      <4>2. Active \ {p} = {}
        BY <1>2, <4>1, ActiveLess DEF Inv
      <4> QED BY <1>2, <4>2
    <3>2. Len(lh') <= Cardinality(wrote'[p])
      BY <1>2, <1>3, <2>1, <2>10 DEF w
    <3> QED BY <1>2, <1>5, <2>8, <3>1, <3>2 DEF SpaceInv
  <2>11. CASE Len(lh) + Cardinality(Reserve) + (MAXOPBLOCKS - OpBlocks) <= LOGSIZE
    <3>1. Len(lh') + Cardinality(Reserve') + (MAXOPBLOCKS - OpBlocks) <= LOGSIZE
      BY <1>3, <2>6, <2>7, <2>11, ReserveFinite
    <3> QED BY <1>5, <2>8, <3>1 DEF SpaceInv
  <2> QED BY <1>2, <2>9, <2>10, <2>11 DEF SpaceInv
<1> QED BY <1>6, <1>7

\* The operation that ends leaves what it has not used to the others.
LEMMA EndSpace ==
    ASSUME LogFits, Inv, Inv', SpaceInv, NEW p \in Procs, end_op(p)
    PROVE  SpaceInv'
<1>1. /\ pc[p] = "op" /\ wrote' = [wrote EXCEPT ![p] = {}] /\ lh' = lh
      /\ p \in Active /\ Active' = Active \ {p}
  BY EndInv DEF end_op
<1>2. /\ wrote \in [Procs -> SUBSET Home] /\ lh \in Logs /\ Len(lh) \in Nat /\ wrote'[p] = {}
      /\ \A q \in Procs : q # p => wrote'[q] = wrote[q]
      /\ \A q \in Procs : pc'[q] = "op" <=> pc[q] = "op" /\ q # p
  BY <1>1, LogFacts DEF Inv, Types, Active
<1>3. ASSUME NEW q \in Procs PROVE WroteInv(q)'
  <2>1. CASE q = p
    <3>1. IsFiniteSet(wrote'[p]) /\ Cardinality(wrote'[p]) <= OpBlocks /\ pc'[p] # "op"
      BY <1>2, FS_EmptySet, ReserveFinite
    <3> QED BY <1>2, <2>1, <3>1 DEF WroteInv
  <2>2. CASE q # p
    <3>1. WroteInv(q) /\ wrote'[q] = wrote[q] /\ (pc'[q] = "op" <=> pc[q] = "op")
      BY <1>2, <2>2 DEF SpaceInv
    <3> QED BY <1>1, <3>1 DEF WroteInv, InLog
  <2> QED BY <2>1, <2>2
<1>4. Reserve' = Reserve \ Mine(p)
  <2>1. \A y \in Procs \X (1..MAXOPBLOCKS) : y \in Mine(p) <=> y[1] = p /\ Cardinality(wrote[p]) < y[2]
    <3>1. Cardinality(wrote[p]) \in Nat
      BY <1>1, MineFacts
    <3> QED BY <3>1, ReserveFinite DEF Mine
  <2>2. \A y \in Procs \X (1..MAXOPBLOCKS) : y \in Reserve' <=> y \in Reserve /\ y \notin Mine(p)
    BY <1>2, <2>1 DEF Reserve
  <2> QED BY <2>2 DEF Reserve
<1>5. Reserve \cap Mine(p) = Mine(p)
  BY <1>1, MineFacts
<1>6. IsFiniteSet(Reserve') /\ Cardinality(Reserve') = Cardinality(Reserve) - Cardinality(Mine(p))
  <2>1. /\ IsFiniteSet(Reserve \ Mine(p))
        /\ Cardinality(Reserve \ Mine(p)) = Cardinality(Reserve) - Cardinality(Reserve \cap Mine(p))
    <3> DEFINE R == Reserve
               M == Mine(p)
    <3>1. IsFiniteSet(R) /\ IsFiniteSet(M)
      BY <1>1, ReserveFinite, MineFacts
    <3> HIDE DEF R, M
    <3>2. IsFiniteSet(R \ M) /\ Cardinality(R \ M) = Cardinality(R) - Cardinality(R \cap M)
      BY <3>1, FS_Difference
    <3> QED BY <3>2 DEF R, M
  <2> QED BY <1>4, <1>5, <2>1
<1>7. Cardinality(Reserve') \in Nat
  BY <1>6, FS_CardinalityType
<1>8. Len(lh) + Cardinality(Reserve') + (MAXOPBLOCKS - OpBlocks) <= LOGSIZE
  BY <1>1, <1>2, <1>6, <1>7, MineFacts, ReserveFinite DEF SpaceInv
<1>9. Len(lh) + Cardinality(Reserve') <= LOGSIZE
  BY <1>2, <1>7, <1>8, ReserveFinite DEF LogFits
<1> QED BY <1>1, <1>3, <1>8, <1>9 DEF SpaceInv

\* There is room at the start.
LEMMA SpaceInit == Init => SpaceInv
<1> SUFFICES ASSUME Init PROVE SpaceInv
  OBVIOUS
<1>1. Active = {}
  BY DEF Init, Active
<1>2. \A p \in Procs : WroteInv(p)
  <2>1. \A p \in Procs : wrote[p] = {} /\ pc[p] # "op"
    BY DEF Init
  <2> QED BY <2>1, NoneWritten DEF WroteInv
<1> QED BY <1>1, <1>2 DEF SpaceInv

\* Every step leaves room for what is reserved.
LEMMA SpaceNext ==
    ASSUME LogFits, Inv, Inv', SpaceInv, [Next]_vars
    PROVE  SpaceInv'
<1>p. pc' \in [Procs -> {"idle", "begin", "sleep", "op", "commit"}]
  BY DEF Inv, Types
<1>w. Active = {} => \A p \in Procs : wrote[p] = {}
  BY DEF Active, SpaceInv, WroteInv
<1>1. CASE UNCHANGED vars \/ Terminated
  <2>1. UNCHANGED <<pc, lh, wrote, outstanding>>
    BY <1>1 DEF Terminated, vars, lvars, pvars
  <2> QED BY <1>p, <2>1, SpaceSame DEF Active
<1>2. ASSUME NEW p \in Procs, Call(p) PROVE SpaceInv'
  <2>1. UNCHANGED <<lh, wrote, outstanding>> /\ Active' = Active
    BY <1>2, CallInv DEF Call, lvars
  <2> QED BY <1>p, <2>1, SpaceSame
<1>3. ASSUME NEW p \in Procs, begin_op(p) \/ end_op(p) PROVE SpaceInv'
  BY <1>3, BeginSpace, EndSpace
<1>4. ASSUME NEW p \in Procs, end_commit(p) PROVE SpaceInv'
  <2>1. wrote' = wrote /\ Active' = {} /\ Active = {}
    BY <1>4, EndCommitInv DEF end_commit
  <2> QED BY <1>w, <2>1, ReserveFinite, SpaceIdle
<1>5. ASSUME NEW p \in Procs, NEW b \in Home, NEW v \in Vals, log_write(p, b, v) PROVE SpaceInv'
  BY <1>5, WriteSpace
<1>6. ASSUME NEW b \in Home, bread(b) \/ Recycle(b) PROVE SpaceInv'
  <2>1. UNCHANGED <<lh, wrote, outstanding>> /\ Active' = Active
    BY <1>6, BufferInv DEF bread, Recycle, lvars, pvars
  <2> QED BY <1>p, <2>1, SpaceSame
<1>7. CASE Commits
  <2>1. wrote' = wrote /\ Active' = Active
    BY <1>7, WriteLogInv, WriteHeadInv, InstallInv, EraseInv, ReadHeadInv
       DEF Commits, write_log, write_head, install_trans, erase, read_head, pvars
  <2>2. Active = {}
    BY <1>7 DEF Commits, write_log, write_head, install_trans, erase, read_head, Inv, Control, Active
  <2> QED BY <1>w, <2>1, <2>2, ReserveFinite, SpaceIdle
<1>8. CASE Crash
  <2>1. Active' = {} /\ \A p \in Procs : wrote'[p] = {}
    BY <1>8, CrashInv DEF Crash
  <2> QED BY <2>1, ReserveFinite, SpaceIdle
<1> QED BY <1>1, <1>2, <1>3, <1>4, <1>5, <1>6, <1>7, <1>8 DEF Next, Step

\* With room for what is reserved no log_write panics.
LEMMA SpaceEnough ==
    ASSUME LogFits, Inv, SpaceInv
    PROVE  NoPanic
<1>1. outstanding \in Nat /\ outstanding = Cardinality(Active) /\ Len(lh) \in Nat
  BY ActiveFinite, LogFacts DEF Inv, Types
<1>2. ASSUME NEW p \in Active PROVE ~TooBig /\ ~committing
  <2> DEFINE d == MAXOPBLOCKS - OpBlocks
  <2>1. /\ d \in Nat \ {0} /\ OpBlocks < LogBlocks - 1 /\ LOGSIZE < LogBlocks - 1 + 2 * d
        /\ LOGSIZE \in Nat /\ LogBlocks \in Nat /\ Cardinality(Reserve) \in Nat
    BY ReserveFinite DEF LogFits
  <2>2. Cardinality(Mine(p)) >= d /\ Cardinality(Mine(p)) \in Nat /\ Cardinality(wrote[p]) <= OpBlocks
        /\ Cardinality(wrote[p]) \in Nat
    BY MineFacts
  <2>3. Cardinality(Reserve) >= Cardinality(Mine(p))
    BY MineFacts, ReserveFinite, FS_Subset
  <2>4. Len(lh) + Cardinality(Reserve) <= LOGSIZE
    BY DEF SpaceInv
  <2> HIDE DEF d
  <2>5. Len(lh) < LOGSIZE
    BY <1>1, <2>1, <2>2, <2>3, <2>4
  <2>6. CASE outstanding >= 2
    <3>1. PICK q \in Active : q # p
      <4>1. outstanding # 1
        BY <1>1, <2>6
      <4> QED BY <4>1, ActiveLess DEF Inv
    <3>2. Mine(p) \cap Mine(q) = {}
      BY <3>1 DEF Mine
    <3>3. /\ IsFiniteSet(Mine(p) \cup Mine(q))
          /\ Cardinality(Mine(p) \cup Mine(q)) = Cardinality(Mine(p)) + Cardinality(Mine(q)) - Cardinality({})
      BY <3>1, <3>2, MineFacts, FS_Union
    <3>4. Cardinality(Mine(p) \cup Mine(q)) <= Cardinality(Reserve)
      BY <3>1, MineFacts, ReserveFinite, FS_Subset
    <3>5. Cardinality(Mine(q)) >= d /\ Cardinality(Mine(q)) \in Nat /\ Cardinality({}) = 0
      BY <3>1, MineFacts, FS_EmptySet DEF d
    <3> QED BY <1>1, <2>1, <2>2, <2>4, <2>5, <3>3, <3>4, <3>5 DEF TooBig, Inv, Control, Active
  <2>7. CASE \A q \in Active : Len(lh) <= Cardinality(wrote[q])
    <3>1. Len(lh) < LogBlocks - 1
      BY <1>1, <2>1, <2>2, <2>7, ReserveFinite
    <3> QED BY <1>1, <2>1, <2>5, <3>1 DEF TooBig, Inv, Control, Active
  <2>8. CASE Len(lh) + Cardinality(Reserve) + d <= LOGSIZE
    BY <1>1, <2>1, <2>2, <2>3, <2>5, <2>8 DEF TooBig, Inv, Control, Active
  <2> QED BY <2>6, <2>7, <2>8 DEF SpaceInv, d
<1> QED BY <1>1, <1>2 DEF NoPanic, Active

\* log_write never panics for want of space in the log if operations write
\* fewer blocks than MAXOPBLOCKS, also on a disk of mkfs, whose log is a block
\* short (log.c begin_op, log_write; mkfs.c:25).
THEOREM NeverPanics == ASSUME LogFits PROVE Spec => []NoPanic
<1>1. Inv /\ Inv' /\ SpaceInv /\ [Next]_vars => SpaceInv'
  BY SpaceNext
<1>2. Inv /\ SpaceInv => NoPanic
  BY SpaceEnough
<1> QED BY <1>1, <1>2, Invariance, SpaceInit, PTL DEF Spec
=============================================================================
