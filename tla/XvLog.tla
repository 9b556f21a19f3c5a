------------------------------- MODULE XvLog --------------------------------
(* The redo log of xv6 (log.c): concurrent system calls between begin_op and *)
(* end_op, group commit by the last of them, a crash between any two writes  *)
(* of a disk block, and recovery.                                            *)
(*                                                                           *)
(* The buffer cache is modelled for the home blocks: a clean buffer may be   *)
(* recycled at any time (bget).  Blocks of the log itself are written        *)
(* through and read by the log alone, so their cached copies equal the disk. *)
(* One block write is atomic (BSIZE is a sector).                            *)
EXTENDS Integers, FiniteSets, SequencesExt

CONSTANTS Procs,
          Home,          \* block numbers outside the log
          Vals, Zero,    \* contents of a block, those of a new disk
          LOGSIZE, MAXOPBLOCKS,
          LogBlocks,     \* sb.nlog, the size of the log on disk with its header
          OpBlocks,      \* how many different blocks an operation writes at most
          MaxOps, MaxCrashes,  \* bounds
          NotCached

ASSUME LogAssumption ==
    /\ LOGSIZE \in Nat \ {0} /\ MAXOPBLOCKS \in Nat \ {0} /\ LogBlocks \in Nat \ {0}
    /\ OpBlocks \in Nat /\ MaxOps \in Nat /\ MaxCrashes \in Nat
    /\ IsFiniteSet(Procs) /\ Zero \in Vals /\ NotCached \notin Vals

VARIABLES
    disk, dlog, dhead,         \* on disk: home blocks, log blocks, log header
    cache, dirty,              \* buffers of home blocks, those with B_DIRTY
    lh, outstanding, committing,   \* struct log; lh.n is Len(lh)
    step, tail,                \* where commit or recover_from_log is
    pc, wrote, ops,            \* per process: control, blocks written, calls
    crashes

dvars == <<disk, dlog, dhead>>
cvars == <<cache, dirty>>
lvars == <<lh, outstanding, committing>>
pvars == <<pc, wrote, ops>>
vars == <<dvars, cvars, lvars, step, tail, pvars, crashes>>

-----------------------------------------------------------------------------
\* What bread of a home block returns: what its buffer holds or will be filled with.
View(b) == IF cache[b] = NotCached THEN disk[b] ELSE cache[b]

\* A process reads block b, which needs no begin_op.
bread(b) == /\ step = "none" \/ committing
            /\ cache' = [cache EXCEPT ![b] = View(b)]
            /\ UNCHANGED <<dvars, dirty, lvars, step, tail, pvars, crashes>>

\* bget recycles the buffer of block b.
Recycle(b) == /\ cache[b] # NotCached /\ b \notin dirty
              /\ cache' = [cache EXCEPT ![b] = NotCached]
              /\ UNCHANGED <<dvars, dirty, lvars, step, tail, pvars, crashes>>

Woken == [p \in Procs |-> IF pc[p] = "sleep" THEN "begin" ELSE pc[p]]

-----------------------------------------------------------------------------
(* begin_op, log_write, end_op *)

Call(p) ==
    /\ step = "none" \/ committing
    /\ pc[p] = "idle" /\ ops[p] < MaxOps
    /\ pc' = [pc EXCEPT ![p] = "begin"] /\ ops' = [ops EXCEPT ![p] = @ + 1]
    /\ UNCHANGED <<dvars, cvars, lvars, step, tail, wrote, crashes>>

\* Mutant: the new operation reserves nothing for itself.
ExhaustsLater == Len(lh) + outstanding * MAXOPBLOCKS > LOGSIZE
Exhausts == Len(lh) + (outstanding + 1) * MAXOPBLOCKS > LOGSIZE

begin_op(p) ==
    /\ pc[p] = "begin"
    /\ IF committing \/ Exhausts
       THEN pc' = [pc EXCEPT ![p] = "sleep"] /\ UNCHANGED outstanding
       ELSE pc' = [pc EXCEPT ![p] = "op"] /\ outstanding' = outstanding + 1
    /\ UNCHANGED <<dvars, cvars, lh, committing, step, tail, wrote, ops, crashes>>

\* log_write's panic "too big a transaction".
TooBig == Len(lh) >= LOGSIZE \/ Len(lh) >= LogBlocks - 1

\* Mutant: the buffer is not pinned.
PinNothing(b) == dirty
Pin(b) == dirty \cup {b}

\* The block is in the log once (absorption).
Logged(b) == IF b \in ToSet(lh) THEN lh ELSE Append(lh, b)

\* bread, a change of the data, log_write and brelse: the buffer is locked
\* throughout.
log_write(p, b, v) ==
    /\ pc[p] = "op" /\ ~TooBig
    /\ Cardinality(wrote[p] \cup {b}) <= OpBlocks
    /\ wrote' = [wrote EXCEPT ![p] = @ \cup {b}]
    /\ cache' = [cache EXCEPT ![b] = v] /\ dirty' = Pin(b)
    /\ lh' = Logged(b)
    /\ UNCHANGED <<dvars, outstanding, committing, step, tail, pc, ops, crashes>>

end_op(p) ==
    /\ pc[p] = "op"
    /\ outstanding' = outstanding - 1
    /\ committing' = (outstanding = 1)
    /\ IF committing'
       THEN /\ pc' = [pc EXCEPT ![p] = "commit"]
            /\ step' = IF lh = <<>> THEN "end" ELSE "write_log"
            /\ tail' = 1
       ELSE /\ pc' = [Woken EXCEPT ![p] = "idle"]
            /\ UNCHANGED <<step, tail>>
    /\ wrote' = [wrote EXCEPT ![p] = {}]
    /\ UNCHANGED <<dvars, cvars, lh, ops, crashes>>

-----------------------------------------------------------------------------
(* commit, one write of a block at a time, and the rest of end_op *)

write_log ==
    /\ step = "write_log"
    /\ IF tail <= Len(lh)
       THEN /\ dlog' = [dlog EXCEPT ![tail] = View(lh[tail])]
            /\ tail' = tail + 1 /\ UNCHANGED step
       ELSE step' = "write_head" /\ UNCHANGED <<dlog, tail>>
    /\ UNCHANGED <<disk, dhead, cvars, lvars, pvars, crashes>>

write_head ==
    /\ step = "write_head"
    /\ dhead' = lh
    /\ step' = "install" /\ tail' = 1
    /\ UNCHANGED <<disk, dlog, cvars, lvars, pvars, crashes>>

\* Mutant: the last block is forgotten.
MoreButLast == tail < Len(lh)
More == tail <= Len(lh)

\* The loop ends with log.lh.n = 0.
install_trans ==
    /\ step = "install"
    /\ IF More
       THEN /\ disk' = [disk EXCEPT ![lh[tail]] = dlog[tail]]
            /\ cache' = [cache EXCEPT ![lh[tail]] = dlog[tail]]
            /\ dirty' = dirty \ {lh[tail]}
            /\ tail' = tail + 1 /\ UNCHANGED <<lh, step>>
       ELSE /\ lh' = <<>> /\ step' = "erase"
            /\ UNCHANGED <<disk, cvars, tail>>
    /\ UNCHANGED <<dlog, dhead, outstanding, committing, pvars, crashes>>

\* write_head with n = 0.
erase ==
    /\ step = "erase"
    /\ dhead' = lh
    /\ step' = IF committing THEN "end" ELSE "none"
    /\ UNCHANGED <<disk, dlog, cvars, lvars, tail, pvars, crashes>>

\* Mutant: no wakeup.
AfterCommitSilent(p) == [pc EXCEPT ![p] = "idle"]
AfterCommit(p) == [Woken EXCEPT ![p] = "idle"]

end_commit(p) ==
    /\ pc[p] = "commit" /\ step = "end"
    /\ committing' = FALSE /\ step' = "none"
    /\ pc' = AfterCommit(p)
    /\ UNCHANGED <<dvars, cvars, lh, outstanding, tail, wrote, ops, crashes>>

-----------------------------------------------------------------------------
(* A crash loses the memory; initlog recovers from the log. *)

Crash ==
    /\ crashes < MaxCrashes /\ crashes' = crashes + 1
    /\ cache' = [b \in Home |-> NotCached] /\ dirty' = {}
    /\ lh' = <<>> /\ outstanding' = 0 /\ committing' = FALSE
    /\ step' = "read_head" /\ tail' = 1
    /\ pc' = [p \in Procs |-> "idle"] /\ wrote' = [p \in Procs |-> {}]
    /\ UNCHANGED <<dvars, ops>>

read_head ==
    /\ step = "read_head"
    /\ lh' = dhead
    /\ step' = "install" /\ tail' = 1
    /\ UNCHANGED <<dvars, cvars, outstanding, committing, pvars, crashes>>

-----------------------------------------------------------------------------
\* The first boot from a disk that mkfs made.
Init ==
    /\ disk = [b \in Home |-> Zero] /\ dlog = [i \in 1..(LogBlocks - 1) |-> Zero] /\ dhead = <<>>
    /\ cache = [b \in Home |-> NotCached] /\ dirty = {}
    /\ lh = <<>> /\ outstanding = 0 /\ committing = FALSE
    /\ step = "read_head" /\ tail = 1
    /\ pc = [p \in Procs |-> "idle"] /\ wrote = [p \in Procs |-> {}]
    /\ ops = [p \in Procs |-> 0]
    /\ crashes = 0

Commits == write_log \/ write_head \/ install_trans \/ erase \/ read_head

Step(p) == begin_op(p) \/ end_op(p) \/ end_commit(p)

\* Every operation has been made and has returned.
Terminated == /\ step = "none" /\ \A p \in Procs : pc[p] = "idle" /\ ops[p] = MaxOps
              /\ UNCHANGED vars

Next ==
    \/ \E p \in Procs : \/ Call(p) \/ Step(p)
                        \/ \E b \in Home, v \in Vals : log_write(p, b, v)
    \/ \E b \in Home : bread(b) \/ Recycle(b)
    \/ Commits \/ Crash \/ Terminated

Spec == Init /\ [][Next]_vars

\* The disk answers, and a process that can run does; an operation ends.
Fairness == WF_vars(Commits) /\ \A p \in Procs : WF_vars(Step(p))

FairSpec == Spec /\ Fairness

-----------------------------------------------------------------------------
(* Properties *)

\* Every variable keeps its type; no block is in the log twice, and it never
\* outgrows the log on disk.
TypeOK ==
    /\ disk \in [Home -> Vals] /\ dlog \in [1..(LogBlocks - 1) -> Vals]
    /\ cache \in [Home -> Vals \cup {NotCached}] /\ dirty \subseteq Home
    /\ ToSet(lh) \subseteq Home /\ IsInjective(lh) /\ Len(lh) < LogBlocks
    /\ ToSet(dhead) \subseteq Home /\ Len(dhead) < LogBlocks
    /\ outstanding = Cardinality({p \in Procs : pc[p] = "op"})
    /\ committing \in BOOLEAN
    /\ step \in {"none", "write_log", "write_head", "install", "erase", "end", "read_head"}
    /\ pc \in [Procs -> {"idle", "begin", "sleep", "op", "commit"}]

\* What recovery makes of the disk as it is.
Recovered == [b \in Home |->
    IF b \in ToSet(dhead) THEN dlog[CHOOSE i \in DOMAIN dhead : dhead[i] = b] ELSE disk[b]]

Booting == step # "none" /\ ~committing

Promise == INSTANCE AtomicDisk WITH
    current <- IF Booting THEN Recovered ELSE [b \in Home |-> View(b)],
    stable  <- Recovered,
    active  <- {p \in Procs : pc[p] = "op"}

\* log.c: "there is never any reasoning required about whether a commit might
\* write an uncommitted system call's updates to disk".  Whatever the order of
\* operations, evictions, commits and crashes, recovery finds all or nothing
\* of each group of operations.
ImplementsAtomicDisk == Promise!Spec

\* When the last end_op has returned everything is on disk: a crash loses
\* nothing.
Durable == step = "none" /\ outstanding = 0 => \A b \in Home : Recovered[b] = View(b)

\* log_write and end_op never panic: begin_op admits an operation only if the
\* log has room for all that are admitted.
NoPanic == /\ (\E p \in Procs : pc[p] = "op") => ~TooBig /\ ~committing
           /\ outstanding >= 0

\* Every operation that has called begin_op gets through its end_op.
OpsFinish == \A p \in Procs : pc[p] # "idle" ~> pc[p] = "idle"
=============================================================================
