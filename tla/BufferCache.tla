---------------------------- MODULE BufferCache -----------------------------
(* The buffer cache (bio.c), its sleep locks (sleeplock.c) and the disk      *)
(* drivers below it (ide.c, or memide.c for a disk in memory).               *)
(*                                                                           *)
(* What happens under a spin lock is one step: a lookup in bget under        *)
(* bcache.lock, the test and the change of a sleep lock under its lk, a      *)
(* queue operation under idelock.  A process holds one buffer at a time and  *)
(* releases it; the disk reports no errors.                                  *)
EXTENDS Integers, FiniteSets, SequencesExt

CONSTANTS Procs, Blocks,
          Hot,           \* the blocks whose contents change
          NBUF,
          MaxPins,       \* how many buffers log_write leaves dirty at a time
          None

Bufs == 1..NBUF

\* The contents of a block tell which block it is and what was stored in it.
Contents(k) == {k} \X IF k \in Hot THEN {0, 1} ELSE {0}
Values == UNION {Contents(k) : k \in Blocks}
Requests == [write : BOOLEAN, data : Values \cup {None}]

ASSUME CacheAssumption ==
    /\ IsFiniteSet(Procs) /\ MaxPins \in Nat
    /\ NBUF \in Nat
    /\ Hot \subseteq Blocks
    /\ None \notin Procs /\ None \notin Blocks /\ None \notin Bufs
    /\ None \notin Values /\ None \notin Requests

VARIABLES
    buf,        \* struct buf: block, refcnt, valid, dirty, data, locked (by whom)
    mru,        \* the list from bcache.head.next on
    idequeue, device,   \* requests; the request that the controller has
    disk, driver,       \* contents of the disk; which driver the kernel has
    at, has     \* per process: where it is, the buffer it asked for

vars == <<buf, mru, idequeue, device, disk, driver, at, has>>

Goes(p, where) == at' = [at EXCEPT ![p] = where]
Wakes(here, b, there) ==
    [q \in Procs |-> IF at[q] = here /\ has[q] = b THEN there ELSE at[q]]

-----------------------------------------------------------------------------
(* bget, acquiresleep, brelse *)

Cached(k) == {b \in Bufs : buf[b].block = k}

\* Mutant: a buffer that the log has modified is recycled.
UnusedOnly(b) == buf[b].refcnt = 0
Recyclable(b) == buf[b].refcnt = 0 /\ ~buf[b].dirty

\* The unused buffer next to the tail of the list.
Victim == mru[CHOOSE i \in 1..NBUF : /\ Recyclable(mru[i])
                                     /\ \A j \in i + 1..NBUF : ~Recyclable(mru[j])]

\* Mutant: the buffer found in the cache is not counted.
FoundUncounted(b) == buf
Found(b) == [buf EXCEPT ![b].refcnt = @ + 1]

\* A process that panics in bget keeps bcache.lock for ever.
Panicked == \E p \in Procs : at[p] = "panic"

\* The block is in the cache, or a buffer is recycled, whose data means nothing
\* any more: None.
bget(p, k) ==
    /\ at[p] = "out" /\ ~Panicked
    /\ \/ \E b \in Cached(k) : buf' = Found(b) /\ has' = [has EXCEPT ![p] = b]
       \/ /\ Cached(k) = {} /\ \E b \in Bufs : Recyclable(b)
          /\ buf' = [buf EXCEPT ![Victim] = [@ EXCEPT !.block = k, !.refcnt = 1,
                                        !.valid = FALSE, !.dirty = FALSE, !.data = None]]
          /\ has' = [has EXCEPT ![p] = Victim]
    /\ Goes(p, "acquiresleep")
    /\ UNCHANGED <<mru, idequeue, device, disk, driver>>

\* The block is not in the cache and every buffer is in use or modified.
bget_panics(p, k) ==
    /\ at[p] = "out" /\ ~Panicked
    /\ Cached(k) = {} /\ \A b \in Bufs : ~Recyclable(b)
    /\ Goes(p, "panic")
    /\ UNCHANGED <<buf, mru, idequeue, device, disk, driver, has>>

\* acquiresleep, and with the lock bread's look at B_VALID.
acquiresleep(p) ==
    LET b == has[p] IN
    /\ at[p] = "acquiresleep"
    /\ IF buf[b].locked # None
       THEN Goes(p, "sleep_lock") /\ UNCHANGED buf
       ELSE /\ buf' = [buf EXCEPT ![b].locked = p]
            /\ Goes(p, IF buf[b].valid THEN "hold" ELSE "iderw")
    /\ UNCHANGED <<mru, idequeue, device, disk, driver, has>>

\* Mutant: nobody is told that the lock is free.
ReleasedQuietly(b) == at
Released(b) == Wakes("sleep_lock", b, "acquiresleep")

\* brelse up to releasesleep.
releasesleep(p) ==
    LET b == has[p] IN
    /\ at[p] = "hold"
    /\ buf' = [buf EXCEPT ![b].locked = None]
    /\ at' = [Released(b) EXCEPT ![p] = "brelse"]
    /\ UNCHANGED <<mru, idequeue, device, disk, driver, has>>

\* b is taken out of the list and put in front of it.
ToFront(b) == LET n == CHOOSE i \in 1..NBUF : mru[i] = b
              IN  [i \in 1..NBUF |-> IF i = 1 THEN b ELSE IF i <= n THEN mru[i - 1] ELSE mru[i]]

\* The rest of brelse: the last user puts the buffer in front of the list.
brelse(p) ==
    LET b == has[p] IN
    /\ at[p] = "brelse" /\ ~Panicked
    /\ buf' = [buf EXCEPT ![b].refcnt = @ - 1]
    /\ mru' = IF buf[b].refcnt = 1 THEN ToFront(b) ELSE mru
    /\ Goes(p, "out") /\ has' = [has EXCEPT ![p] = None]
    /\ UNCHANGED <<idequeue, device, disk, driver>>

-----------------------------------------------------------------------------
(* What the holder of a buffer does *)

\* A change of the data, then bwrite.
bwrite(p, v) ==
    LET b == has[p] IN
    /\ at[p] = "hold"
    /\ buf' = [buf EXCEPT ![b].data = v, ![b].dirty = TRUE]
    /\ Goes(p, "iderw")
    /\ UNCHANGED <<mru, idequeue, device, disk, driver, has>>

\* A change of the data, then log_write: the buffer stays dirty after brelse.
log_write(p, v) ==
    LET b == has[p] IN
    /\ at[p] = "hold" /\ Cardinality({c \in Bufs \ {b} : buf[c].dirty}) < MaxPins
    /\ buf' = [buf EXCEPT ![b].data = v, ![b].dirty = TRUE]
    /\ UNCHANGED <<mru, idequeue, device, disk, driver, at, has>>

-----------------------------------------------------------------------------
(* The driver *)

\* idestart gives the controller the command and the data of a write.
idestart(q) == device' = IF q = <<>> THEN None
                         ELSE [write |-> buf'[Head(q)].dirty, data |-> buf'[Head(q)].data]

\* iderw of ide.c: the request of a locked buffer joins the queue.
iderw(p) ==
    LET b == has[p] IN
    /\ at[p] = "iderw" /\ driver = "ide"
    /\ idequeue' = Append(idequeue, b)
    /\ UNCHANGED buf
    /\ IF idequeue = <<>> THEN idestart(<<b>>) ELSE UNCHANGED device
    /\ Goes(p, "sleep_disk")
    /\ UNCHANGED <<mru, disk, driver, has>>

\* The process wakes up and looks at the flags again.
iderw_wakes(p) ==
    LET b == has[p] IN
    /\ at[p] = "iderw_wakes"
    /\ Goes(p, IF buf[b].valid /\ ~buf[b].dirty THEN "hold" ELSE "sleep_disk")
    /\ UNCHANGED <<buf, mru, idequeue, device, disk, driver, has>>

\* The controller is done with the first request and interrupts.
ideintr ==
    LET b == Head(idequeue)
        k == buf[b].block IN
    /\ idequeue # <<>> /\ device # None
    /\ disk' = IF device.write THEN [disk EXCEPT ![k] = device.data] ELSE disk
    /\ buf' = [buf EXCEPT ![b] = [@ EXCEPT !.valid = TRUE, !.dirty = FALSE,
                            !.data = IF buf[b].dirty THEN buf[b].data ELSE disk[k]]]
    /\ idequeue' = Tail(idequeue) /\ idestart(Tail(idequeue))
    /\ at' = Wakes("sleep_disk", b, "iderw_wakes")
    /\ UNCHANGED <<mru, driver, has>>

\* iderw of memide.c copies from or to the disk in memory.
iderw_mem(p) ==
    LET b == has[p]
        k == buf[b].block IN
    /\ at[p] = "iderw" /\ driver = "memide"
    /\ disk' = IF buf[b].dirty THEN [disk EXCEPT ![k] = buf[b].data] ELSE disk
    /\ buf' = [buf EXCEPT ![b] = [@ EXCEPT !.valid = TRUE, !.dirty = FALSE,
                                     !.data = disk'[k]]]
    /\ Goes(p, "hold")
    /\ UNCHANGED <<mru, idequeue, device, driver, has>>

-----------------------------------------------------------------------------
\* binit puts each buffer in front of those before it.
Init ==
    /\ disk = [k \in Blocks |-> <<k, 0>>] /\ driver \in {"ide", "memide"}
    /\ buf = [b \in Bufs |-> [block |-> None, refcnt |-> 0, valid |-> FALSE,
                              dirty |-> FALSE, data |-> None, locked |-> None]]
    /\ mru = [i \in Bufs |-> NBUF + 1 - i]
    /\ idequeue = <<>> /\ device = None
    /\ at = [p \in Procs |-> "out"] /\ has = [p \in Procs |-> None]

Call(p) == \E k \in Blocks : bget(p, k) \/ bget_panics(p, k)
Use(p) == /\ at[p] = "hold" /\ buf[has[p]].block \in Hot
          /\ \E v \in Contents(buf[has[p]].block) : bwrite(p, v) \/ log_write(p, v)

\* What a process does by itself once it is in a call or holds a buffer.
Step(p) == acquiresleep(p) \/ releasesleep(p) \/ brelse(p)
           \/ iderw(p) \/ iderw_wakes(p) \/ iderw_mem(p)

\* panic ends in a loop that does nothing.
Halted == Panicked /\ UNCHANGED vars

Next == (\E p \in Procs : Call(p) \/ Use(p) \/ Step(p)) \/ ideintr \/ Halted

Spec == Init /\ [][Next]_vars

\* Processes are scheduled, the disk answers, a holder releases its buffer.
FairSpec == Spec /\ WF_vars(ideintr)
            /\ \A p \in Procs : WF_vars(Step(p)) /\ SF_vars(releasesleep(p))

-----------------------------------------------------------------------------
TypeOK ==
    /\ buf \in [Bufs -> [block : Blocks \cup {None}, refcnt : 0..Cardinality(Procs),
                         valid : BOOLEAN, dirty : BOOLEAN,
                         data : Values \cup {None}, locked : Procs \cup {None}]]
    /\ Len(mru) = NBUF /\ ToSet(mru) = Bufs
    /\ disk \in [Blocks -> Values] /\ driver \in {"ide", "memide"}
    /\ has \in [Procs -> Bufs \cup {None}]

Users(b) == {p \in Procs : has[p] = b}
Busy == {p \in Procs : has[p] # None}

(* A block is in at most one buffer; refcnt counts the processes between     *)
(* bget and the end of brelse, so that no buffer is recycled under one of    *)
(* them; a request in the queue belongs to a process that sleeps with the    *)
(* buffer locked, the first is with the controller; and no buffer is ever    *)
(* lost: bget finds none only when the pinned buffers and those of other     *)
(* processes are all there are (bio.c:77-92, ide.c:137-168).                 *)
CacheSound ==
    /\ TypeOK
    /\ \A k \in Blocks : Cardinality(Cached(k)) <= 1
    /\ \A b \in Bufs : buf[b].refcnt = Cardinality(Users(b))
    /\ \A b \in Bufs : buf[b].locked # None => buf[b].locked \in Users(b)
    /\ IsInjective(idequeue) /\ (device = None <=> idequeue = <<>>)
    /\ \A b \in ToSet(idequeue) : \E p \in Users(b) :
            buf[b].locked = p /\ at[p] = "sleep_disk"
    /\ Panicked => NBUF <= MaxPins + Cardinality(Busy)

Holder(k) == LET B == {b \in Cached(k) : buf[b].valid /\ buf[b].locked # None}
             IN  IF B = {} THEN None ELSE buf[CHOOSE b \in B : TRUE].locked
Current(k) == LET B == {b \in Cached(k) : buf[b].valid}
              IN  IF B = {} THEN disk[k] ELSE buf[CHOOSE b \in B : TRUE].data

Store == INSTANCE BlockStore WITH
             holder <- [k \in Blocks |-> Holder(k)],
             value <- [k \in Blocks |-> Current(k)]

(* The cache, its locks, recycling and both drivers implement blocks that    *)
(* one process holds at a time and whose holder sees what was stored last,   *)
(* in a buffer or on the disk (bread, bwrite, log_write, brelse).            *)
ImplementsBlockStore == Store!Spec

Waiting == {"sleep_lock", "iderw", "sleep_disk", "iderw_wakes"}

(* A process that waits for a buffer's lock or for the disk goes on, unless  *)
(* the kernel panics: each release wakes those who wait for the lock, and    *)
(* the queue is served to its end (sleeplock.c:34-42, ide.c:103-131).        *)
RequestsServed == \A p \in Procs : at[p] \in Waiting ~> at[p] \notin Waiting \/ Panicked
=============================================================================
