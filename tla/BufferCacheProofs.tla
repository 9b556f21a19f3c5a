------------------------- MODULE BufferCacheProofs --------------------------
(* Proofs about BufferCache for any number of processes, blocks and buffers. *)
EXTENDS BufferCache, FiniteSetTheorems, WellFoundedInduction, TLAPS

-----------------------------------------------------------------------------
(* The inductive invariant. *)

BufRec == [block : Blocks \cup {None}, refcnt : Nat, valid : BOOLEAN, dirty : BOOLEAN,
           data : Values \cup {None}, locked : Procs \cup {None}]
Places == {"out", "acquiresleep", "sleep_lock", "hold", "iderw", "sleep_disk", "iderw_wakes", "brelse",
           "panic"}

\* Every variable keeps its type; the list has every buffer.
Types ==
    /\ buf \in [Bufs -> BufRec]
    /\ mru \in [1..NBUF -> Bufs] /\ \A b \in Bufs : \E i \in 1..NBUF : mru[i] = b
    /\ disk \in [Blocks -> Values] /\ driver \in {"ide", "memide"}
    /\ idequeue \in Seq(Bufs) /\ device \in Requests \cup {None}
    /\ at \in [Procs -> Places] /\ has \in [Procs -> Bufs \cup {None}]

Locking == {"hold", "iderw", "sleep_disk", "iderw_wakes"}

\* A process between bget and the end of brelse has a buffer of a block; it has
\* locked the buffer from acquiresleep to releasesleep.
ProcInv(p) ==
    /\ has[p] = None <=> at[p] \in {"out", "panic"}
    /\ has[p] # None => buf[has[p]].block \in Blocks
    /\ has[p] # None => (buf[has[p]].locked = p <=> at[p] \in Locking)
    /\ at[p] = "hold" => buf[has[p]].valid
    /\ at[p] \in {"iderw", "sleep_disk"} => ~buf[has[p]].valid \/ buf[has[p]].dirty
    /\ at[p] = "iderw_wakes" => buf[has[p]].valid /\ ~buf[has[p]].dirty

\* A buffer counts its users, is locked by one of them, holds data when valid,
\* and the disk's unless it is dirty.
BufInv(b) ==
    /\ buf[b].refcnt = Cardinality(Users(b))
    /\ buf[b].locked # None => has[buf[b].locked] = b
    /\ buf[b].dirty => buf[b].valid
    /\ buf[b].valid => buf[b].block \in Blocks /\ buf[b].data \in Values
    /\ buf[b].valid /\ ~buf[b].dirty => buf[b].data = disk[buf[b].block]

\* A block is in one buffer at most.
OneBuffer == \A a, b \in Bufs : buf[a].block = buf[b].block /\ buf[a].block # None => a = b

\* Each request is of a process that sleeps with the buffer locked; the
\* controller has the first.
QueueInv ==
    /\ \A i, j \in 1..Len(idequeue) : idequeue[i] = idequeue[j] => i = j
    /\ \A i \in 1..Len(idequeue) : /\ buf[idequeue[i]].locked # None
                                   /\ at[buf[idequeue[i]].locked] = "sleep_disk"
    /\ IF idequeue = <<>> THEN device = None
       ELSE device = [write |-> buf[idequeue[1]].dirty, data |-> buf[idequeue[1]].data]

\* The buffers that log_write left dirty; those of bwrite are on their way to
\* the disk.
Writing(b) == buf[b].locked # None /\ at[buf[b].locked] \in {"iderw", "sleep_disk"}
Pinned == {b \in Bufs : buf[b].dirty /\ ~Writing(b)}

Inv == /\ Types /\ OneBuffer /\ QueueInv
       /\ \A p \in Procs : ProcInv(p)
       /\ \A b \in Bufs : BufInv(b)
       /\ Cardinality(Pinned) <= MaxPins

-----------------------------------------------------------------------------
(* Steps that change one buffer. *)

\* Numbers and sets that the counting rests on.
LEMMA Finite ==
    /\ NBUF \in Nat /\ MaxPins \in Nat /\ IsFiniteSet(Bufs) /\ Cardinality(Bufs) = NBUF
    /\ IsFiniteSet(Procs) /\ Cardinality(Procs) \in Nat
<1>1. NBUF \in Nat /\ MaxPins \in Nat /\ IsFiniteSet(Procs)
  BY CacheAssumption
<1>2. IsFiniteSet(1..NBUF) /\ Cardinality(1..NBUF) = IF 1 > NBUF THEN 0 ELSE NBUF - 1 + 1
  BY <1>1, FS_Interval
<1>3. Cardinality(Procs) \in Nat
  BY <1>1, FS_CardinalityType
<1> QED BY <1>1, <1>2, <1>3 DEF Bufs

\* A process with a lock has that buffer and no other process has the lock.
LEMMA Lockers ==
    ASSUME Inv, NEW a \in Bufs, buf[a].locked # None
    PROVE  /\ buf[a].locked \in Procs /\ has[buf[a].locked] = a
           /\ at[buf[a].locked] \in Locking
<1>1. buf[a].locked \in Procs /\ has[buf[a].locked] = a /\ a # None
  BY CacheAssumption DEF Inv, Types, BufRec, BufInv
<1> QED BY <1>1 DEF Inv, ProcInv

\* With the users of b alone affected, the invariant is kept if it is for them,
\* for b, for the queue and for the number of pinned buffers.
LEMMA OneStep ==
    ASSUME Inv, NEW b \in Bufs, NEW r \in BufRec, buf' = [buf EXCEPT ![b] = r], has' = has, mru' = mru,
           driver' = driver, at' \in [Procs -> Places], disk' \in [Blocks -> Values],
           idequeue' \in Seq(Bufs), device' \in Requests \cup {None},
           r.block = buf[b].block,
           \A k \in Blocks : k # r.block => disk'[k] = disk[k],
           \A q \in Procs : has[q] # b => at'[q] = at[q],
           \A q \in Procs : has[q] = b => ProcInv(q)',
           BufInv(b)', QueueInv', Cardinality(Pinned') <= MaxPins
    PROVE  Inv'
<1>1. Types'
  BY DEF Inv, Types
<1>2. \A a \in Bufs : buf'[a] = IF a = b THEN r ELSE buf[a]
  BY DEF Inv, Types
<1>3. OneBuffer'
  BY <1>2 DEF Inv, OneBuffer
<1>4. ASSUME NEW q \in Procs PROVE ProcInv(q)'
  <2>1. CASE has[q] = b
    BY <2>1
  <2>2. CASE has[q] # b
    <3>1. has[q] # None => has[q] \in Bufs /\ buf'[has[q]] = buf[has[q]]
      BY <1>2, <2>2 DEF Inv, Types
    <3>2. ProcInv(q) /\ at'[q] = at[q] /\ has'[q] = has[q]
      BY <2>2 DEF Inv
    <3> QED BY <3>1, <3>2 DEF ProcInv
  <2> QED BY <2>1, <2>2
<1>5. ASSUME NEW a \in Bufs PROVE BufInv(a)'
  <2>1. CASE a = b
    BY <2>1
  <2>2. CASE a # b
    <3>1. BufInv(a) /\ buf'[a] = buf[a] /\ Users(a)' = Users(a)
      BY <1>2, <2>2 DEF Inv, Users
    <3>2. buf[a].valid => buf[a].block \in Blocks /\ disk'[buf[a].block] = disk[buf[a].block]
      <4>1. buf[a].valid => buf[a].block \in Blocks
        BY DEF Inv, BufInv
      <4>2. buf[a].block \in Blocks => buf[a].block # r.block
        BY <2>2, CacheAssumption DEF Inv, OneBuffer
      <4> QED BY <4>1, <4>2
    <3> QED BY <3>1, <3>2 DEF BufInv
  <2> QED BY <2>1, <2>2
<1> QED BY <1>1, <1>3, <1>4, <1>5 DEF Inv

\* A step on a buffer that is not in the queue leaves the queue alone.
LEMMA QueueQuiet ==
    ASSUME Inv, NEW b \in Bufs, NEW r, buf' = [buf EXCEPT ![b] = r], idequeue' = idequeue, device' = device,
           \A i \in 1..Len(idequeue) : idequeue[i] # b,
           \A q \in Procs : has[q] # b => at'[q] = at[q]
    PROVE  QueueInv'
<1>1. \A i \in 1..Len(idequeue) : idequeue[i] \in Bufs /\ buf'[idequeue[i]] = buf[idequeue[i]]
  BY DEF Inv, Types
<1>2. ASSUME NEW i \in 1..Len(idequeue)
      PROVE  at'[buf[idequeue[i]].locked] = at[buf[idequeue[i]].locked]
  <2>1. idequeue[i] \in Bufs /\ buf[idequeue[i]].locked # None
    BY <1>1 DEF Inv, QueueInv
  <2>2. buf[idequeue[i]].locked \in Procs /\ has[buf[idequeue[i]].locked] = idequeue[i]
    BY <2>1, Lockers
  <2> QED BY <2>2
<1>3. idequeue # <<>> => 1 \in 1..Len(idequeue)
  BY DEF Inv, Types
<1> QED BY <1>1, <1>2, <1>3 DEF Inv, QueueInv

\* Only b can become pinned by a step of its users.
LEMMA PinnedOthers ==
    ASSUME Inv, NEW b \in Bufs, NEW r, buf' = [buf EXCEPT ![b] = r],
           \A q \in Procs : has[q] # b => at'[q] = at[q]
    PROVE  \A a \in Bufs : a # b => (a \in Pinned' <=> a \in Pinned)
<1> SUFFICES ASSUME NEW a \in Bufs, a # b PROVE a \in Pinned' <=> a \in Pinned
  OBVIOUS
<1>1. buf'[a] = buf[a]
  BY DEF Inv, Types
<1>2. buf[a].locked # None => at'[buf[a].locked] = at[buf[a].locked]
  BY Lockers
<1> QED BY <1>1, <1>2 DEF Pinned, Writing

\* Fewer pinned buffers are few enough.
LEMMA PinnedFewer ==
    ASSUME Inv, Pinned' \subseteq Pinned
    PROVE  Cardinality(Pinned') <= MaxPins
<1>1. IsFiniteSet(Pinned) /\ Cardinality(Pinned) \in Nat
  BY Finite, FS_Subset, FS_CardinalityType DEF Pinned
<1>2. IsFiniteSet(Pinned') /\ Cardinality(Pinned') <= Cardinality(Pinned)
  BY <1>1, FS_Subset
<1>3. Cardinality(Pinned') \in Nat
  BY <1>2, FS_CardinalityType
<1> QED BY <1>1, <1>2, <1>3, Finite DEF Inv

\* What p knows that has a buffer.
LEMMA Has ==
    ASSUME Inv, NEW p \in Procs, at[p] \notin {"out", "panic"}
    PROVE  /\ has[p] \in Bufs /\ buf[has[p]] \in BufRec /\ buf[has[p]].block \in Blocks
           /\ ProcInv(p) /\ BufInv(has[p]) /\ at[p] \in Places /\ p # None
BY CacheAssumption DEF Inv, Types, ProcInv

\* While p has a buffer locked, its other users are waiting for it.
LEMMA LockHeld ==
    ASSUME Inv, NEW p \in Procs, at[p] \in Locking
    PROVE  /\ buf[has[p]].locked = p
           /\ \A q \in Procs : q # p /\ has[q] = has[p] => at[q] \notin Locking
           /\ at[p] # "sleep_disk" => \A i \in 1..Len(idequeue) : idequeue[i] # has[p]
<1>1. at[p] \notin {"out", "panic"} /\ has[p] \in Bufs /\ has[p] # None
  BY Has, CacheAssumption DEF Locking
<1>2. buf[has[p]].locked = p
  BY <1>1 DEF Inv, ProcInv
<1> QED BY <1>1, <1>2 DEF Inv, ProcInv, QueueInv

-----------------------------------------------------------------------------
(* The steps. *)

\* acquiresleep, when the lock is taken: p waits.
LEMMA SleepStep ==
    ASSUME Inv, NEW p \in Procs, acquiresleep(p), buf[has[p]].locked # None
    PROVE  Inv'
<1> DEFINE b == has[p]
<1>1. /\ at[p] = "acquiresleep" /\ at' = [at EXCEPT ![p] = "sleep_lock"] /\ buf' = buf
      /\ UNCHANGED <<mru, idequeue, device, disk, driver, has>>
  BY DEF acquiresleep, Goes
<1>2. /\ b \in Bufs /\ buf[b] \in BufRec /\ ProcInv(p) /\ BufInv(b) /\ p # None
      /\ at \in [Procs -> Places]
  BY <1>1, Has DEF Inv, Types
<1>3. buf' = [buf EXCEPT ![b] = buf[b]] /\ at' \in [Procs -> Places] /\ at'[p] = "sleep_lock"
  BY <1>1, <1>2 DEF Inv, Types, Places
<1>4. \A q \in Procs : q # p => at'[q] = at[q]
  BY <1>1, <1>2
<1>5. buf[b].locked # p
  BY <1>1, <1>2, CacheAssumption DEF ProcInv, Locking
<1>6. ASSUME NEW q \in Procs, has[q] = b PROVE ProcInv(q)'
  <2>1. CASE q = p
    BY <1>1, <1>2, <1>3, <1>5, <2>1 DEF ProcInv, Locking
  <2>2. CASE q # p
    BY <1>1, <1>4, <2>2 DEF Inv, ProcInv
  <2> QED BY <2>1, <2>2
<1>7. \A a \in Bufs : buf[a].locked # None => buf[a].locked # p
  BY <1>1, Lockers DEF Locking
<1>8. BufInv(b)'
  BY <1>1, <1>2 DEF BufInv, Users
<1>9. QueueInv'
  BY <1>1, <1>4, <1>7, Lockers DEF Inv, Types, QueueInv
<1>10. Pinned' \subseteq Pinned
  BY <1>1, <1>4, <1>7, Lockers DEF Pinned, Writing
<1>11. Cardinality(Pinned') <= MaxPins
  BY <1>10, PinnedFewer
<1>12. /\ disk' \in [Blocks -> Values] /\ idequeue' \in Seq(Bufs) /\ device' \in Requests \cup {None}
       /\ \A q \in Procs : has[q] # b => at'[q] = at[q]
  BY <1>1, <1>4 DEF Inv, Types
<1> HIDE DEF b
<1> QED BY <1>1, <1>2, <1>3, <1>6, <1>8, <1>9, <1>11, <1>12, OneStep DEF b

\* acquiresleep, when the lock is free.
LEMMA TakeStep ==
    ASSUME Inv, NEW p \in Procs, acquiresleep(p), buf[has[p]].locked = None
    PROVE  Inv'
<1> DEFINE b == has[p]
           r == [buf[b] EXCEPT !.locked = p]
           to == IF buf[b].valid THEN "hold" ELSE "iderw"
<1>1. /\ at[p] = "acquiresleep" /\ at' = [at EXCEPT ![p] = to] /\ buf' = [buf EXCEPT ![b] = r]
      /\ UNCHANGED <<mru, idequeue, device, disk, driver, has>>
  BY DEF acquiresleep, Goes
<1>2. /\ b \in Bufs /\ buf[b] \in BufRec /\ ProcInv(p) /\ BufInv(b) /\ p # None
      /\ at \in [Procs -> Places] /\ buf[b].block \in Blocks
  BY <1>1, Has DEF Inv, Types
<1>3. /\ r \in BufRec /\ r.block = buf[b].block /\ r.refcnt = buf[b].refcnt /\ r.valid = buf[b].valid
      /\ r.dirty = buf[b].dirty /\ r.data = buf[b].data /\ r.locked = p
  BY <1>2 DEF BufRec
<1> HIDE DEF r
<1>4. buf'[b] = r /\ at' \in [Procs -> Places] /\ at'[p] = to /\ \A q \in Procs : q # p => at'[q] = at[q]
  BY <1>1, <1>2 DEF Inv, Types, Places
<1>5. ASSUME NEW q \in Procs, has[q] = b PROVE ProcInv(q)'
  <2>1. CASE q = p
    BY <1>1, <1>2, <1>3, <1>4, <2>1, CacheAssumption DEF ProcInv, Locking
  <2>2. CASE q # p
    <3>1. ProcInv(q) /\ at'[q] = at[q] /\ has'[q] = b /\ q # None /\ b # None
      BY <1>1, <1>2, <1>4, <1>5, <2>2, CacheAssumption DEF Inv
    <3>2. at[q] \notin Locking
      BY <1>5, <3>1 DEF ProcInv
    <3> QED BY <1>2, <1>3, <1>4, <1>5, <2>2, <3>1, <3>2 DEF ProcInv, Locking
  <2> QED BY <2>1, <2>2
<1>6. BufInv(b)'
  BY <1>1, <1>2, <1>3, <1>4 DEF BufInv, Users
<1>7. \A i \in 1..Len(idequeue) : idequeue[i] # b
  BY <1>2 DEF Inv, QueueInv
<1>8. QueueInv'
  BY <1>1, <1>2, <1>4, <1>7, QueueQuiet
<1>9. Pinned' \subseteq Pinned
  <2>1. \A a \in Bufs : a # b => (a \in Pinned' <=> a \in Pinned)
    BY <1>1, <1>2, <1>4, PinnedOthers
  <2>2. b \in Pinned' => b \in Pinned
    BY <1>2, <1>3, <1>4 DEF Pinned, Writing
  <2> QED BY <2>1, <2>2 DEF Pinned
<1>10. Cardinality(Pinned') <= MaxPins
  BY <1>9, PinnedFewer
<1>11. disk' \in [Blocks -> Values] /\ idequeue' \in Seq(Bufs) /\ device' \in Requests \cup {None}
  BY <1>1 DEF Inv, Types
<1> HIDE DEF b
<1> QED BY <1>1, <1>2, <1>3, <1>4, <1>5, <1>6, <1>8, <1>10, <1>11, OneStep DEF b

\* releasesleep: those who wait for the lock try again.
LEMMA ReleaseStep ==
    ASSUME Inv, NEW p \in Procs, releasesleep(p)
    PROVE  Inv'
<1> DEFINE b == has[p]
           r == [buf[b] EXCEPT !.locked = None]
<1>1. /\ at[p] = "hold" /\ at' = [Released(b) EXCEPT ![p] = "brelse"] /\ buf' = [buf EXCEPT ![b] = r]
      /\ UNCHANGED <<mru, idequeue, device, disk, driver, has>>
  BY DEF releasesleep
<1>2. /\ b \in Bufs /\ buf[b] \in BufRec /\ ProcInv(p) /\ BufInv(b) /\ p # None
      /\ at \in [Procs -> Places] /\ buf[b].block \in Blocks
  BY <1>1, Has DEF Inv, Types
<1>3. /\ r \in BufRec /\ r.block = buf[b].block /\ r.refcnt = buf[b].refcnt /\ r.valid = buf[b].valid
      /\ r.dirty = buf[b].dirty /\ r.data = buf[b].data /\ r.locked = None
  BY <1>2 DEF BufRec
<1> HIDE DEF r
<1>4. /\ buf'[b] = r /\ at' \in [Procs -> Places] /\ at'[p] = "brelse"
      /\ \A q \in Procs : q # p => at'[q] = IF at[q] = "sleep_lock" /\ has[q] = b THEN "acquiresleep" ELSE at[q]
  BY <1>1, <1>2 DEF Inv, Types, Places, Released, Wakes
<1>5. /\ buf[b].locked = p /\ \A i \in 1..Len(idequeue) : idequeue[i] # b
      /\ \A q \in Procs : q # p /\ has[q] = b => at[q] \notin Locking
  BY <1>1, LockHeld DEF Locking
<1>6. ASSUME NEW q \in Procs, has[q] = b PROVE ProcInv(q)'
  <2>1. CASE q = p
    BY <1>1, <1>2, <1>3, <1>4, <2>1, CacheAssumption DEF ProcInv, Locking
  <2>2. CASE q # p
    <3>1. ProcInv(q) /\ has'[q] = b /\ q # None /\ b # None /\ at[q] \notin Locking
      BY <1>1, <1>2, <1>5, <1>6, <2>2, CacheAssumption DEF Inv
    <3>2. at'[q] \notin Locking /\ at'[q] \notin {"out", "panic"}
      BY <1>4, <1>6, <2>2, <3>1 DEF Locking, ProcInv
    <3> QED BY <1>2, <1>3, <1>4, <1>6, <2>2, <3>1, <3>2 DEF ProcInv, Locking
  <2> QED BY <2>1, <2>2
<1>7. BufInv(b)'
  BY <1>1, <1>2, <1>3, <1>4 DEF BufInv, Users
<1>8. QueueInv'
  BY <1>1, <1>2, <1>4, <1>5, QueueQuiet
<1>9. Pinned' \subseteq Pinned
  <2>1. \A a \in Bufs : a # b => (a \in Pinned' <=> a \in Pinned)
    BY <1>1, <1>2, <1>4, PinnedOthers
  <2>2. b \in Pinned' => b \in Pinned
    BY <1>1, <1>2, <1>3, <1>4, <1>5 DEF Pinned, Writing
  <2> QED BY <2>1, <2>2 DEF Pinned
<1>10. Cardinality(Pinned') <= MaxPins
  BY <1>9, PinnedFewer
<1>11. disk' \in [Blocks -> Values] /\ idequeue' \in Seq(Bufs) /\ device' \in Requests \cup {None}
  BY <1>1 DEF Inv, Types
<1>12. \A q \in Procs : has[q] # b => at'[q] = at[q]
  BY <1>4
<1> HIDE DEF b
<1> QED BY <1>1, <1>2, <1>3, <1>4, <1>6, <1>7, <1>8, <1>10, <1>11, <1>12, OneStep DEF b

\* A change of the data, with bwrite or log_write.
LEMMA WriteStep ==
    ASSUME Inv, NEW p \in Procs, at[p] = "hold", NEW v \in Contents(buf[has[p]].block),
           bwrite(p, v) \/ log_write(p, v)
    PROVE  Inv'
<1> DEFINE b == has[p]
           r == [buf[b] EXCEPT !.data = v, !.dirty = TRUE]
<1>1. /\ buf' = [buf EXCEPT ![b] = r]
      /\ UNCHANGED <<mru, idequeue, device, disk, driver, has>>
  <2>1. buf' = [buf EXCEPT ![b].data = v, ![b].dirty = TRUE]
    BY DEF bwrite, log_write
  <2>2. b \in Bufs
    BY Has
  <2> QED BY <2>1, <2>2 DEF bwrite, log_write, Inv, Types
<1>2. /\ b \in Bufs /\ buf[b] \in BufRec /\ ProcInv(p) /\ BufInv(b) /\ p # None
      /\ at \in [Procs -> Places] /\ buf[b].block \in Blocks
  BY Has DEF Inv, Types
<1>v. v \in Values
  BY <1>2 DEF Values
<1>3. /\ r \in BufRec /\ r.block = buf[b].block /\ r.refcnt = buf[b].refcnt /\ r.valid = buf[b].valid
      /\ r.dirty = TRUE /\ r.data = v /\ r.locked = buf[b].locked
  BY <1>2, <1>v DEF BufRec
<1> HIDE DEF r
<1>4. /\ buf'[b] = r /\ at' \in [Procs -> Places] /\ \A q \in Procs : q # p => at'[q] = at[q]
      /\ bwrite(p, v) => at'[p] = "iderw"
      /\ log_write(p, v) => at'[p] = "hold"
  BY <1>1, <1>2 DEF Inv, Types, Places, bwrite, log_write, Goes
<1>5. /\ buf[b].locked = p /\ \A i \in 1..Len(idequeue) : idequeue[i] # b
      /\ \A q \in Procs : q # p /\ has[q] = b => at[q] \notin Locking
  BY LockHeld DEF Locking
<1>6. ASSUME NEW q \in Procs, has[q] = b PROVE ProcInv(q)'
  <2>1. CASE q = p
    BY <1>1, <1>2, <1>3, <1>4, <1>5, <2>1, CacheAssumption DEF ProcInv, Locking
  <2>2. CASE q # p
    <3>1. ProcInv(q) /\ has'[q] = b /\ q # None /\ b # None /\ at[q] \notin Locking /\ at'[q] = at[q]
      BY <1>1, <1>2, <1>4, <1>5, <1>6, <2>2, CacheAssumption DEF Inv
    <3> QED BY <1>2, <1>3, <1>4, <1>6, <2>2, <3>1 DEF ProcInv, Locking
  <2> QED BY <2>1, <2>2
<1>7. BufInv(b)'
  BY <1>1, <1>2, <1>3, <1>4, <1>5, <1>v DEF BufInv, Users, ProcInv
<1>8. QueueInv'
  BY <1>1, <1>2, <1>4, <1>5, QueueQuiet
<1>9. \A a \in Bufs : a # b => (a \in Pinned' <=> a \in Pinned)
  BY <1>1, <1>2, <1>4, PinnedOthers
<1>10. Cardinality(Pinned') <= MaxPins
  <2>1. CASE bwrite(p, v)
    <3>1. b \notin Pinned'
      BY <1>2, <1>3, <1>4, <1>5, <2>1 DEF Pinned, Writing
    <3> QED BY <1>9, <3>1, PinnedFewer DEF Pinned
  <2>2. CASE log_write(p, v)
    <3> DEFINE D == {c \in Bufs \ {b} : buf[c].dirty}
    <3>1. Cardinality(D) < MaxPins
      BY <2>2 DEF log_write
    <3>2. IsFiniteSet(D) /\ Cardinality(D) \in Nat
      BY Finite, FS_Subset, FS_CardinalityType
    <3>3. Pinned' \subseteq D \cup {b}
      BY <1>9 DEF Pinned
    <3> HIDE DEF D
    <3>a. /\ IsFiniteSet(D \cup {b})
          /\ Cardinality(D \cup {b}) = IF b \in D THEN Cardinality(D) ELSE Cardinality(D) + 1
      BY <3>2, FS_AddElement
    <3>4. IsFiniteSet(D \cup {b}) /\ Cardinality(D \cup {b}) <= Cardinality(D) + 1
      BY <3>2, <3>a
    <3>5. IsFiniteSet(Pinned') /\ Cardinality(Pinned') <= Cardinality(D \cup {b})
      BY <3>3, <3>4, FS_Subset
    <3>6. Cardinality(Pinned') \in Nat /\ Cardinality(D \cup {b}) \in Nat
      BY <3>4, <3>5, FS_CardinalityType
    <3> QED BY <3>1, <3>2, <3>4, <3>5, <3>6, Finite
  <2> QED BY <2>1, <2>2
<1>11. disk' \in [Blocks -> Values] /\ idequeue' \in Seq(Bufs) /\ device' \in Requests \cup {None}
  BY <1>1 DEF Inv, Types
<1>12. \A q \in Procs : has[q] # b => at'[q] = at[q]
  BY <1>4
<1> HIDE DEF b
<1> QED BY <1>1, <1>2, <1>3, <1>4, <1>6, <1>7, <1>8, <1>10, <1>11, <1>12, OneStep DEF b

\* iderw of ide.c: p sleeps with its request in the queue.
LEMMA QueueStep ==
    ASSUME Inv, NEW p \in Procs, iderw(p)
    PROVE  Inv'
<1> DEFINE b == has[p]
<1>1. /\ at[p] = "iderw" /\ at' = [at EXCEPT ![p] = "sleep_disk"] /\ buf' = buf
      /\ idequeue' = Append(idequeue, b) /\ UNCHANGED <<mru, disk, driver, has>>
  BY DEF iderw, Goes
<1>2. /\ b \in Bufs /\ buf[b] \in BufRec /\ ProcInv(p) /\ BufInv(b) /\ p # None
      /\ at \in [Procs -> Places] /\ buf[b].block \in Blocks /\ idequeue \in Seq(Bufs)
  BY <1>1, Has DEF Inv, Types
<1>3. /\ buf' = [buf EXCEPT ![b] = buf[b]] /\ at' \in [Procs -> Places] /\ at'[p] = "sleep_disk"
      /\ \A q \in Procs : q # p => at'[q] = at[q]
  BY <1>1, <1>2 DEF Inv, Types, Places
<1>4. buf[b].locked = p /\ \A i \in 1..Len(idequeue) : idequeue[i] # b
  BY <1>1, LockHeld DEF Locking
<1>5. device' = IF idequeue = <<>> THEN [write |-> buf[b].dirty, data |-> buf[b].data] ELSE device
  BY <1>1 DEF iderw, idestart
<1>6. ASSUME NEW q \in Procs, has[q] = b PROVE ProcInv(q)'
  <2>1. CASE q = p
    BY <1>1, <1>2, <1>3, <1>4, <2>1 DEF ProcInv, Locking
  <2>2. CASE q # p
    BY <1>1, <1>3, <2>2 DEF Inv, ProcInv
  <2> QED BY <2>1, <2>2
<1>7. BufInv(b)'
  BY <1>1, <1>2 DEF BufInv, Users
<1>8. QueueInv'
  <2>1. /\ Len(idequeue') = Len(idequeue) + 1 /\ idequeue'[Len(idequeue) + 1] = b
        /\ \A i \in 1..Len(idequeue) : idequeue'[i] = idequeue[i] /\ idequeue[i] \in Bufs
        /\ Len(idequeue) \in Nat /\ idequeue' # <<>>
        /\ idequeue = <<>> => idequeue'[1] = b
        /\ idequeue # <<>> => idequeue'[1] = idequeue[1]
    BY <1>1, <1>2
  <2>2. \A i, j \in 1..Len(idequeue') : idequeue'[i] = idequeue'[j] => i = j
    BY <1>4, <2>1 DEF Inv, QueueInv
  <2>3. ASSUME NEW i \in 1..Len(idequeue')
        PROVE  buf[idequeue'[i]].locked # None /\ at'[buf[idequeue'[i]].locked] = "sleep_disk"
    <3>1. CASE i = Len(idequeue) + 1
      BY <1>2, <1>3, <1>4, <2>1, <3>1
    <3>2. CASE i \in 1..Len(idequeue)
      <4>1. buf[idequeue[i]].locked # None /\ at[buf[idequeue[i]].locked] = "sleep_disk"
        BY <3>2 DEF Inv, QueueInv
      <4>2. buf[idequeue[i]].locked \in Procs
        BY <2>1, <3>2, <4>1, Lockers
      <4> QED BY <1>3, <2>1, <3>2, <4>1, <4>2
    <3> QED BY <2>1, <3>1, <3>2
  <2>4. device' = [write |-> buf[idequeue'[1]].dirty, data |-> buf[idequeue'[1]].data]
    BY <1>5, <2>1 DEF Inv, QueueInv
  <2> QED BY <1>1, <2>1, <2>2, <2>3, <2>4 DEF QueueInv
<1>9. Pinned' \subseteq Pinned
  <2>1. \A a \in Bufs : a # b => (a \in Pinned' <=> a \in Pinned)
    BY <1>2, <1>3, PinnedOthers
  <2>2. b \notin Pinned'
    BY <1>1, <1>2, <1>3, <1>4 DEF Pinned, Writing
  <2> QED BY <2>1, <2>2 DEF Pinned
<1>10. Cardinality(Pinned') <= MaxPins
  BY <1>9, PinnedFewer
<1>11. /\ disk' \in [Blocks -> Values] /\ idequeue' \in Seq(Bufs) /\ device' \in Requests \cup {None}
       /\ \A q \in Procs : has[q] # b => at'[q] = at[q]
  BY <1>1, <1>2, <1>3, <1>5 DEF Inv, Types, Requests, BufRec
<1> HIDE DEF b
<1> QED BY <1>1, <1>2, <1>3, <1>6, <1>7, <1>8, <1>10, <1>11, OneStep DEF b

\* iderw after the wakeup: the request was served, so p goes on.
LEMMA ServedStep ==
    ASSUME Inv, NEW p \in Procs, iderw_wakes(p)
    PROVE  Inv' /\ at' = [at EXCEPT ![p] = "hold"]
<1> DEFINE b == has[p]
<1>2. /\ at[p] = "iderw_wakes"
      /\ b \in Bufs /\ buf[b] \in BufRec /\ ProcInv(p) /\ BufInv(b) /\ p # None
      /\ at \in [Procs -> Places]
  BY Has DEF Inv, Types, iderw_wakes
<1>1. /\ buf[b].valid /\ ~buf[b].dirty /\ at' = [at EXCEPT ![p] = "hold"] /\ buf' = buf
      /\ UNCHANGED <<mru, idequeue, device, disk, driver, has>>
  BY <1>2 DEF iderw_wakes, Goes, ProcInv
<1>3. /\ buf' = [buf EXCEPT ![b] = buf[b]] /\ at' \in [Procs -> Places] /\ at'[p] = "hold"
      /\ \A q \in Procs : q # p => at'[q] = at[q]
  BY <1>1, <1>2 DEF Inv, Types, Places
<1>4. buf[b].locked = p /\ \A i \in 1..Len(idequeue) : idequeue[i] # b
  BY <1>2, LockHeld DEF Locking
<1>6. ASSUME NEW q \in Procs, has[q] = b PROVE ProcInv(q)'
  <2>1. CASE q = p
    BY <1>1, <1>2, <1>3, <1>4, <2>1 DEF ProcInv, Locking
  <2>2. CASE q # p
    BY <1>1, <1>3, <2>2 DEF Inv, ProcInv
  <2> QED BY <2>1, <2>2
<1>7. BufInv(b)'
  BY <1>1, <1>2 DEF BufInv, Users
<1>8. QueueInv'
  BY <1>1, <1>2, <1>3, <1>4, QueueQuiet
<1>9. Pinned' \subseteq Pinned
  <2>1. \A a \in Bufs : a # b => (a \in Pinned' <=> a \in Pinned)
    BY <1>2, <1>3, PinnedOthers
  <2>2. b \notin Pinned'
    BY <1>1 DEF Pinned
  <2> QED BY <2>1, <2>2 DEF Pinned
<1>10. Cardinality(Pinned') <= MaxPins
  BY <1>9, PinnedFewer
<1>11. /\ disk' \in [Blocks -> Values] /\ idequeue' \in Seq(Bufs) /\ device' \in Requests \cup {None}
       /\ \A q \in Procs : has[q] # b => at'[q] = at[q]
  BY <1>1, <1>2, <1>3 DEF Inv, Types
<1>12. at' = [at EXCEPT ![p] = "hold"]
  BY <1>1
<1> HIDE DEF b
<1> QED BY <1>1, <1>2, <1>3, <1>6, <1>7, <1>8, <1>10, <1>11, <1>12, OneStep DEF b

\* ideintr: the first request is done, the next is started.
LEMMA IntrStep ==
    ASSUME Inv, ideintr
    PROVE  Inv'
<1>0. idequeue # <<>> /\ Head(idequeue) \in Bufs
  BY DEF Inv, Types, ideintr
<1> PICK b \in Bufs : b = Head(idequeue)
  BY <1>0
<1> DEFINE k == buf[b].block
           d == IF buf[b].dirty THEN buf[b].data ELSE disk[k]
           r == [buf[b] EXCEPT !.valid = TRUE, !.dirty = FALSE, !.data = d]
           p == buf[b].locked
<1>1. /\ idequeue # <<>> /\ disk' = IF device.write THEN [disk EXCEPT ![k] = device.data] ELSE disk
      /\ idequeue' = Tail(idequeue) /\ at' = Wakes("sleep_disk", b, "iderw_wakes")
      /\ UNCHANGED <<mru, driver, has>>
      /\ device' = IF idequeue' = <<>> THEN None
                   ELSE [write |-> buf'[Head(idequeue')].dirty, data |-> buf'[Head(idequeue')].data]
  BY DEF ideintr, idestart
<1>2. /\ idequeue \in Seq(Bufs) /\ Len(idequeue) \in Nat \ {0} /\ b = idequeue[1] /\ b \in Bufs
      /\ Tail(idequeue) \in Seq(Bufs) /\ Len(Tail(idequeue)) = Len(idequeue) - 1
      /\ \A i \in 1..Len(Tail(idequeue)) : Tail(idequeue)[i] = idequeue[i + 1]
  BY <1>1 DEF Inv, Types
<1>3. /\ buf[b] \in BufRec /\ BufInv(b) /\ at \in [Procs -> Places] /\ disk \in [Blocks -> Values]
      /\ p # None /\ p \in Procs /\ has[p] = b /\ at[p] = "sleep_disk" /\ ProcInv(p) /\ k \in Blocks
      /\ device = [write |-> buf[b].dirty, data |-> buf[b].data]
  <2>1. p # None /\ at[p] = "sleep_disk" /\ device = [write |-> buf[b].dirty, data |-> buf[b].data]
    BY <1>1, <1>2 DEF Inv, QueueInv
  <2>2. p \in Procs /\ has[p] = b /\ buf[b] \in BufRec /\ BufInv(b)
    BY <1>2, <2>1, Lockers DEF Inv, Types
  <2> QED BY <1>2, <2>1, <2>2, CacheAssumption DEF Inv, Types, ProcInv
<1>d. d \in Values /\ disk' = [disk EXCEPT ![k] = d]
  BY <1>1, <1>3 DEF BufInv
<1>r. buf' = [buf EXCEPT ![b] = r]
  BY <1>3 DEF ideintr
<1> HIDE DEF d
<1>4. /\ r \in BufRec /\ r.block = k /\ r.refcnt = buf[b].refcnt /\ r.valid = TRUE
      /\ r.dirty = FALSE /\ r.data = d /\ r.locked = p
  BY <1>3, <1>d DEF BufRec
<1> HIDE DEF r
<1>5. /\ buf'[b] = r /\ at' \in [Procs -> Places]
      /\ \A q \in Procs : at'[q] = IF at[q] = "sleep_disk" /\ has[q] = b THEN "iderw_wakes" ELSE at[q]
  BY <1>1, <1>2, <1>3, <1>r DEF Inv, Types, Places, Wakes
<1>6. ASSUME NEW q \in Procs, has[q] = b PROVE ProcInv(q)'
  <2>1. ProcInv(q) /\ has'[q] = b /\ q # None /\ b # None
    BY <1>1, <1>2, <1>6, CacheAssumption DEF Inv
  <2>2. CASE q = p
    BY <1>3, <1>4, <1>5, <2>1, <2>2 DEF ProcInv, Locking
  <2>3. CASE q # p
    <3>1. at[q] \notin Locking
      BY <1>6, <2>1, <2>3 DEF ProcInv
    <3> QED BY <1>3, <1>4, <1>5, <1>6, <2>1, <2>3, <3>1 DEF ProcInv, Locking
  <2> QED BY <2>2, <2>3
<1>7. BufInv(b)'
  <2>1. disk'[k] = d /\ has' = has /\ Users(b)' = Users(b)
    BY <1>1, <1>3, <1>d DEF Users
  <2>2. r.refcnt = Cardinality(Users(b)) /\ has[r.locked] = b
    BY <1>3, <1>4 DEF BufInv
  <2> QED BY <1>3, <1>4, <1>5, <1>d, <2>1, <2>2 DEF BufInv
<1>8. QueueInv'
  <2>1. ASSUME NEW i \in 1..Len(idequeue')
        PROVE  /\ i + 1 \in 1..Len(idequeue) /\ idequeue'[i] = idequeue[i + 1] /\ idequeue'[i] # b
               /\ idequeue'[i] \in Bufs /\ buf'[idequeue'[i]] = buf[idequeue[i + 1]]
    <3>1. i + 1 \in 1..Len(idequeue) /\ 1 \in 1..Len(idequeue) /\ idequeue'[i] = idequeue[i + 1]
      BY <1>1, <1>2
    <3>2. idequeue[i + 1] # idequeue[1] /\ idequeue[i + 1] \in Bufs
      BY <1>1, <1>2, <3>1 DEF Inv, QueueInv
    <3> QED BY <1>1, <1>2, <1>r, <3>1, <3>2 DEF Inv, Types
  <2>2. \A i, j \in 1..Len(idequeue') : idequeue'[i] = idequeue'[j] => i = j
    BY <1>2, <2>1 DEF Inv, QueueInv
  <2>3. ASSUME NEW i \in 1..Len(idequeue')
        PROVE  buf'[idequeue'[i]].locked # None /\ at'[buf'[idequeue'[i]].locked] = "sleep_disk"
    <3> DEFINE c == idequeue[i + 1]
    <3>1. c \in Bufs /\ c # b /\ buf'[idequeue'[i]] = buf[c]
      BY <2>1
    <3>2. buf[c].locked # None /\ at[buf[c].locked] = "sleep_disk"
      BY <2>1 DEF Inv, QueueInv
    <3>3. buf[c].locked \in Procs /\ has[buf[c].locked] = c
      BY <3>1, <3>2, Lockers
    <3> QED BY <1>5, <3>1, <3>2, <3>3
  <2>4. IF idequeue' = <<>> THEN device' = None
        ELSE device' = [write |-> buf'[idequeue'[1]].dirty, data |-> buf'[idequeue'[1]].data]
    BY <1>1, <1>2
  <2> QED BY <2>2, <2>3, <2>4 DEF QueueInv
<1>9. Pinned' \subseteq Pinned
  <2>1. \A a \in Bufs : a # b => (a \in Pinned' <=> a \in Pinned)
    BY <1>2, <1>5, <1>r, PinnedOthers
  <2>2. b \notin Pinned'
    BY <1>4, <1>5 DEF Pinned
  <2> QED BY <2>1, <2>2 DEF Pinned
<1>10. Cardinality(Pinned') <= MaxPins
  BY <1>9, PinnedFewer
<1>11. idequeue' \in Seq(Bufs) /\ device' \in Requests \cup {None}
  <2>1. idequeue' # <<>> => Head(idequeue') \in Bufs
    BY <1>1, <1>2
  <2>2. \A a \in Bufs : buf'[a] \in BufRec
    BY <1>2, <1>4, <1>r DEF Inv, Types
  <2> QED BY <1>1, <1>2, <2>1, <2>2 DEF Requests, BufRec
<1>12. /\ disk' \in [Blocks -> Values] /\ \A q \in Procs : has[q] # b => at'[q] = at[q]
       /\ \A j \in Blocks : j # r.block => disk'[j] = disk[j]
  BY <1>3, <1>4, <1>5, <1>d
<1>13. has' = has /\ mru' = mru /\ driver' = driver /\ buf' = [buf EXCEPT ![b] = r] /\ r.block = buf[b].block
       /\ b \in Bufs /\ r \in BufRec
  BY <1>1, <1>2, <1>4, <1>r
<1> QED BY <1>5, <1>6, <1>7, <1>8, <1>10, <1>11, <1>12, <1>13, OneStep

\* iderw of memide.c: the copy is immediate.
LEMMA CopyStep ==
    ASSUME Inv, NEW p \in Procs, iderw_mem(p)
    PROVE  Inv'
<1> DEFINE b == has[p]
           k == buf[b].block
           d == IF buf[b].dirty THEN buf[b].data ELSE disk[k]
           r == [buf[b] EXCEPT !.valid = TRUE, !.dirty = FALSE, !.data = d]
<1>0. at[p] = "iderw"
  BY DEF iderw_mem
<1>2. /\ b \in Bufs /\ buf[b] \in BufRec /\ ProcInv(p) /\ BufInv(b) /\ p # None /\ b # None
      /\ at \in [Procs -> Places] /\ disk \in [Blocks -> Values] /\ k \in Blocks
  BY <1>0, Has, CacheAssumption DEF Inv, Types
<1>d. d \in Values /\ disk' = [disk EXCEPT ![k] = d] /\ disk'[k] = d
  BY <1>2 DEF BufInv, iderw_mem
<1>1. /\ at' = [at EXCEPT ![p] = "hold"] /\ buf' = [buf EXCEPT ![b] = r]
      /\ UNCHANGED <<mru, idequeue, device, driver, has>>
  BY <1>2, <1>d DEF iderw_mem, Goes
<1> HIDE DEF d
<1>3. /\ r \in BufRec /\ r.block = k /\ r.refcnt = buf[b].refcnt /\ r.valid = TRUE
      /\ r.dirty = FALSE /\ r.data = d /\ r.locked = buf[b].locked
  BY <1>2, <1>d DEF BufRec
<1> HIDE DEF r
<1>4. /\ buf'[b] = r /\ at' \in [Procs -> Places] /\ at'[p] = "hold"
      /\ \A q \in Procs : q # p => at'[q] = at[q]
  BY <1>1, <1>2 DEF Inv, Types, Places
<1>5. /\ buf[b].locked = p /\ \A i \in 1..Len(idequeue) : idequeue[i] # b
      /\ \A q \in Procs : q # p /\ has[q] = b => at[q] \notin Locking
  BY <1>0, LockHeld DEF Locking
<1>6. ASSUME NEW q \in Procs, has[q] = b PROVE ProcInv(q)'
  <2>1. CASE q = p
    BY <1>1, <1>2, <1>3, <1>4, <1>5, <2>1 DEF ProcInv, Locking
  <2>2. CASE q # p
    <3>1. ProcInv(q) /\ has'[q] = b /\ q # None /\ at[q] \notin Locking /\ at'[q] = at[q]
      BY <1>1, <1>4, <1>5, <1>6, <2>2, CacheAssumption DEF Inv
    <3> QED BY <1>2, <1>3, <1>4, <1>5, <1>6, <2>2, <3>1 DEF ProcInv, Locking
  <2> QED BY <2>1, <2>2
<1>7. BufInv(b)'
  BY <1>1, <1>2, <1>3, <1>4, <1>5, <1>d DEF BufInv, Users
<1>8. QueueInv'
  BY <1>1, <1>2, <1>4, <1>5, QueueQuiet
<1>9. Pinned' \subseteq Pinned
  <2>1. \A a \in Bufs : a # b => (a \in Pinned' <=> a \in Pinned)
    BY <1>1, <1>2, <1>4, PinnedOthers
  <2>2. b \notin Pinned'
    BY <1>3, <1>4 DEF Pinned
  <2> QED BY <2>1, <2>2 DEF Pinned
<1>10. Cardinality(Pinned') <= MaxPins
  BY <1>9, PinnedFewer
<1>11. /\ disk' \in [Blocks -> Values] /\ idequeue' \in Seq(Bufs) /\ device' \in Requests \cup {None}
       /\ \A q \in Procs : has[q] # b => at'[q] = at[q]
       /\ \A j \in Blocks : j # r.block => disk'[j] = disk[j]
  BY <1>1, <1>2, <1>3, <1>4, <1>d DEF Inv, Types
<1>12. has' = has /\ mru' = mru /\ driver' = driver /\ buf' = [buf EXCEPT ![b] = r] /\ r.block = buf[b].block
       /\ b \in Bufs /\ r \in BufRec
  BY <1>1, <1>2, <1>3
<1> HIDE DEF b
<1> QED BY <1>4, <1>6, <1>7, <1>8, <1>10, <1>11, <1>12, OneStep DEF b

-----------------------------------------------------------------------------
(* The steps of bget and brelse, which change who has a buffer. *)

\* A set of numbers that is not empty has a least one.
LEMMA Least ==
    ASSUME NEW T, T \subseteq Nat, T # {}
    PROVE  \E x \in T : \A y \in T : x <= y
<1> DEFINE R == OpToRel(<, Nat)
<1>1. IsWellFoundedOn(R, Nat)
  BY NatLessThanWellFounded, Zenon
<1>2. \A x, y \in Nat : <<x, y>> \in R <=> x < y
  BY DEF OpToRel
<1> HIDE DEF R
<1>3. \E x \in T : \A y \in T : ~ (<<y, x>> \in R)
  BY <1>1, WFMin
<1>4. PICK x \in T : \A y \in T : ~ (<<y, x>> \in R)
  BY <1>3
<1>5. \A y \in T : ~(y < x)
  BY <1>2, <1>4
<1> QED BY <1>5

\* The users of a buffer are counted by a number; a buffer without users is
\* not locked.
LEMMA UsersFinite ==
    ASSUME Inv, NEW b \in Bufs
    PROVE  /\ IsFiniteSet(Users(b)) /\ Cardinality(Users(b)) \in Nat
           /\ buf[b].refcnt = Cardinality(Users(b))
           /\ buf[b].refcnt = 0 <=> Users(b) = {}
           /\ Users(b) = {} => buf[b].locked = None
<1>1. IsFiniteSet(Users(b)) /\ Cardinality(Users(b)) \in Nat
  BY Finite, FS_Subset, FS_CardinalityType DEF Users
<1>2. buf[b].refcnt = Cardinality(Users(b))
  BY DEF Inv, BufInv
<1>3. Users(b) = {} => buf[b].locked = None
  BY Lockers DEF Users
<1> QED BY <1>1, <1>2, <1>3, FS_EmptySet

\* When bget finds no buffer, each is some process's or one of at most MaxPins
\* that are pinned.
LEMMA NoRoom ==
    ASSUME Inv, \A b \in Bufs : ~Recyclable(b)
    PROVE  NBUF <= MaxPins + Cardinality(Busy)
<1> DEFINE f == [q \in Busy |-> has[q]]
           U == {has[q] : q \in Busy}
<1>1. IsFiniteSet(Busy) /\ Cardinality(Busy) \in Nat
  BY Finite, FS_Subset, FS_CardinalityType DEF Busy
<1>2. f \in Surjection(Busy, U)
  BY DEF Surjection
<1>3. IsFiniteSet(U) /\ Cardinality(U) <= Cardinality(Busy)
  <2> HIDE DEF f, U
  <2> QED BY <1>1, <1>2, FS_Surjection
<1>4. IsFiniteSet(Pinned) /\ Cardinality(Pinned) \in Nat
  BY Finite, FS_Subset, FS_CardinalityType DEF Pinned
<1>5. ASSUME NEW b \in Bufs PROVE b \in U \cup Pinned
  <2>1. CASE buf[b].refcnt = 0
    <3>1. buf[b].dirty /\ buf[b].locked = None
      BY <2>1, UsersFinite DEF Recyclable
    <3> QED BY <3>1 DEF Pinned, Writing
  <2>2. CASE buf[b].refcnt # 0
    <3>1. PICK q \in Procs : has[q] = b
      BY <2>2, UsersFinite DEF Users
    <3> QED BY <3>1, CacheAssumption DEF Busy
  <2> QED BY <2>1, <2>2
<1> HIDE DEF U
<1>6. /\ IsFiniteSet(U \cup Pinned)
      /\ Cardinality(U \cup Pinned) = Cardinality(U) + Cardinality(Pinned) - Cardinality(U \cap Pinned)
  BY <1>3, <1>4, FS_Union
<1>7. Cardinality(U) \in Nat /\ Cardinality(U \cap Pinned) \in Nat
  BY <1>3, <1>4, FS_CardinalityType, FS_Intersection
<1>8. Cardinality(Bufs) <= Cardinality(U \cup Pinned)
  BY <1>5, <1>6, FS_Subset
<1>9. Cardinality(Pinned) <= MaxPins
  BY DEF Inv
<1> QED BY <1>1, <1>3, <1>4, <1>6, <1>7, <1>8, <1>9, Finite

\* The buffer that bget takes is one it may take.
LEMMA VictimRecyclable ==
    ASSUME Inv, \E b \in Bufs : Recyclable(b)
    PROVE  Victim \in Bufs /\ Recyclable(Victim)
<1> DEFINE Final(i) == Recyclable(mru[i]) /\ \A j \in i + 1..NBUF : ~Recyclable(mru[j])
           T == {n \in Nat : n < NBUF /\ Recyclable(mru[NBUF - n])}
<1>1. PICK k \in 1..NBUF : Recyclable(mru[k])
  BY DEF Inv, Types
<1>2. NBUF - k \in T
  BY <1>1, Finite
<1>3. PICK n \in T : \A m \in T : n <= m
  <2>1. T \subseteq Nat /\ T # {}
    BY <1>2
  <2> HIDE DEF T
  <2> QED BY <2>1, Least
<1>4. NBUF - n \in 1..NBUF /\ Recyclable(mru[NBUF - n])
  BY <1>3, Finite
<1>5. ASSUME NEW j \in NBUF - n + 1..NBUF, Recyclable(mru[j]) PROVE FALSE
  <2>1. NBUF - j \in Nat /\ NBUF - j < n /\ NBUF - (NBUF - j) = j /\ NBUF - j < NBUF
    BY <1>3, Finite
  <2>2. NBUF - j \in T
    BY <1>5, <2>1
  <2> QED BY <1>3, <2>1, <2>2
<1>6. \E i \in 1..NBUF : Final(i)
  BY <1>4, <1>5
<1>7. (CHOOSE i \in 1..NBUF : Final(i)) \in 1..NBUF /\ Final(CHOOSE i \in 1..NBUF : Final(i))
  BY <1>6
<1>8. Victim = mru[CHOOSE i \in 1..NBUF : Final(i)]
  BY DEF Victim
<1> QED BY <1>7, <1>8 DEF Inv, Types

\* The list that brelse makes has every buffer as well.
LEMMA FrontList ==
    ASSUME Inv, NEW b \in Bufs
    PROVE  /\ ToFront(b) \in [1..NBUF -> Bufs]
           /\ \A c \in Bufs : \E i \in 1..NBUF : ToFront(b)[i] = c
<1> DEFINE n == CHOOSE i \in 1..NBUF : mru[i] = b
<1>1. n \in 1..NBUF /\ mru[n] = b
  BY DEF Inv, Types
<1>2. ToFront(b) = [i \in 1..NBUF |-> IF i = 1 THEN b ELSE IF i <= n THEN mru[i - 1] ELSE mru[i]]
  BY DEF ToFront
<1> HIDE DEF n
<1>3. \A i \in 1..NBUF : i # 1 => i - 1 \in 1..NBUF
  BY Finite
<1>4. ToFront(b) \in [1..NBUF -> Bufs]
  BY <1>2, <1>3 DEF Inv, Types
<1>5. ASSUME NEW c \in Bufs PROVE \E i \in 1..NBUF : ToFront(b)[i] = c
  <2>1. PICK i \in 1..NBUF : mru[i] = c
    BY DEF Inv, Types
  <2>2. CASE c = b
    BY <1>1, <1>2, <2>2, Finite
  <2>3. CASE c # b /\ i < n
    <3>1. i + 1 \in 1..NBUF /\ i + 1 # 1 /\ i + 1 <= n /\ (i + 1) - 1 = i
      BY <1>1, <2>3, Finite
    <3> QED BY <1>2, <2>1, <3>1
  <2>4. CASE c # b /\ i > n
    <3>1. i # 1 /\ ~(i <= n)
      BY <1>1, <2>4, Finite
    <3> QED BY <1>2, <2>1, <3>1
  <2> QED BY <1>1, <2>1, <2>2, <2>3, <2>4, Finite
<1> QED BY <1>4, <1>5

\* A process without the lock starts or stops having b: the invariant is kept
\* if it is for the process and the buffer.
LEMMA MoveStep ==
    ASSUME Inv, NEW p \in Procs, NEW b \in Bufs, NEW r \in BufRec, NEW x \in {b, None}, NEW y \in Places,
           buf' = [buf EXCEPT ![b] = r], has' = [has EXCEPT ![p] = x], at' = [at EXCEPT ![p] = y],
           has[p] \in {b, None}, at[p] \notin Locking, y \notin Locking,
           mru' \in [1..NBUF -> Bufs], \A c \in Bufs : \E i \in 1..NBUF : mru'[i] = c,
           UNCHANGED <<idequeue, device, disk, driver>>,
           r.dirty <=> buf[b].dirty, r.locked = buf[b].locked,
           \A q \in Procs : has[q] = b => r.block = buf[b].block /\ r.valid = buf[b].valid,
           buf[b].locked # None => r.data = buf[b].data,
           OneBuffer', ProcInv(p)', BufInv(b)'
    PROVE  Inv'
<1>1. /\ \A a \in Bufs : buf'[a] = IF a = b THEN r ELSE buf[a]
      /\ \A q \in Procs : q # p => at'[q] = at[q] /\ has'[q] = has[q]
      /\ has'[p] = x /\ at'[p] = y
  BY DEF Inv, Types
<1>2. Types'
  BY DEF Inv, Types
<1>3. \A a \in Bufs : buf[a].locked # None =>
         /\ buf[a].locked \in Procs /\ buf[a].locked # p /\ at'[buf[a].locked] = at[buf[a].locked]
         /\ has'[buf[a].locked] = has[buf[a].locked] /\ buf'[a].locked = buf[a].locked
  BY <1>1, Lockers
<1>4. ASSUME NEW q \in Procs PROVE ProcInv(q)'
  <2>1. CASE q = p
    BY <2>1
  <2>2. CASE q # p /\ has[q] = b
    BY <1>1, <2>2 DEF Inv, ProcInv
  <2>3. CASE q # p /\ has[q] # b
    BY <1>1, <2>3 DEF Inv, ProcInv, Types
  <2> QED BY <2>1, <2>2, <2>3
<1>5. ASSUME NEW a \in Bufs PROVE BufInv(a)'
  <2>1. CASE a = b
    BY <2>1
  <2>2. CASE a # b
    <3>1. BufInv(a) /\ buf'[a] = buf[a] /\ disk' = disk
      BY <1>1, <2>2 DEF Inv
    <3>2. Users(a)' = Users(a)
      BY <1>1, <2>2, CacheAssumption DEF Users
    <3> QED BY <1>3, <3>1, <3>2 DEF BufInv
  <2> QED BY <2>1, <2>2
<1>6. QueueInv'
  <2>1. ASSUME NEW i \in 1..Len(idequeue)
        PROVE  /\ idequeue[i] \in Bufs
               /\ buf'[idequeue[i]].locked = buf[idequeue[i]].locked
               /\ at'[buf[idequeue[i]].locked] = "sleep_disk"
               /\ buf'[idequeue[i]].dirty = buf[idequeue[i]].dirty
               /\ buf'[idequeue[i]].data = buf[idequeue[i]].data
    <3>1. idequeue[i] \in Bufs /\ buf[idequeue[i]].locked # None /\ at[buf[idequeue[i]].locked] = "sleep_disk"
      BY DEF Inv, Types, QueueInv
    <3>2. r.dirty \in BOOLEAN /\ buf[b].dirty \in BOOLEAN
      BY DEF BufRec, Inv, Types
    <3>3. r.dirty = buf[b].dirty
      BY <3>2
    <3> QED BY <1>1, <1>3, <3>1, <3>3
  <2>2. idequeue # <<>> => 1 \in 1..Len(idequeue)
    BY DEF Inv, Types
  <2> QED BY <2>1, <2>2 DEF Inv, QueueInv
<1>7. Pinned' \subseteq Pinned
  BY <1>1, <1>3 DEF Pinned, Writing
<1>8. Cardinality(Pinned') <= MaxPins
  BY <1>7, PinnedFewer
<1> QED BY <1>2, <1>4, <1>5, <1>6, <1>8 DEF Inv

\* bget with the block in the cache.
LEMMA FoundStep ==
    ASSUME Inv, NEW p \in Procs, NEW k \in Blocks, NEW b \in Cached(k), at[p] = "out",
           buf' = Found(b), has' = [has EXCEPT ![p] = b], Goes(p, "acquiresleep"),
           UNCHANGED <<mru, idequeue, device, disk, driver>>
    PROVE  Inv'
<1> DEFINE r == [buf[b] EXCEPT !.refcnt = @ + 1]
<1>1. /\ b \in Bufs /\ buf[b] \in BufRec /\ buf[b].block = k /\ BufInv(b) /\ has \in [Procs -> Bufs \cup {None}]
      /\ has[p] = None /\ at' = [at EXCEPT ![p] = "acquiresleep"] /\ at \in [Procs -> Places] /\ b # None
      /\ buf' = [buf EXCEPT ![b] = r] /\ k # None
  BY CacheAssumption DEF Inv, Types, Cached, ProcInv, Goes, Found
<1>2. /\ r \in BufRec /\ r.block = k /\ r.refcnt = buf[b].refcnt + 1 /\ r.valid = buf[b].valid
      /\ r.dirty = buf[b].dirty /\ r.data = buf[b].data /\ r.locked = buf[b].locked
  BY <1>1 DEF BufRec
<1> HIDE DEF r
<1>3. /\ buf'[b] = r /\ \A a \in Bufs : a # b => buf'[a] = buf[a]
      /\ at'[p] = "acquiresleep" /\ has'[p] = b /\ \A q \in Procs : q # p => has'[q] = has[q]
  BY <1>1 DEF Inv, Types
<1>4. buf[b].locked # None => buf[b].locked \in Procs /\ buf[b].locked # p
  BY <1>1, Lockers
<1>5. ProcInv(p)'
  BY <1>1, <1>2, <1>3, <1>4, CacheAssumption DEF ProcInv, Locking
<1>6. BufInv(b)'
  <2>1. Users(b)' = Users(b) \cup {p} /\ p \notin Users(b)
    BY <1>1, <1>3 DEF Users
  <2>2. Cardinality(Users(b)') = r.refcnt
    BY <1>1, <1>2, <2>1, UsersFinite, FS_AddElement
  <2> QED BY <1>1, <1>2, <1>3, <1>4, <2>2 DEF BufInv
<1>7. OneBuffer'
  BY <1>1, <1>2, <1>3 DEF Inv, OneBuffer
<1>8. at[p] \notin Locking /\ "acquiresleep" \in Places /\ "acquiresleep" \notin Locking
  BY DEF Locking, Places
<1>9. mru' \in [1..NBUF -> Bufs] /\ \A c \in Bufs : \E i \in 1..NBUF : mru'[i] = c
  BY DEF Inv, Types
<1> QED BY <1>1, <1>2, <1>5, <1>6, <1>7, <1>8, <1>9, MoveStep

\* bget with a recycled buffer.
LEMMA RecycleStep ==
    ASSUME Inv, NEW p \in Procs, NEW k \in Blocks, NEW b \in Bufs, at[p] = "out", Cached(k) = {}, Recyclable(b),
           buf' = [buf EXCEPT ![b] = [@ EXCEPT !.block = k, !.refcnt = 1,
                                          !.valid = FALSE, !.dirty = FALSE, !.data = None]],
           has' = [has EXCEPT ![p] = b], Goes(p, "acquiresleep"),
           UNCHANGED <<mru, idequeue, device, disk, driver>>
    PROVE  Inv'
<1> DEFINE r == [buf[b] EXCEPT !.block = k, !.refcnt = 1, !.valid = FALSE, !.dirty = FALSE, !.data = None]
<1>1. /\ buf[b] \in BufRec /\ has \in [Procs -> Bufs \cup {None}]
      /\ has[p] = None /\ at' = [at EXCEPT ![p] = "acquiresleep"] /\ at \in [Procs -> Places] /\ b # None
      /\ buf' = [buf EXCEPT ![b] = r] /\ k # None
  BY CacheAssumption DEF Inv, Types, Cached, ProcInv, Goes
<1>2. /\ r \in BufRec /\ r.block = k /\ r.refcnt = 1 /\ r.valid = FALSE
      /\ r.dirty = FALSE /\ r.data = None /\ r.locked = buf[b].locked
  BY <1>1 DEF BufRec
<1> HIDE DEF r
<1>3. /\ buf'[b] = r /\ \A a \in Bufs : a # b => buf'[a] = buf[a]
      /\ at'[p] = "acquiresleep" /\ has'[p] = b /\ \A q \in Procs : q # p => has'[q] = has[q]
  BY <1>1 DEF Inv, Types
<1>4. Users(b) = {} /\ buf[b].locked = None /\ ~buf[b].dirty
  BY UsersFinite DEF Recyclable
<1>5. ProcInv(p)'
  BY <1>1, <1>2, <1>3, <1>4, CacheAssumption DEF ProcInv, Locking
<1>6. BufInv(b)'
  <2>1. Users(b)' = {p}
    BY <1>1, <1>3, <1>4 DEF Users
  <2>2. Cardinality(Users(b)') = 1
    BY <2>1, FS_Singleton
  <2> QED BY <1>1, <1>2, <1>3, <1>4, <2>2 DEF BufInv
<1>7. OneBuffer'
  BY <1>1, <1>2, <1>3 DEF Inv, OneBuffer, Cached
<1>8. at[p] \notin Locking /\ "acquiresleep" \in Places /\ "acquiresleep" \notin Locking
  BY DEF Locking, Places
<1>9. mru' \in [1..NBUF -> Bufs] /\ \A c \in Bufs : \E i \in 1..NBUF : mru'[i] = c
  BY DEF Inv, Types
<1>10. \A q \in Procs : has[q] # b
  BY <1>4 DEF Users
<1> QED BY <1>1, <1>2, <1>4, <1>5, <1>6, <1>7, <1>8, <1>9, <1>10, MoveStep

\* bget, when it does not panic, is one of the two.
LEMMA GetCases ==
    ASSUME Inv, NEW p \in Procs, NEW k \in Blocks, bget(p, k)
    PROVE  /\ at[p] = "out" /\ Goes(p, "acquiresleep")
           /\ UNCHANGED <<mru, idequeue, device, disk, driver>>
           /\ \/ \E b \in Cached(k) : buf' = Found(b) /\ has' = [has EXCEPT ![p] = b]
              \/ \E b \in Bufs :
                     /\ Cached(k) = {} /\ Recyclable(b)
                     /\ buf' = [buf EXCEPT ![b] = [@ EXCEPT !.block = k, !.refcnt = 1,
                                          !.valid = FALSE, !.dirty = FALSE, !.data = None]]
                     /\ has' = [has EXCEPT ![p] = b]
<1>1. at[p] = "out" /\ UNCHANGED <<mru, idequeue, device, disk, driver>>
  BY DEF bget
<1>3. (\E b \in Bufs : Recyclable(b)) => Victim \in Bufs /\ Recyclable(Victim)
  BY VictimRecyclable
<1>4. /\ Goes(p, "acquiresleep")
      /\ \/ \E b \in Cached(k) : buf' = Found(b) /\ has' = [has EXCEPT ![p] = b]
         \/ /\ Cached(k) = {} /\ \E b \in Bufs : Recyclable(b)
            /\ buf' = [buf EXCEPT ![Victim] = [@ EXCEPT !.block = k, !.refcnt = 1,
                                          !.valid = FALSE, !.dirty = FALSE, !.data = None]]
            /\ has' = [has EXCEPT ![p] = Victim]
  BY DEF bget
<1> QED BY <1>1, <1>3, <1>4

\* bget, when it panics: only the place of p changes.
LEMMA PanicStep ==
    ASSUME Inv, NEW p \in Procs, NEW k \in Blocks, bget_panics(p, k)
    PROVE  Inv'
<1>1. /\ at[p] = "out" /\ at' = [at EXCEPT ![p] = "panic"]
      /\ UNCHANGED <<buf, mru, idequeue, device, disk, driver, has>>
  BY DEF bget_panics, Goes
<1>2. /\ at' \in [Procs -> Places] /\ at'[p] = "panic" /\ \A q \in Procs : q # p => at'[q] = at[q]
  BY <1>1 DEF Inv, Types, Places
<1>3. Types' /\ OneBuffer'
  BY <1>1, <1>2 DEF Inv, Types, OneBuffer
<1>4. \A a \in Bufs : buf[a].locked # None => at'[buf[a].locked] = at[buf[a].locked]
  BY <1>1, <1>2, Lockers DEF Locking
<1>5. QueueInv'
  <2>1. \A i \in 1..Len(idequeue) : idequeue[i] \in Bufs
    BY DEF Inv, Types
  <2> QED BY <1>1, <1>4, <2>1 DEF Inv, QueueInv
<1>6. ASSUME NEW q \in Procs PROVE ProcInv(q)'
  <2>1. CASE q = p
    BY <1>1, <1>2, <2>1, CacheAssumption DEF Inv, ProcInv, Locking
  <2>2. CASE q # p
    BY <1>1, <1>2, <2>2 DEF Inv, ProcInv
  <2> QED BY <2>1, <2>2
<1>7. ASSUME NEW b \in Bufs PROVE BufInv(b)'
  <2>1. Users(b)' = Users(b)
    BY <1>1 DEF Users
  <2> QED BY <1>1, <2>1 DEF Inv, BufInv
<1>8. Pinned' = Pinned
  BY <1>1, <1>4 DEF Pinned, Writing
<1> QED BY <1>3, <1>5, <1>6, <1>7, <1>8 DEF Inv

\* The rest of brelse.
LEMMA PutStep ==
    ASSUME Inv, NEW p \in Procs, brelse(p)
    PROVE  Inv'
<1>0. at[p] = "brelse" /\ has[p] \in Bufs
  BY Has DEF brelse
<1> PICK b \in Bufs : b = has[p]
  BY <1>0
<1> DEFINE r == [buf[b] EXCEPT !.refcnt = @ - 1]
<1>1. /\ buf[b] \in BufRec /\ BufInv(b) /\ has \in [Procs -> Bufs \cup {None}] /\ ProcInv(p)
      /\ has' = [has EXCEPT ![p] = None] /\ at' = [at EXCEPT ![p] = "out"]
      /\ at \in [Procs -> Places] /\ b # None /\ p # None
      /\ buf' = [buf EXCEPT ![b] = r] /\ UNCHANGED <<idequeue, device, disk, driver>>
  BY <1>0, CacheAssumption DEF Inv, Types, brelse, Goes
<1>2. p \in Users(b) /\ buf[b].refcnt - 1 \in Nat
  <2>1. p \in Users(b)
    BY DEF Users
  <2> QED BY <2>1, UsersFinite
<1>3. /\ r \in BufRec /\ r.block = buf[b].block /\ r.refcnt = buf[b].refcnt - 1 /\ r.valid = buf[b].valid
      /\ r.dirty = buf[b].dirty /\ r.data = buf[b].data /\ r.locked = buf[b].locked
  BY <1>1, <1>2 DEF BufRec
<1> HIDE DEF r
<1>4. /\ buf'[b] = r /\ \A a \in Bufs : a # b => buf'[a] = buf[a]
      /\ at'[p] = "out" /\ has'[p] = None /\ \A q \in Procs : q # p => has'[q] = has[q]
  BY <1>1 DEF Inv, Types
<1>5. buf[b].locked # None => buf[b].locked \in Procs /\ buf[b].locked # p
  BY <1>0, Lockers DEF Locking
<1>6. ProcInv(p)'
  BY <1>1, <1>4 DEF ProcInv
<1>7. BufInv(b)'
  <2>1. Users(b)' = Users(b) \ {p}
    BY <1>1, <1>4 DEF Users
  <2>2. Cardinality(Users(b) \ {p}) = Cardinality(Users(b)) - 1
    BY <1>2, UsersFinite, FS_RemoveElement
  <2>3. Cardinality(Users(b)') = r.refcnt
    BY <1>3, <2>1, <2>2, UsersFinite
  <2> QED BY <1>1, <1>3, <1>4, <1>5, <2>3 DEF BufInv
<1>8. OneBuffer'
  BY <1>3, <1>4 DEF Inv, OneBuffer
<1>9. at[p] \notin Locking /\ "out" \in Places /\ "out" \notin Locking
  BY <1>0 DEF Locking, Places
<1>10. mru' = ToFront(b) \/ mru' = mru
  BY DEF brelse
<1>11. mru' \in [1..NBUF -> Bufs] /\ \A c \in Bufs : \E i \in 1..NBUF : mru'[i] = c
  <2>1. CASE mru' = ToFront(b)
    BY <2>1, FrontList
  <2>2. CASE mru' = mru
    BY <2>2 DEF Inv, Types
  <2> QED BY <1>10, <2>1, <2>2
<1>12. /\ r.dirty <=> buf[b].dirty
       /\ has[p] \in {b, None} /\ r \in BufRec
       /\ \A q \in Procs : has[q] = b => r.block = buf[b].block /\ r.valid = buf[b].valid
  BY <1>3
<1> QED BY <1>1, <1>3, <1>6, <1>7, <1>8, <1>9, <1>11, <1>12, MoveStep

-----------------------------------------------------------------------------
(* The theorem *)

\* The invariant holds when the cache has just been made.
LEMMA InvInit == Init => Inv
<1> SUFFICES ASSUME Init PROVE Inv
  OBVIOUS
<1>1. Types
  <2>1. \A i \in 1..NBUF : NBUF + 1 - i \in 1..NBUF /\ NBUF + 1 - (NBUF + 1 - i) = i
    BY Finite
  <2>2. mru \in [1..NBUF -> Bufs] /\ \A b \in Bufs : \E i \in 1..NBUF : mru[i] = b
    BY <2>1 DEF Init, Bufs
  <2>3. disk \in [Blocks -> Values]
    BY DEF Init, Values, Contents
  <2> QED BY <2>2, <2>3 DEF Init, Types, BufRec, Places
<1>2. OneBuffer /\ QueueInv
  BY DEF Init, OneBuffer, QueueInv
<1>3. \A p \in Procs : ProcInv(p)
  BY DEF Init, ProcInv
<1>4. \A b \in Bufs : BufInv(b)
  <2>1. \A b \in Bufs : Users(b) = {}
    BY CacheAssumption DEF Init, Users
  <2> QED BY <2>1, FS_EmptySet DEF Init, BufInv
<1>5. Cardinality(Pinned) <= MaxPins
  <2>1. Pinned = {}
    BY DEF Init, Pinned
  <2> QED BY <2>1, FS_EmptySet, Finite
<1> QED BY <1>1, <1>2, <1>3, <1>4, <1>5 DEF Inv

\* Every step keeps the invariant.
LEMMA InvNext ==
    ASSUME Inv, [Next]_vars
    PROVE  Inv'
<1>1. CASE UNCHANGED vars \/ Halted
  <2>0. UNCHANGED vars
    BY <1>1 DEF Halted
  <2>1. Types' /\ OneBuffer' /\ QueueInv'
    BY <2>0 DEF vars, Inv, Types, OneBuffer, QueueInv
  <2>2. (\A p \in Procs : ProcInv(p)') /\ Pinned' = Pinned
    BY <2>0 DEF vars, Inv, ProcInv, Pinned, Writing
  <2>3. ASSUME NEW b \in Bufs PROVE BufInv(b)'
    <3>1. Users(b)' = Users(b)
      BY <2>0 DEF vars, Users
    <3> QED BY <2>0, <3>1 DEF vars, Inv, BufInv
  <2> QED BY <2>1, <2>2, <2>3 DEF Inv
<1>2. CASE ideintr
  BY <1>2, IntrStep
<1>3. ASSUME NEW p \in Procs, Call(p) PROVE Inv'
  <2>1. PICK k \in Blocks : bget(p, k) \/ bget_panics(p, k)
    BY <1>3 DEF Call
  <2>2. CASE bget(p, k)
    BY <2>2, GetCases, FoundStep, RecycleStep
  <2>3. CASE bget_panics(p, k)
    BY <2>3, PanicStep
  <2> QED BY <2>1, <2>2, <2>3
<1>4. ASSUME NEW p \in Procs, Use(p) PROVE Inv'
  BY <1>4, WriteStep DEF Use
<1>5. ASSUME NEW p \in Procs, Step(p) PROVE Inv'
  BY <1>5, SleepStep, TakeStep, ReleaseStep, PutStep, QueueStep, ServedStep, CopyStep DEF Step
<1> QED BY <1>1, <1>2, <1>3, <1>4, <1>5 DEF Next

\* Whoever panicked did so for want of a buffer.
PanicInv == Panicked => NBUF <= MaxPins + Cardinality(Busy)

\* Only bget panics, and after a panic no buffer is taken or given back.
LEMMA PanicNext ==
    ASSUME Inv, PanicInv, [Next]_vars
    PROVE  PanicInv'
<1> SUFFICES ASSUME Panicked' PROVE (NBUF <= MaxPins + Cardinality(Busy))'
  BY DEF PanicInv
<1>t. at \in [Procs -> Places] /\ "panic" \in Places
  BY DEF Inv, Types, Places
<1>1. CASE \E p \in Procs, k \in Blocks : bget_panics(p, k)
  <2>1. Busy' = Busy /\ \A b \in Bufs : ~Recyclable(b)
    BY <1>1 DEF bget_panics, Busy
  <2> QED BY <2>1, NoRoom
<1>2. CASE ~ \E p \in Procs, k \in Blocks : bget_panics(p, k)
  <2>1. CASE Panicked
    <3>1. ASSUME NEW p \in Procs, Call(p) \/ brelse(p) PROVE FALSE
      BY <1>2, <2>1, <3>1 DEF Call, bget, brelse
    <3>2. ASSUME NEW p \in Procs, Use(p) PROVE has' = has
      BY <3>2 DEF Use, bwrite, log_write
    <3>3. ASSUME NEW p \in Procs, Step(p) PROVE has' = has
      BY <3>1, <3>3 DEF Step, acquiresleep, releasesleep, iderw, iderw_wakes, iderw_mem
    <3>4. ideintr \/ Halted \/ UNCHANGED vars => has' = has
      BY DEF ideintr, Halted, vars
    <3>5. has' = has
      BY <3>1, <3>2, <3>3, <3>4 DEF Next
    <3>6. Busy' = Busy
      BY <3>5 DEF Busy
    <3> QED BY <2>1, <3>6 DEF PanicInv
  <2>2. CASE ~Panicked
    <3>0. \A q \in Procs : at[q] # "panic"
      BY <2>2 DEF Panicked
    <3>1. ASSUME NEW p \in Procs, NEW w, w # "panic", Goes(p, w) PROVE ~Panicked'
      BY <1>t, <3>0, <3>1 DEF Goes, Panicked
    <3>2. ASSUME NEW p \in Procs, Call(p) PROVE ~Panicked'
      BY <1>2, <3>1, <3>2 DEF Call, bget
    <3>3. ASSUME NEW p \in Procs, Use(p) PROVE ~Panicked'
      <4>1. at' = at \/ Goes(p, "iderw")
        BY <3>3 DEF Use, bwrite, log_write
      <4> QED BY <3>0, <3>1, <4>1 DEF Panicked
    <3>4. ASSUME NEW p \in Procs, Step(p) PROVE ~Panicked'
      <4>1. CASE acquiresleep(p) \/ brelse(p) \/ iderw(p) \/ iderw_wakes(p) \/ iderw_mem(p)
        <5>1. \E w \in Places \ {"panic"} : Goes(p, w)
          BY <4>1 DEF acquiresleep, brelse, iderw, iderw_wakes, iderw_mem, Places
        <5> QED BY <3>1, <5>1
      <4>2. CASE releasesleep(p)
        BY <1>t, <3>0, <4>2 DEF releasesleep, Released, Wakes, Panicked
      <4> QED BY <3>4, <4>1, <4>2 DEF Step
    <3>5. ideintr => ~Panicked'
      BY <1>t, <3>0 DEF ideintr, Wakes, Panicked
    <3>6. Halted \/ UNCHANGED vars => ~Panicked'
      BY <3>0 DEF Halted, vars, Panicked
    <3> QED BY <3>2, <3>3, <3>4, <3>5, <3>6 DEF Next
  <2> QED BY <2>1, <2>2
<1> QED BY <1>1, <1>2

\* The two invariants imply what the run checks.
LEMMA InvSound ==
    ASSUME Inv, PanicInv
    PROVE  CacheSound
<1>1. TypeOK
  <2>1. \A b \in Bufs : buf[b].refcnt \in 0..Cardinality(Procs)
    <3> SUFFICES ASSUME NEW b \in Bufs PROVE buf[b].refcnt \in 0..Cardinality(Procs)
      OBVIOUS
    <3>1. Users(b) \subseteq Procs
      BY DEF Users
    <3>2. Cardinality(Users(b)) <= Cardinality(Procs)
      BY <3>1, Finite, FS_Subset
    <3> QED BY <3>2, UsersFinite, Finite
  <2>2. buf \in [Bufs -> [block : Blocks \cup {None}, refcnt : 0..Cardinality(Procs),
                          valid : BOOLEAN, dirty : BOOLEAN,
                          data : Values \cup {None}, locked : Procs \cup {None}]]
    BY <2>1 DEF Inv, Types, BufRec
  <2>3. Len(mru) = NBUF
    BY Finite DEF Inv, Types
  <2>4. ToSet(mru) = Bufs
    BY DEF Inv, Types, ToSet
  <2> QED BY <2>2, <2>3, <2>4 DEF Inv, Types, TypeOK
<1>2. ASSUME NEW k \in Blocks PROVE Cardinality(Cached(k)) <= 1
  <2>1. \A a, b \in Cached(k) : a = b
    BY CacheAssumption DEF Inv, OneBuffer, Cached
  <2>2. CASE Cached(k) = {}
    BY <2>2, FS_EmptySet
  <2>3. CASE Cached(k) # {}
    <3>1. PICK b \in Cached(k) : Cached(k) = {b}
      BY <2>1, <2>3
    <3>2. Cardinality({b}) = 1
      BY FS_Singleton, Zenon
    <3>3. Cardinality(Cached(k)) = 1
      BY <3>1, <3>2, Zenon
    <3> QED BY <3>3
  <2> QED BY <2>2, <2>3
<1>3. \A b \in Bufs : buf[b].refcnt = Cardinality(Users(b))
  BY DEF Inv, BufInv
<1>4. \A b \in Bufs : buf[b].locked # None => buf[b].locked \in Users(b)
  BY Lockers DEF Users
<1>5. IsInjective(idequeue) /\ (device = None <=> idequeue = <<>>)
  <2>1. DOMAIN idequeue = 1..Len(idequeue)
    BY DEF Inv, Types
  <2>2. idequeue # <<>> => device # None
    <3>1. idequeue # <<>> => idequeue[1] \in Bufs
      BY DEF Inv, Types
    <3>2. \A b \in Bufs : [write |-> buf[b].dirty, data |-> buf[b].data] \in Requests
      BY DEF Inv, Types, Requests, BufRec
    <3> QED BY <3>1, <3>2, CacheAssumption DEF Inv, QueueInv
  <2> QED BY <2>1, <2>2 DEF Inv, QueueInv, IsInjective
<1>6. ASSUME NEW b \in ToSet(idequeue)
      PROVE  \E p \in Users(b) : buf[b].locked = p /\ at[p] = "sleep_disk"
  <2>1. PICK i \in 1..Len(idequeue) : b = idequeue[i]
    BY DEF Inv, Types, ToSet
  <2>2. b \in Bufs /\ buf[b].locked # None /\ at[buf[b].locked] = "sleep_disk"
    BY <2>1 DEF Inv, Types, QueueInv
  <2> QED BY <1>4, <2>2
<1> QED BY <1>1, <1>2, <1>3, <1>4, <1>5, <1>6 DEF CacheSound, PanicInv

\* In every reachable state, for any number of processes, blocks and buffers, a
\* block is in one buffer, refcnt counts the users, the queue and the sleepers
\* agree, and a panic of bget means that the pinned buffers and those of other
\* processes are all that there are (bio.c:59-106, ide.c:103-168).
THEOREM CacheAlwaysSound == Spec => []CacheSound
<1>1. Init => Inv
  BY InvInit
<1>2. Init => PanicInv
  BY DEF Init, PanicInv, Panicked
<1>3. Inv /\ PanicInv /\ [Next]_vars => Inv' /\ PanicInv'
  BY InvNext, PanicNext
<1>4. Inv /\ PanicInv => CacheSound
  BY InvSound
<1> QED BY <1>1, <1>2, <1>3, <1>4, PTL DEF Spec

-----------------------------------------------------------------------------
(* The cache implements BlockStore. *)

\* A buffer of block k decides who holds it and what it contains.
LEMMA ViewOf ==
    ASSUME Inv, NEW k \in Blocks, NEW b \in Bufs, buf[b].block = k
    PROVE  /\ Holder(k) = IF buf[b].valid THEN buf[b].locked ELSE None
           /\ Current(k) = IF buf[b].valid THEN buf[b].data ELSE disk[k]
<1>1. Cached(k) = {b}
  BY CacheAssumption DEF Inv, OneBuffer, Cached
<1>2. CASE buf[b].valid
  <2>1. {c \in Cached(k) : buf[c].valid} = {b}
    BY <1>1, <1>2
  <2>2. Current(k) = buf[b].data
    BY <2>1 DEF Current
  <2>3. CASE buf[b].locked # None
    <3>1. {c \in Cached(k) : buf[c].valid /\ buf[c].locked # None} = {b}
      BY <1>1, <1>2, <2>3
    <3> QED BY <1>2, <2>2, <3>1 DEF Holder
  <2>4. CASE buf[b].locked = None
    <3>1. {c \in Cached(k) : buf[c].valid /\ buf[c].locked # None} = {}
      BY <1>1, <2>4
    <3> QED BY <1>2, <2>2, <2>4, <3>1 DEF Holder
  <2> QED BY <2>3, <2>4
<1>3. CASE ~buf[b].valid
  <2>1. {c \in Cached(k) : buf[c].valid /\ buf[c].locked # None} = {} /\ {c \in Cached(k) : buf[c].valid} = {}
    BY <1>1, <1>3
  <2> QED BY <1>3, <2>1 DEF Holder, Current
<1> QED BY <1>2, <1>3

\* Without a buffer nobody holds the block, which contains what the disk does.
LEMMA ViewNone ==
    ASSUME NEW k \in Blocks, Cached(k) = {}
    PROVE  Holder(k) = None /\ Current(k) = disk[k]
BY DEF Holder, Current

\* The same two facts about the next state.
LEMMA ViewOfNext ==
    ASSUME Inv', NEW k \in Blocks, NEW b \in Bufs, buf'[b].block = k
    PROVE  /\ Holder(k)' = IF buf'[b].valid THEN buf'[b].locked ELSE None
           /\ Current(k)' = IF buf'[b].valid THEN buf'[b].data ELSE disk'[k]
<1>1. Cached(k)' = {b}
  BY CacheAssumption DEF Inv, OneBuffer, Cached
<1>2. CASE buf'[b].valid
  <2>1. {c \in Cached(k)' : buf'[c].valid} = {b}
    BY <1>1, <1>2
  <2>2. Current(k)' = buf'[b].data
    BY <2>1 DEF Current
  <2>3. CASE buf'[b].locked # None
    <3>1. {c \in Cached(k)' : buf'[c].valid /\ buf'[c].locked # None} = {b}
      BY <1>1, <1>2, <2>3
    <3> QED BY <1>2, <2>2, <3>1 DEF Holder
  <2>4. CASE buf'[b].locked = None
    <3>1. {c \in Cached(k)' : buf'[c].valid /\ buf'[c].locked # None} = {}
      BY <1>1, <2>4
    <3> QED BY <1>2, <2>2, <2>4, <3>1 DEF Holder
  <2> QED BY <2>3, <2>4
<1>3. CASE ~buf'[b].valid
  <2>1. {c \in Cached(k)' : buf'[c].valid /\ buf'[c].locked # None} = {} /\ {c \in Cached(k)' : buf'[c].valid} = {}
    BY <1>1, <1>3
  <2> QED BY <1>3, <2>1 DEF Holder, Current
<1> QED BY <1>2, <1>3

\* The same for the next state.
LEMMA ViewNoneNext ==
    ASSUME NEW k \in Blocks, Cached(k)' = {}
    PROVE  Holder(k)' = None /\ Current(k)' = disk'[k]
BY DEF Holder, Current

\* What a step on buffer b of block k does to the abstract state.
LEMMA ViewStep ==
    ASSUME Inv, Inv', NEW b \in Bufs, NEW r \in BufRec, buf' = [buf EXCEPT ![b] = r],
           r.block = buf[b].block, \A j \in Blocks : j # r.block => disk'[j] = disk[j],
           NEW j \in Blocks
    PROVE  /\ Holder(j)' = IF j = r.block THEN IF r.valid THEN r.locked ELSE None ELSE Holder(j)
           /\ Current(j)' = IF j = r.block THEN IF r.valid THEN r.data ELSE disk'[j] ELSE Current(j)
<1>1. \A a \in Bufs : buf'[a] = IF a = b THEN r ELSE buf[a]
  BY DEF Inv, Types
<1>2. CASE j = r.block
  BY <1>1, <1>2, ViewOfNext
<1>3. CASE j # r.block /\ Cached(j) = {}
  <2>1. Cached(j)' = {}
    BY <1>1, <1>3 DEF Cached
  <2> QED BY <1>3, <2>1, ViewNone, ViewNoneNext
<1>4. CASE j # r.block /\ Cached(j) # {}
  <2>1. PICK c \in Bufs : buf[c].block = j
    BY <1>4 DEF Cached
  <2>2. buf'[c] = buf[c] /\ disk'[j] = disk[j]
    BY <1>1, <1>4, <2>1
  <2>3. /\ Holder(j) = IF buf[c].valid THEN buf[c].locked ELSE None
        /\ Current(j) = IF buf[c].valid THEN buf[c].data ELSE disk[j]
    BY <2>1, ViewOf
  <2>4. /\ Holder(j)' = IF buf[c].valid THEN buf[c].locked ELSE None
        /\ Current(j)' = IF buf[c].valid THEN buf[c].data ELSE disk[j]
    BY <2>1, <2>2, ViewOfNext
  <2> QED BY <1>4, <2>3, <2>4
<1> QED BY <1>2, <1>3, <1>4

\* A step that changes neither buffers nor disk is a stutter.
LEMMA ViewSame ==
    ASSUME NEW j \in Blocks, buf' = buf, disk' = disk
    PROVE  Holder(j)' = Holder(j) /\ Current(j)' = Current(j)
BY DEF Holder, Current, Cached

Holders == [k \in Blocks |-> Holder(k)]
Currents == [k \in Blocks |-> Current(k)]

\* acquiresleep reads the block if the buffer is valid.
LEMMA RefineAcquire ==
    ASSUME Inv, Inv', NEW p \in Procs, acquiresleep(p)
    PROVE  UNCHANGED <<Holders, Currents>> \/ \E k \in Blocks : Store!bread(p, k)
<1>0. at[p] = "acquiresleep" /\ has[p] \in Bufs
  BY Has DEF acquiresleep
<1> PICK b \in Bufs : b = has[p]
  BY <1>0
<1>1. CASE buf[b].locked # None
  <2>1. buf' = buf /\ disk' = disk
    BY <1>1 DEF acquiresleep
  <2> QED BY <2>1, ViewSame DEF Holders, Currents
<1>2. CASE buf[b].locked = None
  <2> DEFINE r == [buf[b] EXCEPT !.locked = p]
             k == buf[b].block
  <2>1. buf' = [buf EXCEPT ![b] = r] /\ disk' = disk /\ buf[b] \in BufRec /\ k \in Blocks
    BY <1>0, <1>2, Has DEF acquiresleep
  <2>2. /\ r \in BufRec /\ r.block = buf[b].block /\ r.valid = buf[b].valid /\ r.data = buf[b].data /\ r.locked = p
    BY <2>1 DEF BufRec
  <2> HIDE DEF r
  <2>3. /\ Holder(k) = IF buf[b].valid THEN buf[b].locked ELSE None
        /\ Current(k) = IF buf[b].valid THEN buf[b].data ELSE disk[k]
    BY <2>1, ViewOf
  <2>4. ASSUME NEW j \in Blocks
        PROVE  /\ Holder(j)' = IF j = r.block THEN IF r.valid THEN r.locked ELSE None ELSE Holder(j)
               /\ Current(j)' = IF j = r.block THEN IF r.valid THEN r.data ELSE disk'[j] ELSE Current(j)
    BY <2>1, <2>2, ViewStep
  <2>k. PICK n \in Blocks : n = k
    BY <2>1
  <2>5. CASE buf[b].valid
    <3>1. Holders[n] = None /\ Holders' = [Holders EXCEPT ![n] = p] /\ Currents' = Currents
      BY <1>2, <2>1, <2>2, <2>3, <2>4, <2>5, <2>k DEF Holders, Currents
    <3> QED BY <3>1 DEF Store!bread, Holders, Currents
  <2>6. CASE ~buf[b].valid
    BY <2>1, <2>2, <2>3, <2>4, <2>6 DEF Holders, Currents
  <2> QED BY <2>5, <2>6
<1> QED BY <1>1, <1>2

\* releasesleep is brelse.
LEMMA RefineRelease ==
    ASSUME Inv, Inv', NEW p \in Procs, releasesleep(p)
    PROVE  \E k \in Blocks : Store!brelse(p, k)
<1>0. at[p] = "hold" /\ has[p] \in Bufs
  BY Has DEF releasesleep
<1> PICK b \in Bufs : b = has[p]
  BY <1>0
<1> DEFINE r == [buf[b] EXCEPT !.locked = None]
           k == buf[b].block
<1>1. /\ buf' = [buf EXCEPT ![b] = r] /\ disk' = disk /\ buf[b] \in BufRec /\ k \in Blocks
      /\ buf[b].valid /\ buf[b].locked = p
  BY <1>0, Has, LockHeld DEF releasesleep, Locking, ProcInv
<1>2. /\ r \in BufRec /\ r.block = buf[b].block /\ r.valid = buf[b].valid /\ r.data = buf[b].data /\ r.locked = None
  BY <1>1 DEF BufRec
<1> HIDE DEF r
<1>3. Holder(k) = p /\ Current(k) = buf[b].data
  BY <1>1, ViewOf
<1>4. ASSUME NEW j \in Blocks
      PROVE  /\ Holder(j)' = IF j = r.block THEN IF r.valid THEN r.locked ELSE None ELSE Holder(j)
             /\ Current(j)' = IF j = r.block THEN IF r.valid THEN r.data ELSE disk'[j] ELSE Current(j)
  BY <1>1, <1>2, ViewStep
<1>k. PICK n \in Blocks : n = k
  BY <1>1
<1>5. Holders[n] = p /\ Holders' = [Holders EXCEPT ![n] = None] /\ Currents' = Currents
  BY <1>1, <1>2, <1>3, <1>4, <1>k DEF Holders, Currents
<1> QED BY <1>5 DEF Store!brelse, Holders, Currents

\* bwrite and log_write store.
LEMMA RefineWrite ==
    ASSUME Inv, Inv', NEW p \in Procs, at[p] = "hold", NEW v \in Contents(buf[has[p]].block),
           bwrite(p, v) \/ log_write(p, v)
    PROVE  \E k \in Blocks, w \in Values : Store!store(p, k, w)
<1>0. has[p] \in Bufs
  BY Has
<1> PICK b \in Bufs : b = has[p]
  BY <1>0
<1> DEFINE r == [buf[b] EXCEPT !.data = v, !.dirty = TRUE]
           k == buf[b].block
<1>1. /\ disk' = disk /\ buf[b] \in BufRec /\ k \in Blocks
      /\ buf[b].valid /\ buf[b].locked = p
  BY Has, LockHeld DEF bwrite, log_write, Locking, ProcInv
<1>a. buf' = [buf EXCEPT ![b] = r]
  <2>1. buf' = [buf EXCEPT ![b].data = v, ![b].dirty = TRUE]
    BY DEF bwrite, log_write
  <2> QED BY <2>1 DEF Inv, Types
<1>v. v \in Values
  BY <1>1 DEF Values
<1>2. /\ r \in BufRec /\ r.block = buf[b].block /\ r.valid = buf[b].valid /\ r.data = v /\ r.locked = p
  BY <1>1, <1>v DEF BufRec
<1> HIDE DEF r
<1>3. Holder(k) = p /\ Current(k) = buf[b].data
  BY <1>1, ViewOf
<1>4. ASSUME NEW j \in Blocks
      PROVE  /\ Holder(j)' = IF j = r.block THEN IF r.valid THEN r.locked ELSE None ELSE Holder(j)
             /\ Current(j)' = IF j = r.block THEN IF r.valid THEN r.data ELSE disk'[j] ELSE Current(j)
  BY <1>1, <1>a, <1>2, ViewStep
<1>k. PICK n \in Blocks : n = k
  BY <1>1
<1>5. Holders[n] = p /\ Currents' = [Currents EXCEPT ![n] = v] /\ Holders' = Holders
  BY <1>1, <1>2, <1>3, <1>4, <1>k DEF Holders, Currents
<1> QED BY <1>5, <1>v DEF Store!store, Holders, Currents

\* The end of a request of p reads the block, or has no effect if p wrote it.
LEMMA RefineServed ==
    ASSUME Inv, Inv', NEW p \in Procs, NEW b \in Bufs, NEW r \in BufRec, buf' = [buf EXCEPT ![b] = r],
           r.block = buf[b].block, r.block \in Blocks, buf[b].locked = p, r.locked = p, r.valid,
           r.data = IF buf[b].dirty THEN buf[b].data ELSE disk[r.block],
           \A j \in Blocks : j # r.block => disk'[j] = disk[j]
    PROVE  UNCHANGED <<Holders, Currents>> \/ \E k \in Blocks : Store!bread(p, k)
<1>1. PICK n \in Blocks : n = r.block
  OBVIOUS
<1>2. /\ Holder(n) = IF buf[b].valid THEN buf[b].locked ELSE None
      /\ Current(n) = IF buf[b].valid THEN buf[b].data ELSE disk[n]
  BY <1>1, ViewOf
<1>3. ASSUME NEW j \in Blocks
      PROVE  /\ Holder(j)' = IF j = r.block THEN IF r.valid THEN r.locked ELSE None ELSE Holder(j)
             /\ Current(j)' = IF j = r.block THEN IF r.valid THEN r.data ELSE disk'[j] ELSE Current(j)
  BY ViewStep
<1>4. CASE buf[b].valid
  <2>1. r.data = buf[b].data
    BY <1>4 DEF Inv, BufInv
  <2> QED BY <1>1, <1>2, <1>3, <1>4, <2>1 DEF Holders, Currents
<1>5. CASE ~buf[b].valid
  <2>1. r.data = disk[n]
    BY <1>1, <1>5 DEF Inv, BufInv
  <2>2. Holders[n] = None /\ Holders' = [Holders EXCEPT ![n] = p] /\ Currents' = Currents
    BY <1>1, <1>2, <1>3, <1>5, <2>1 DEF Holders, Currents
  <2> QED BY <2>2 DEF Store!bread, Holders, Currents
<1> QED BY <1>4, <1>5

\* An interrupt that completes a read is the abstract bread, any other is
\* invisible.
LEMMA RefineIntr ==
    ASSUME Inv, Inv', ideintr
    PROVE  UNCHANGED <<Holders, Currents>> \/ \E p \in Procs, k \in Blocks : Store!bread(p, k)
<1>0. idequeue # <<>> /\ Head(idequeue) \in Bufs /\ Head(idequeue) = idequeue[1] /\ 1 \in 1..Len(idequeue)
  BY DEF Inv, Types, ideintr
<1> PICK b \in Bufs : b = Head(idequeue)
  BY <1>0
<1> DEFINE k == buf[b].block
           d == IF buf[b].dirty THEN buf[b].data ELSE disk[k]
           r == [buf[b] EXCEPT !.valid = TRUE, !.dirty = FALSE, !.data = d]
<1>1. buf[b] \in BufRec /\ buf[b].locked # None
  BY <1>0 DEF Inv, Types, QueueInv
<1>2. PICK p \in Procs : p = buf[b].locked /\ has[p] = b
  BY <1>1, Lockers
<1>3. k \in Blocks /\ disk \in [Blocks -> Values]
  <2>1. ProcInv(p) /\ b # None
    BY CacheAssumption DEF Inv
  <2> QED BY <1>2, <2>1 DEF ProcInv, Inv, Types
<1>d. d \in Values \cup {None} /\ d = IF buf[b].dirty THEN buf[b].data ELSE disk[k]
  BY <1>1, <1>3 DEF BufRec
<1>4. buf' = [buf EXCEPT ![b] = r] /\ \A j \in Blocks : j # k => disk'[j] = disk[j]
  BY <1>3 DEF ideintr
<1> HIDE DEF d
<1>5. /\ r \in BufRec /\ r.block = buf[b].block /\ r.valid /\ r.data = d /\ r.locked = p
  BY <1>1, <1>2, <1>d DEF BufRec
<1> HIDE DEF r
<1>6. /\ r.data = IF buf[b].dirty THEN buf[b].data ELSE disk[r.block]
      /\ r.block \in Blocks /\ buf[b].locked = p
      /\ \A j \in Blocks : j # r.block => disk'[j] = disk[j]
  BY <1>2, <1>3, <1>4, <1>5, <1>d
<1> QED BY <1>4, <1>5, <1>6, RefineServed

\* So is a copy of the memory disk.
LEMMA RefineCopy ==
    ASSUME Inv, Inv', NEW p \in Procs, iderw_mem(p)
    PROVE  UNCHANGED <<Holders, Currents>> \/ \E k \in Blocks : Store!bread(p, k)
<1>0. at[p] = "iderw" /\ has[p] \in Bufs
  BY Has DEF iderw_mem
<1> PICK b \in Bufs : b = has[p]
  BY <1>0
<1> DEFINE k == buf[b].block
           d == IF buf[b].dirty THEN buf[b].data ELSE disk[k]
           r == [buf[b] EXCEPT !.valid = TRUE, !.dirty = FALSE, !.data = d]
<1>1. buf[b] \in BufRec /\ buf[b].locked = p /\ k \in Blocks /\ disk \in [Blocks -> Values]
  BY <1>0, Has, LockHeld DEF Locking, Inv, Types
<1>d. /\ d \in Values \cup {None} /\ d = IF buf[b].dirty THEN buf[b].data ELSE disk[k]
      /\ disk'[k] = d /\ \A j \in Blocks : j # k => disk'[j] = disk[j]
  BY <1>1 DEF BufRec, iderw_mem
<1>4. buf' = [buf EXCEPT ![b] = r]
  BY <1>1, <1>d DEF iderw_mem
<1> HIDE DEF d
<1>5. /\ r \in BufRec /\ r.block = buf[b].block /\ r.valid /\ r.data = d /\ r.locked = p
  BY <1>1, <1>d DEF BufRec
<1> HIDE DEF r
<1>6. /\ r.data = IF buf[b].dirty THEN buf[b].data ELSE disk[r.block]
      /\ r.block \in Blocks
      /\ \A j \in Blocks : j # r.block => disk'[j] = disk[j]
  BY <1>1, <1>5, <1>d
<1> QED BY <1>1, <1>4, <1>5, <1>6, RefineServed

\* A change of refcnt shows nowhere.
LEMMA RefineCount ==
    ASSUME Inv, Inv', NEW b \in Bufs, NEW n \in Nat, buf' = [buf EXCEPT ![b].refcnt = n], disk' = disk
    PROVE  UNCHANGED <<Holders, Currents>>
<1> DEFINE r == [buf[b] EXCEPT !.refcnt = n]
<1>1. buf' = [buf EXCEPT ![b] = r] /\ buf[b] \in BufRec
  BY DEF Inv, Types
<1>2. /\ r \in BufRec /\ r.block = buf[b].block /\ r.valid = buf[b].valid /\ r.data = buf[b].data
      /\ r.locked = buf[b].locked
  BY <1>1 DEF BufRec
<1> HIDE DEF r
<1>3. ASSUME NEW j \in Blocks
      PROVE  /\ Holder(j)' = IF j = r.block THEN IF r.valid THEN r.locked ELSE None ELSE Holder(j)
             /\ Current(j)' = IF j = r.block THEN IF r.valid THEN r.data ELSE disk'[j] ELSE Current(j)
  BY <1>1, <1>2, ViewStep
<1>4. ASSUME NEW j \in Blocks, j = r.block
      PROVE  /\ Holder(j) = IF r.valid THEN r.locked ELSE None
             /\ Current(j) = IF r.valid THEN r.data ELSE disk[j]
  BY <1>2, <1>4, ViewOf
<1>5. \A j \in Blocks : Holder(j)' = Holder(j) /\ Current(j)' = Current(j)
  BY <1>3, <1>4
<1> QED BY <1>5 DEF Holders, Currents

\* A recycled buffer was clean and free: its old block is on disk as it was in
\* the buffer, and its new block is still only there.
LEMMA RefineRecycle ==
    ASSUME Inv, Inv', NEW k \in Blocks, NEW b \in Bufs, Cached(k) = {}, Recyclable(b),
           buf' = [buf EXCEPT ![b] = [@ EXCEPT !.block = k, !.refcnt = 1,
                                          !.valid = FALSE, !.dirty = FALSE, !.data = None]],
           disk' = disk
    PROVE  UNCHANGED <<Holders, Currents>>
<1> DEFINE r == [buf[b] EXCEPT !.block = k, !.refcnt = 1, !.valid = FALSE, !.dirty = FALSE, !.data = None]
<1>1. buf[b] \in BufRec /\ buf' = [buf EXCEPT ![b] = r]
  BY DEF Inv, Types
<1>2. r.block = k /\ ~r.valid
  BY <1>1 DEF BufRec
<1> HIDE DEF r
<1>3. /\ buf'[b] = r /\ \A a \in Bufs : a # b => buf'[a] = buf[a]
  BY <1>1 DEF Inv, Types
<1>4. buf[b].locked = None /\ ~buf[b].dirty
  BY UsersFinite DEF Recyclable
<1>5. ASSUME NEW j \in Blocks PROVE Holder(j)' = Holder(j) /\ Current(j)' = Current(j)
  <2>1. CASE j = k
    <3>1. Holder(j) = None /\ Current(j) = disk[j]
      BY <2>1, ViewNone
    <3> QED BY <1>2, <1>3, <2>1, <3>1, ViewOfNext
  <2>2. CASE j # k /\ buf[b].block = j
    <3>1. Cached(j)' = {}
      BY <1>2, <1>3, <2>2, CacheAssumption DEF Cached, Inv, OneBuffer
    <3>2. Holder(j)' = None /\ Current(j)' = disk[j]
      BY <3>1, ViewNoneNext
    <3>3. Holder(j) = None /\ Current(j) = IF buf[b].valid THEN buf[b].data ELSE disk[j]
      BY <1>4, <2>2, ViewOf
    <3>4. buf[b].valid => buf[b].data = disk[j]
      BY <1>4, <2>2 DEF Inv, BufInv
    <3> QED BY <3>2, <3>3, <3>4
  <2>3. CASE j # k /\ buf[b].block # j /\ Cached(j) = {}
    <3>1. Cached(j)' = {}
      BY <1>2, <1>3, <2>3 DEF Cached
    <3> QED BY <2>3, <3>1, ViewNone, ViewNoneNext
  <2>4. CASE j # k /\ buf[b].block # j /\ Cached(j) # {}
    <3>1. PICK c \in Bufs : buf[c].block = j
      BY <2>4 DEF Cached
    <3>2. buf'[c] = buf[c]
      BY <1>3, <2>4, <3>1
    <3>3. /\ Holder(j) = IF buf[c].valid THEN buf[c].locked ELSE None
          /\ Current(j) = IF buf[c].valid THEN buf[c].data ELSE disk[j]
      BY <3>1, ViewOf
    <3>4. /\ Holder(j)' = IF buf[c].valid THEN buf[c].locked ELSE None
          /\ Current(j)' = IF buf[c].valid THEN buf[c].data ELSE disk[j]
      BY <3>1, <3>2, ViewOfNext
    <3> QED BY <3>3, <3>4
  <2> QED BY <2>1, <2>2, <2>3, <2>4
<1> QED BY <1>5 DEF Holders, Currents

\* Asking for a buffer is invisible.
LEMMA RefineCall ==
    ASSUME Inv, Inv', NEW p \in Procs, Call(p)
    PROVE  UNCHANGED <<Holders, Currents>>
<1>0. CASE \E k \in Blocks : bget_panics(p, k)
  <2>1. buf' = buf /\ disk' = disk
    BY <1>0 DEF bget_panics
  <2> QED BY <2>1, ViewSame DEF Holders, Currents
<1> SUFFICES ASSUME ~ \E k \in Blocks : bget_panics(p, k) PROVE UNCHANGED <<Holders, Currents>>
  BY <1>0
<1>1. PICK k \in Blocks : bget(p, k)
  BY DEF Call
<1>2. CASE \E b \in Cached(k) : buf' = Found(b)
  <2>1. PICK b \in Bufs : buf' = [buf EXCEPT ![b].refcnt = @ + 1]
    BY <1>2 DEF Cached, Found
  <2>2. buf[b].refcnt + 1 \in Nat
    BY DEF Inv, Types, BufRec
  <2> QED BY <1>1, <2>1, <2>2, RefineCount DEF bget
<1>3. CASE ~ \E b \in Cached(k) : buf' = Found(b)
  BY <1>1, <1>3, GetCases, RefineRecycle
<1> QED BY <1>2, <1>3

\* So is the second half of brelse, after the sleep lock.
LEMMA RefinePut ==
    ASSUME Inv, Inv', NEW p \in Procs, brelse(p)
    PROVE  UNCHANGED <<Holders, Currents>>
<1>1. at[p] = "brelse" /\ has[p] \in Bufs
  BY Has DEF brelse
<1>2. PICK b \in Bufs : b = has[p]
  BY <1>1
<1>3. p \in Users(b)
  BY <1>2 DEF Users
<1>4. buf[b].refcnt - 1 \in Nat
  BY <1>3, UsersFinite
<1>5. buf' = [buf EXCEPT ![b].refcnt = buf[b].refcnt - 1] /\ disk' = disk
  BY <1>2 DEF brelse
<1> QED BY <1>4, <1>5, RefineCount

\* The initial states are those of BlockStore.
LEMMA RefineInit == Init => Store!Init
<1> SUFFICES ASSUME Init PROVE Store!Init
  OBVIOUS
<1>1. \A k \in Blocks : Cached(k) = {}
  BY CacheAssumption DEF Init, Cached
<1>2. \A k \in Blocks : Holder(k) = None /\ Current(k) = disk[k] /\ disk[k] \in Values
  <2>1. \A k \in Blocks : disk[k] \in Values
    BY DEF Init, Values, Contents
  <2> QED BY <1>1, <2>1, ViewNone
<1> QED BY <1>2 DEF Store!Init

\* Every step of the cache is a step of BlockStore or none.
LEMMA RefineNext ==
    ASSUME Inv, Inv', [Next]_vars
    PROVE  [Store!Next]_(Store!bvars)
<1>0. UNCHANGED <<Holders, Currents>> => UNCHANGED Store!bvars
  BY DEF Holders, Currents, Store!bvars
<1>1. CASE UNCHANGED vars \/ Halted
  <2>1. buf' = buf /\ disk' = disk
    BY <1>1 DEF Halted, vars
  <2> QED BY <1>0, <2>1, ViewSame DEF Holders, Currents
<1>2. CASE ideintr
  BY <1>0, <1>2, RefineIntr DEF Store!Next
<1>3. ASSUME NEW p \in Procs, Call(p) PROVE [Store!Next]_(Store!bvars)
  BY <1>0, <1>3, RefineCall
<1>4. ASSUME NEW p \in Procs, Use(p) PROVE Store!Next
  <2>1. \E k \in Blocks, w \in Values : Store!store(p, k, w)
    BY <1>4, RefineWrite DEF Use
  <2> QED BY <2>1 DEF Store!Next
<1>5. ASSUME NEW p \in Procs, Step(p) PROVE [Store!Next]_(Store!bvars)
  <2>1. CASE acquiresleep(p)
    BY <1>0, <2>1, RefineAcquire DEF Store!Next
  <2>2. CASE releasesleep(p)
    BY <2>2, RefineRelease DEF Store!Next
  <2>3. CASE brelse(p)
    BY <1>0, <2>3, RefinePut
  <2>4. CASE iderw(p) \/ iderw_wakes(p)
    <3>1. buf' = buf /\ disk' = disk
      BY <2>4 DEF iderw, iderw_wakes
    <3> QED BY <1>0, <3>1, ViewSame DEF Holders, Currents
  <2>5. CASE iderw_mem(p)
    BY <1>0, <2>5, RefineCopy DEF Store!Next
  <2> QED BY <1>5, <2>1, <2>2, <2>3, <2>4, <2>5 DEF Step
<1> QED BY <1>1, <1>2, <1>3, <1>4, <1>5 DEF Next

\* The cache, with its locks, recycling, pinned buffers and either driver,
\* implements blocks that one process holds at a time and whose holder sees
\* what was stored last (bread, bwrite, log_write, brelse).
THEOREM StoreImplemented == Spec => ImplementsBlockStore
<1>1. Inv /\ [Next]_vars => Inv'
  BY InvNext
<1>2. Inv /\ Inv' /\ [Next]_vars => [Store!Next]_(Store!bvars)
  BY RefineNext
<1> QED BY InvInit, RefineInit, <1>1, <1>2, PTL DEF Spec, ImplementsBlockStore, Store!Spec
=============================================================================
