-------------------------- MODULE ThreadPoolProofs --------------------------
(* Proofs about ThreadPool for any number of workers, submitters and slots.  *)
EXTENDS ThreadPool, FiniteSetTheorems, TLAPS

-----------------------------------------------------------------------------
(* The inductive invariant, in parts. *)

\* What the creator's program counter says about the pool.
Lifecycle ==
    /\ main \in {"spawn", "abort", "ready", "join"} <=> pool = "live"
    /\ main = "create" => pool = "null" /\ spawned = 0
    /\ main = "destroyed" => pool = "freed"
    /\ main \in {"create", "spawn", "ready"} => ~shutdown
    /\ main \in {"abort", "join", "destroyed"} => shutdown
    /\ main \in {"ready", "join"} => spawned = num_threads
    /\ main \notin {"ready", "join"} => queue_size = 0
    /\ spawned <= num_threads
    /\ pool # "null" => queue_capacity > 0 /\ num_threads > 0

\* Where a worker can be.
WorkerInv ==
    \A w \in Workers :
        /\ wpc[w] = "none" <=> w >= spawned
        /\ wpc[w] \in {"lock", "wait", "run"} => pool = "live"
        /\ wpc[w] = "wait" => ~shutdown
        /\ wpc[w] = "exited" => shutdown /\ queue_size = 0

\* Where a submitter can be, and that the call it is in has no result yet.
SubmitInv ==
    \A s \in Submitters :
        /\ spc[s] \in {"lock", "wait"} =>
             /\ main \in {"ready", "join", "destroyed"}
             /\ calls[s] > 0 /\ ret[<<s, calls[s]>>] = "none"
        /\ spc[s] = "wait" => ~shutdown
        /\ \A i \in 1..MaxSubmits : i > calls[s] => ret[<<s, i>>] = "none"

\* The three indices of the circular buffer agree.
RingInv ==
    pool = "live" =>
        /\ queue_head \in 0..(queue_capacity - 1)
        /\ queue_tail = (queue_head + queue_size) % queue_capacity

Inv == TypeOK /\ Lifecycle /\ WorkerInv /\ SubmitInv /\ RingInv

-----------------------------------------------------------------------------
(* Arithmetic of the circular buffer. *)

\* Advancing the tail of a buffer, and advancing its head.
LEMMA Advance ==
    ASSUME NEW c \in Nat \ {0}, NEW h \in 0..(c - 1), NEW n \in 0..c
    PROVE  /\ (h + n) % c \in 0..(c - 1)
           /\ (h + 1) % c \in 0..(c - 1)
           /\ n < c => (((h + n) % c) + 1) % c = (h + (n + 1)) % c
           /\ n > 0 => (((h + 1) % c) + (n - 1)) % c = (h + n) % c
<1> DEFINE t == (h + n) % c
           g == (h + 1) % c
<1>1. t = (IF h + n < c THEN h + n ELSE h + n - c) /\ t \in 0..(c - 1)
  OBVIOUS
<1>2. g = (IF h + 1 < c THEN h + 1 ELSE h + 1 - c) /\ g \in 0..(c - 1)
  OBVIOUS
<1> HIDE DEF t, g
<1>3. ASSUME n < c PROVE (t + 1) % c = (h + (n + 1)) % c
  <2>1. (h + (n + 1)) % c = IF h + n + 1 < c THEN h + n + 1 ELSE h + n + 1 - c
    BY <1>3
  <2>2. (t + 1) % c = IF t + 1 < c THEN t + 1 ELSE t + 1 - c
    BY <1>1
  <2> QED BY <1>1, <1>3, <2>1, <2>2
<1>4. ASSUME n > 0 PROVE (g + (n - 1)) % c = t
  <2>1. (g + (n - 1)) % c = IF g + n - 1 < c THEN g + n - 1 ELSE g + n - 1 - c
    BY <1>2, <1>4
  <2> QED BY <1>1, <1>2, <1>4, <2>1
<1> QED BY <1>1, <1>2, <1>3, <1>4 DEF t, g

-----------------------------------------------------------------------------
(* Condition variables. *)

\* A signal moves at most one waiter to the mutex, a broadcast all of them;
\* nothing else changes.
LEMMA WorkerSignal ==
    ASSUME TypeOK, wpc' \in Signal(wpc)
    PROVE  /\ wpc' \in [Workers -> WorkerPcs]
           /\ \A w \in Workers : wpc'[w] = wpc[w] \/ (wpc[w] = "wait" /\ wpc'[w] = "lock")
BY DEF TypeOK, Signal, Waiting, WorkerPcs

\* The same for pthread_cond_signal(&pool->not_full).
LEMMA SubmitSignal ==
    ASSUME TypeOK, spc' \in Signal(spc)
    PROVE  /\ spc' \in [Submitters -> SubmitPcs]
           /\ \A s \in Submitters : spc'[s] = spc[s] \/ (spc[s] = "wait" /\ spc'[s] = "lock")
BY DEF TypeOK, Signal, Waiting, SubmitPcs

\* pthread_cond_broadcast(&pool->not_empty) empties the wait set of the workers.
LEMMA WorkerBroadcast ==
    ASSUME TypeOK, wpc' = Broadcast(wpc)
    PROVE  /\ wpc' \in [Workers -> WorkerPcs]
           /\ \A w \in Workers : wpc'[w] = IF wpc[w] = "wait" THEN "lock" ELSE wpc[w]
BY DEF TypeOK, Broadcast, WorkerPcs

\* pthread_cond_broadcast(&pool->not_full) empties that of the submitters.
LEMMA SubmitBroadcast ==
    ASSUME TypeOK, spc' = Broadcast(spc)
    PROVE  /\ spc' \in [Submitters -> SubmitPcs]
           /\ \A s \in Submitters : spc'[s] = IF spc[s] = "wait" THEN "lock" ELSE spc[s]
BY DEF TypeOK, Broadcast, SubmitPcs

-----------------------------------------------------------------------------
(* The invariant is inductive. *)

\* Before threadpool_create there is no pool, no worker and no task.
LEMMA InvInit == Init => Inv
<1> SUFFICES ASSUME Init PROVE Inv
  OBVIOUS
<1>1. TypeOK
  <2>1. 0..(queue_capacity - 1) = {}
    BY DEF Init
  <2>2. queue \in [0..(queue_capacity - 1) -> Tasks \cup {NoTask}]
    BY <2>1 DEF Init
  <2>3. /\ wpc \in [Workers -> WorkerPcs] /\ task \in [Workers -> Tasks \cup {NoTask}]
        /\ spc \in [Submitters -> SubmitPcs] /\ calls \in [Submitters -> 0..MaxSubmits]
        /\ ret \in [Tasks -> {"none", "0", "-1", "undefined"}]
    BY PoolAssumption DEF Init, WorkerPcs, SubmitPcs
  <2>4. /\ num_threads \in 0..MaxThreads /\ spawned \in 0..MaxThreads
        /\ queue_size \in 0..queue_capacity
    BY PoolAssumption DEF Init
  <2> QED BY <2>2, <2>3, <2>4 DEF Init, TypeOK
<1>2. Lifecycle /\ RingInv
  BY DEF Init, Lifecycle, RingInv
<1>3. WorkerInv
  BY DEF Init, WorkerInv, Workers
<1>4. SubmitInv
  BY PoolAssumption DEF Init, SubmitInv, Tasks
<1> QED BY <1>1, <1>2, <1>3, <1>4 DEF Inv

\* Every step of create, submit, the workers and destroy keeps the invariant.
LEMMA InvNext == Inv /\ [Next]_vars => Inv'
<1> SUFFICES ASSUME Inv, [Next]_vars PROVE Inv'
  OBVIOUS
<1> USE PoolAssumption DEF Inv, Workers, WorkerPcs, SubmitPcs
<1>1. ASSUME NEW w \in Workers, WorkerWait(w) PROVE Inv'
  BY <1>1 DEF WorkerWait, TypeOK, Lifecycle, WorkerInv, SubmitInv, RingInv,
     args, ring, svars, mvars
<1>2. ASSUME NEW w \in Workers, WorkerExit(w) PROVE Inv'
  BY <1>2 DEF WorkerExit, TypeOK, Lifecycle, WorkerInv, SubmitInv, RingInv,
     args, ring, svars, mvars
<1>3. ASSUME NEW w \in Workers, WorkerDequeue(w) PROVE Inv'
  <2>1. /\ spc' \in [Submitters -> SubmitPcs]
        /\ \A s \in Submitters : spc'[s] = spc[s] \/ (spc[s] = "wait" /\ spc'[s] = "lock")
    BY <1>3, SubmitSignal DEF WorkerDequeue
  <2>2. /\ queue_head' \in 0..(queue_capacity - 1)
        /\ (queue_head' + queue_size') % queue_capacity = queue_tail
    <3>1. /\ queue_capacity \in Nat \ {0} /\ queue_head \in 0..(queue_capacity - 1)
        /\ queue_size \in 0..queue_capacity
        /\ queue_tail = (queue_head + queue_size) % queue_capacity
    BY <1>3 DEF WorkerDequeue, Dequeue, TypeOK, Lifecycle, RingInv
    <3>2. /\ queue_size > 0 /\ queue_size' = queue_size - 1
          /\ queue_head' = (queue_head + 1) % queue_capacity
      BY <1>3, <3>1 DEF WorkerDequeue, Dequeue
    <3> QED BY <3>1, <3>2, Advance
  <2> QED BY <1>3, <2>1, <2>2 DEF WorkerDequeue, Dequeue, SubmitPcs, TypeOK, Lifecycle, WorkerInv, SubmitInv, RingInv,
     args, ring, svars, mvars, wvars, Tasks
<1>4. ASSUME NEW w \in Workers, WorkerRun(w) PROVE Inv'
  BY <1>4 DEF WorkerRun, TypeOK, Lifecycle, WorkerInv, SubmitInv, RingInv,
     args, ring, svars, mvars
<1>5. ASSUME NEW s \in Submitters, SubmitCall(s) PROVE Inv'
  BY <1>5 DEF SubmitCall, TypeOK, Lifecycle, WorkerInv, SubmitInv, RingInv,
     args, ring, wvars, mvars, Tasks
<1>6. ASSUME NEW s \in Submitters, SubmitWait(s) PROVE Inv'
  BY <1>6 DEF SubmitWait, TypeOK, Lifecycle, WorkerInv, SubmitInv, RingInv,
     args, ring, svars, mvars, wvars, Tasks
<1>7. ASSUME NEW s \in Submitters, SubmitRefused(s) PROVE Inv'
  BY <1>7 DEF SubmitRefused, Current, TypeOK, Lifecycle, WorkerInv, SubmitInv, RingInv,
     args, ring, svars, mvars, wvars, Tasks
<1>8. ASSUME NEW s \in Submitters, SubmitEnqueue(s) PROVE Inv'
  <2>1. /\ wpc' \in [Workers -> WorkerPcs]
        /\ \A w \in Workers : wpc'[w] = wpc[w] \/ (wpc[w] = "wait" /\ wpc'[w] = "lock")
    BY <1>8, WorkerSignal DEF SubmitEnqueue, Enqueue
  <2>2. /\ queue_tail \in 0..(queue_capacity - 1)
        /\ queue_tail' = (queue_head + queue_size') % queue_capacity
    <3>1. /\ queue_capacity \in Nat \ {0} /\ queue_head \in 0..(queue_capacity - 1)
        /\ queue_size \in 0..queue_capacity
        /\ queue_tail = (queue_head + queue_size) % queue_capacity
    BY <1>8 DEF SubmitEnqueue, Enqueue, TypeOK, Lifecycle, RingInv
    <3>2. queue_size < queue_capacity /\ queue_size' = queue_size + 1
      BY <1>8, <3>1 DEF SubmitEnqueue, Enqueue
    <3>3. queue_tail' = (queue_tail + 1) % queue_capacity
      BY <1>8 DEF SubmitEnqueue, Enqueue
    <3> QED BY <3>1, <3>2, <3>3, Advance
  <2> QED BY <1>8, <2>1, <2>2 DEF SubmitEnqueue, Enqueue, Current, WorkerPcs, TypeOK, Lifecycle, WorkerInv, SubmitInv, RingInv,
     args, ring, svars, mvars, wvars, Tasks
<1>9. ASSUME NEW s \in Submitters, SubmitFreed(s) PROVE Inv'
  BY <1>9 DEF SubmitFreed, Current, TypeOK, Lifecycle, WorkerInv, SubmitInv, RingInv,
     args, ring, svars, mvars, wvars, Tasks
<1>10. CASE CreateFails
  BY <1>10 DEF CreateFails, TypeOK, Lifecycle, WorkerInv, SubmitInv, RingInv,
     args, ring, svars, mvars, wvars, Tasks
<1>11. CASE CreateInit
  <2>1. PICK n \in ThreadArgs, c \in CapacityArgs :
          /\ n > 0 /\ c > 0 /\ num_threads' = n /\ queue_capacity' = c
          /\ queue' = [i \in 0..(c - 1) |-> NoTask]
    BY <1>11 DEF CreateInit
  <2>2. TypeOK'
    <3>1. queue' \in [0..(queue_capacity' - 1) -> Tasks \cup {NoTask}]
      BY <2>1
    <3>2. num_threads' \in 0..MaxThreads /\ queue_capacity' \in Nat
      BY <2>1
    <3>3. /\ pool' = "live" /\ shutdown' = FALSE /\ main' = "spawn"
          /\ queue_size' = 0 /\ queue_head' = 0 /\ queue_tail' = 0
          /\ UNCHANGED <<wpc, task, spc, calls, ret, spawned, finished>>
      BY <1>11 DEF CreateInit, wvars, svars
    <3>4. /\ queue_size' \in 0..queue_capacity'
          /\ queue_head' < queue_capacity' /\ queue_tail' < queue_capacity'
      BY <2>1, <3>2, <3>3
    <3>5. /\ wpc' \in [Workers -> WorkerPcs] /\ task' \in [Workers -> Tasks \cup {NoTask}]
        /\ spc' \in [Submitters -> SubmitPcs] /\ calls' \in [Submitters -> 0..MaxSubmits]
        /\ ret' \in [Tasks -> {"none", "0", "-1", "undefined"}]
        /\ spawned' \in 0..MaxThreads /\ finished' \subseteq Tasks \cup {NoTask}
      BY <3>3 DEF TypeOK
    <3>6. /\ pool' \in {"null", "live", "freed"} /\ shutdown' \in BOOLEAN
          /\ queue_head' \in Nat /\ queue_tail' \in Nat
          /\ main' \in {"create", "failed", "spawn", "abort", "ready", "join", "destroyed"}
      BY <3>3
    <3> QED BY <3>1, <3>2, <3>4, <3>5, <3>6 DEF TypeOK
  <2>3. Lifecycle' /\ RingInv'
    BY <1>11, <2>1 DEF CreateInit, TypeOK, Lifecycle, RingInv, wvars, svars
  <2>4. WorkerInv' /\ SubmitInv'
    BY <1>11 DEF CreateInit, Lifecycle, WorkerInv, SubmitInv, wvars, svars
  <2> QED BY <2>2, <2>3, <2>4
<1>12. CASE Spawn
  <2>1. TypeOK'
    BY <1>12 DEF Spawn, TypeOK, Lifecycle, args, ring, svars
  <2>2. Lifecycle' /\ RingInv'
    BY <1>12 DEF Spawn, TypeOK, Lifecycle, RingInv, args, ring, svars
  <2>3. WorkerInv'
    BY <1>12 DEF Spawn, TypeOK, Lifecycle, WorkerInv, args, ring, svars
  <2>4. SubmitInv'
    BY <1>12 DEF Spawn, TypeOK, SubmitInv, Tasks, args, ring, svars
  <2> QED BY <2>1, <2>2, <2>3, <2>4
<1>13. CASE SpawnFails
  <2>1. /\ wpc' \in [Workers -> WorkerPcs]
        /\ \A w \in Workers : wpc'[w] = IF wpc[w] = "wait" THEN "lock" ELSE wpc[w]
    BY <1>13, WorkerBroadcast DEF SpawnFails
  <2> QED BY <1>13, <2>1 DEF SpawnFails, WorkerPcs, TypeOK, Lifecycle, WorkerInv, SubmitInv, RingInv,
     args, ring, svars, mvars, wvars, Tasks
<1>14. CASE AbortJoin
  BY <1>14 DEF AbortJoin, TypeOK, Lifecycle, WorkerInv, SubmitInv, RingInv,
     args, ring, svars, mvars, wvars, Tasks
<1>15. CASE DestroyShutdown
  <2>1. /\ wpc' \in [Workers -> WorkerPcs]
        /\ \A w \in Workers : wpc'[w] = IF wpc[w] = "wait" THEN "lock" ELSE wpc[w]
    BY <1>15, WorkerBroadcast DEF DestroyShutdown
  <2>2. /\ spc' \in [Submitters -> SubmitPcs]
        /\ \A s \in Submitters : spc'[s] = IF spc[s] = "wait" THEN "lock" ELSE spc[s]
    BY <1>15, SubmitBroadcast DEF DestroyShutdown
  <2> QED BY <1>15, <2>1, <2>2 DEF DestroyShutdown, WorkerPcs, SubmitPcs, TypeOK, Lifecycle, WorkerInv, SubmitInv, RingInv,
     args, ring, svars, mvars, wvars, Tasks
<1>16. CASE DestroyJoin
  BY <1>16 DEF DestroyJoin, TypeOK, Lifecycle, WorkerInv, SubmitInv, RingInv,
     args, ring, svars, mvars, wvars, Tasks
<1>17. CASE SpuriousWakeup
  <2>1. /\ wpc' \in [Workers -> WorkerPcs]
        /\ \A w \in Workers : wpc'[w] = wpc[w] \/ (wpc[w] = "wait" /\ wpc'[w] = "lock")
    BY <1>17 DEF SpuriousWakeup, Waiting, TypeOK, WorkerPcs
  <2>2. /\ spc' \in [Submitters -> SubmitPcs]
        /\ \A s \in Submitters : spc'[s] = spc[s] \/ (spc[s] = "wait" /\ spc'[s] = "lock")
    BY <1>17 DEF SpuriousWakeup, Waiting, TypeOK, SubmitPcs
  <2> QED BY <1>17, <2>1, <2>2 DEF SpuriousWakeup, WorkerPcs, SubmitPcs, TypeOK, Lifecycle, WorkerInv, SubmitInv, RingInv,
     args, ring, svars, mvars, wvars, Tasks
<1>19. CASE UNCHANGED vars
  BY <1>19 DEF vars, TypeOK, Lifecycle, WorkerInv, SubmitInv, RingInv,
     args, ring, svars, mvars, wvars, Tasks
<1> QED
  BY <1>1, <1>2, <1>3, <1>4, <1>5, <1>6, <1>7, <1>8, <1>9, <1>10, <1>11, <1>12,
     <1>13, <1>14, <1>15, <1>16, <1>17, <1>19
     DEF Next, WorkerStep, SubmitStep, MainStep, Terminated

\* So it holds in every behaviour.
LEMMA Invariance == Spec => []Inv
BY InvInit, InvNext, PTL DEF Spec

\* Type correctness, for any number of threads and any capacity: with the
\* variables' types, that queue_head and queue_tail stay below the capacity and
\* queue_size does not exceed it (threadpool.c:24-27, 130-133).
THEOREM TypeCorrect == Spec => []TypeOK
BY Invariance, PTL DEF Inv

-----------------------------------------------------------------------------
(* The contents of the circular buffer. *)

\* The occupied slots are slots, differ from one another and from the tail.
LEMMA Slots ==
    ASSUME NEW c \in Nat \ {0}, NEW h \in 0..(c - 1), NEW n \in 0..c, NEW i \in 1..n
    PROVE  /\ (h + i - 1) % c \in 0..(c - 1)
           /\ n < c => (h + i - 1) % c # (h + n) % c
<1>1. (h + i - 1) % c = IF h + i - 1 < c THEN h + i - 1 ELSE h + i - 1 - c
  OBVIOUS
<1>2. (h + n) % c = IF h + n < c THEN h + n ELSE h + n - c
  OBVIOUS
<1> QED BY <1>1, <1>2

\* What the ring variables of a live pool satisfy.
LEMMA LiveRing ==
    ASSUME Inv, pool = "live"
    PROVE  /\ queue_capacity \in Nat \ {0}
           /\ queue_head \in 0..(queue_capacity - 1)
           /\ queue_size \in 0..queue_capacity
           /\ queue_tail = (queue_head + queue_size) % queue_capacity
           /\ queue_tail \in 0..(queue_capacity - 1)
BY DEF Inv, TypeOK, Lifecycle, RingInv

\* Enqueuing appends.
LEMMA EnqueueContent ==
    ASSUME Inv, NEW s \in Submitters, SubmitEnqueue(s)
    PROVE  /\ queue_size \in Nat /\ queue_size' = queue_size + 1
           /\ \A i \in 1..queue_size : Content'[i] = Content[i]
           /\ Content'[queue_size + 1] = Current(s)
<1>1. pool = "live" /\ queue_size # queue_capacity
  BY DEF SubmitEnqueue, Enqueue
<1>2. /\ queue' = [queue EXCEPT ![queue_tail] = Current(s)]
      /\ queue_size' = queue_size + 1
      /\ queue_head' = queue_head /\ queue_capacity' = queue_capacity
  BY DEF SubmitEnqueue, Enqueue, args
<1>3. queue \in [0..(queue_capacity - 1) -> Tasks \cup {NoTask}]
  BY DEF Inv, TypeOK
<1>4. ASSUME NEW i \in 1..queue_size PROVE Content'[i] = Content[i]
  <2>1. /\ (queue_head + i - 1) % queue_capacity \in 0..(queue_capacity - 1)
        /\ (queue_head + i - 1) % queue_capacity # queue_tail
    BY <1>1, <1>4, LiveRing, Slots
  <2> QED BY <1>1, <1>2, <1>3, <2>1, LiveRing DEF Content
<1>5. Content'[queue_size + 1] = Current(s)
  <2>1. queue_size + 1 \in 1..queue_size' /\ queue_head + (queue_size + 1) - 1 = queue_head + queue_size
    BY <1>1, <1>2, LiveRing
  <2> QED BY <1>1, <1>2, <1>3, <2>1, LiveRing DEF Content
<1> QED BY <1>1, <1>2, <1>4, <1>5, LiveRing

\* Dequeuing takes the first and shifts the rest.
LEMMA DequeueContent ==
    ASSUME Inv, NEW w \in Workers, WorkerDequeue(w)
    PROVE  /\ queue_size \in Nat \ {0} /\ queue_size' = queue_size - 1
           /\ \A i \in 1..(queue_size - 1) : Content'[i] = Content[i + 1]
           /\ task' = [task EXCEPT ![w] = Content[1]]
<1>1. pool = "live" /\ queue_size # 0
  BY DEF WorkerDequeue, Dequeue
<1>2. /\ queue' = queue /\ queue_capacity' = queue_capacity
      /\ queue_size' = queue_size - 1
      /\ queue_head' = (queue_head + 1) % queue_capacity
      /\ task' = [task EXCEPT ![w] = queue[queue_head]]
  BY DEF WorkerDequeue, Dequeue, args
<1>3. Content[1] = queue[queue_head]
  <2>1. (queue_head + 1 - 1) % queue_capacity = queue_head /\ 1 \in 1..queue_size
    BY <1>1, LiveRing
  <2> QED BY <2>1 DEF Content
<1>4. ASSUME NEW i \in 1..(queue_size - 1) PROVE Content'[i] = Content[i + 1]
  <2>1. (((queue_head + 1) % queue_capacity) + (i - 1)) % queue_capacity
          = (queue_head + i) % queue_capacity
    BY <1>1, <1>4, LiveRing, Advance
  <2>2. i \in 1..queue_size' /\ i + 1 \in 1..queue_size
    BY <1>1, <1>2, LiveRing
  <2>3. /\ queue_head' + i - 1 = queue_head' + (i - 1)
        /\ queue_head + (i + 1) - 1 = queue_head + i
    BY <1>1, <1>2, LiveRing
  <2> QED BY <1>2, <2>1, <2>2, <2>3 DEF Content
<1> QED BY <1>1, <1>2, <1>3, <1>4, LiveRing

-----------------------------------------------------------------------------
(* Every accepted task is in exactly one place. *)

\* Steps that touch neither the buffer nor a running task keep ExactlyOnce.
LEMMA OnceFrame ==
    ASSUME ExactlyOnce,
           UNCHANGED <<queue, queue_head, queue_size, queue_capacity, task, finished>>,
           \A w \in Workers : wpc'[w] = "run" <=> wpc[w] = "run",
           \A t \in Tasks : ret'[t] = "0" <=> ret[t] = "0"
    PROVE  ExactlyOnce'
<1>1. Content' = Content /\ Queued' = Queued
  BY DEF Content, Queued
<1>2. Running' = Running
  BY DEF Running
<1>3. Accepted' = Accepted
  BY DEF Accepted
<1> QED BY <1>1, <1>2, <1>3 DEF ExactlyOnce

\* threadpool_submit's enqueue puts a new task in the queue and nowhere else.
LEMMA OnceEnqueue ==
    ASSUME Inv, ExactlyOnce, NEW s \in Submitters, SubmitEnqueue(s)
    PROVE  ExactlyOnce'
<1>1. /\ Current(s) \in Tasks /\ Current(s) \notin Accepted
      /\ ret' = [ret EXCEPT ![Current(s)] = "0"] /\ ret \in [Tasks -> {"none", "0", "-1", "undefined"}]
  BY PoolAssumption DEF SubmitEnqueue, Enqueue, Inv, TypeOK, SubmitInv, Accepted, Current, Tasks
<1>2. Accepted' = Accepted \cup {Current(s)}
  BY <1>1 DEF Accepted
<1>3. Queued' = Queued \cup {Current(s)}
  BY EnqueueContent DEF Queued
<1>4. /\ finished' = finished /\ task' = task
      /\ \A w \in Workers : wpc'[w] = "run" <=> wpc[w] = "run"
  BY WorkerSignal DEF SubmitEnqueue, Enqueue, Inv
<1>5. Running' = Running
  BY <1>4 DEF Running
<1>6. \A i \in 1..queue_size : Content[i] # Current(s)
  BY <1>1 DEF ExactlyOnce, Queued
<1>7. \A i, j \in 1..queue_size' : Content'[i] = Content'[j] => i = j
  BY <1>6, EnqueueContent DEF ExactlyOnce
<1> QED BY <1>1, <1>2, <1>3, <1>4, <1>5, <1>7 DEF ExactlyOnce

\* worker_thread's dequeue moves the first task from the queue to the worker.
LEMMA OnceDequeue ==
    ASSUME Inv, ExactlyOnce, NEW w \in Workers, WorkerDequeue(w)
    PROVE  ExactlyOnce'
<1>1. /\ finished' = finished /\ ret' = ret
      /\ wpc[w] = "lock" /\ wpc' = [wpc EXCEPT ![w] = "run"]
      /\ wpc \in [Workers -> WorkerPcs] /\ task \in [Workers -> Tasks \cup {NoTask}]
  BY DEF WorkerDequeue, Dequeue, Inv, TypeOK
<1>2. Accepted' = Accepted
  BY <1>1 DEF Accepted
<1>3. Queued = Queued' \cup {Content[1]}
  BY DequeueContent DEF Queued
<1>4. Content[1] \notin Queued'
  BY DequeueContent DEF Queued, ExactlyOnce
<1>5. Running' = Running \cup {Content[1]}
  BY <1>1, DequeueContent DEF Running
<1>6. \A i, j \in 1..queue_size' : Content'[i] = Content'[j] => i = j
  BY DequeueContent DEF ExactlyOnce
<1>7. \A u, v \in Workers :
         wpc'[u] = "run" /\ wpc'[v] = "run" /\ task'[u] = task'[v] => u = v
  <2>1. \A u \in Workers : wpc[u] = "run" => task[u] # Content[1]
    BY <1>3 DEF ExactlyOnce, Running
  <2> QED BY <1>1, <2>1, DequeueContent DEF ExactlyOnce
<1> QED BY <1>1, <1>2, <1>3, <1>4, <1>5, <1>6, <1>7 DEF ExactlyOnce

\* The return of task.func moves the task from the worker to the finished ones.
LEMMA OnceRun ==
    ASSUME Inv, ExactlyOnce, NEW w \in Workers, WorkerRun(w)
    PROVE  ExactlyOnce'
<1>1. /\ finished' = finished \cup {task[w]} /\ ret' = ret /\ task' = task
      /\ wpc[w] = "run" /\ wpc' = [wpc EXCEPT ![w] = "lock"]
      /\ wpc \in [Workers -> WorkerPcs]
      /\ UNCHANGED <<queue, queue_head, queue_size, queue_capacity>>
  BY DEF WorkerRun, Inv, TypeOK, ring, args, svars
<1>2. Accepted' = Accepted /\ Content' = Content /\ Queued' = Queued
  BY <1>1 DEF Accepted, Content, Queued
<1>3. Running = Running' \cup {task[w]} /\ task[w] \notin Running'
  BY <1>1 DEF Running, ExactlyOnce
<1> QED BY <1>1, <1>2, <1>3 DEF ExactlyOnce

\* Every step keeps each accepted task in exactly one place.
LEMMA OnceNext == Inv /\ Inv' /\ ExactlyOnce /\ [Next]_vars => ExactlyOnce'
<1> SUFFICES ASSUME Inv, Inv', ExactlyOnce, [Next]_vars PROVE ExactlyOnce'
  OBVIOUS
<1>t. /\ wpc \in [Workers -> WorkerPcs] /\ ret \in [Tasks -> {"none", "0", "-1", "undefined"}]
  BY DEF Inv, TypeOK
<1> USE <1>t DEF args, ring, wvars, svars
<1>1. ASSUME NEW w \in Workers, WorkerWait(w) \/ WorkerExit(w) PROVE ExactlyOnce'
  BY <1>1, OnceFrame DEF WorkerWait, WorkerExit
<1>2. ASSUME NEW s \in Submitters, SubmitCall(s) \/ SubmitWait(s) PROVE ExactlyOnce'
  BY <1>2, OnceFrame DEF SubmitCall, SubmitWait
<1>3. ASSUME NEW s \in Submitters, SubmitRefused(s) \/ SubmitFreed(s) PROVE ExactlyOnce'
  <2>1. spc[s] = "lock" /\ Current(s) \in Tasks /\ ret[Current(s)] = "none"
    BY <1>3, PoolAssumption
       DEF SubmitRefused, SubmitFreed, Inv, TypeOK, SubmitInv, Current, Tasks
  <2>2. \A t \in Tasks : ret'[t] = "0" <=> ret[t] = "0"
    BY <1>3, <2>1 DEF SubmitRefused, SubmitFreed
  <2> QED BY <1>3, <2>2, OnceFrame DEF SubmitRefused, SubmitFreed
<1>4. CASE CreateFails \/ AbortJoin \/ DestroyJoin
  BY <1>4, OnceFrame DEF CreateFails, AbortJoin, DestroyJoin
<1>5. CASE CreateInit
  <2>1. queue_size = 0 /\ queue_size' = 0 /\ UNCHANGED <<wpc, task, ret, finished>>
    BY <1>5 DEF CreateInit, Inv, Lifecycle
  <2>2. Queued = {} /\ Queued' = {}
    BY <2>1 DEF Queued
  <2>3. Running' = Running /\ Accepted' = Accepted
    BY <2>1 DEF Running, Accepted
  <2> QED BY <2>1, <2>2, <2>3 DEF ExactlyOnce
<1>6. CASE Spawn
  <2>1. spawned \in Workers /\ wpc[spawned] = "none"
    BY <1>6, PoolAssumption DEF Spawn, Inv, TypeOK, WorkerInv, Workers
  <2> QED BY <1>6, <2>1, OnceFrame DEF Spawn
<1>7. CASE SpawnFails \/ DestroyShutdown
  <2>1. \A w \in Workers : wpc'[w] = "run" <=> wpc[w] = "run"
    BY <1>7, WorkerBroadcast DEF SpawnFails, DestroyShutdown, Inv
  <2> QED BY <1>7, <2>1, OnceFrame DEF SpawnFails, DestroyShutdown
<1>8. CASE SpuriousWakeup
  BY <1>8, OnceFrame DEF SpuriousWakeup, Waiting
<1>9. CASE UNCHANGED vars
  BY <1>9, OnceFrame DEF vars
<1> QED
  BY <1>1, <1>2, <1>3, <1>4, <1>5, <1>6, <1>7, <1>8, <1>9, OnceEnqueue, OnceDequeue,
     OnceRun DEF Next, WorkerStep, SubmitStep, MainStep, Terminated

\* Whatever the interleaving, the number of threads and the capacity, each task
\* that submit accepted is queued, running or finished, and only one of these.
THEOREM AcceptedOnce == Spec => []ExactlyOnce
<1>1. Init => ExactlyOnce
  <2> SUFFICES ASSUME Init PROVE ExactlyOnce
    OBVIOUS
  <2>1. Queued = {} /\ Running = {} /\ Accepted = {} /\ finished = {} /\ queue_size = 0
    BY DEF Init, Queued, Running, Accepted
  <2>2. \A w \in Workers : wpc[w] = "none"
    BY DEF Init
  <2> QED BY <2>1, <2>2 DEF ExactlyOnce
<1> QED BY <1>1, OnceNext, Invariance, PTL DEF Spec

\* destroy and create's error path free the pool only after every accepted
\* task has run and every worker has left worker_thread.
THEOREM NothingDropped == Spec => []DrainedBeforeFree
<1>1. Inv /\ ExactlyOnce => DrainedBeforeFree
  <2> SUFFICES ASSUME Inv, ExactlyOnce, pool = "freed" PROVE DrainedBeforeFree
    BY DEF DrainedBeforeFree
  <2>1. \A w \in Workers : wpc[w] \in {"none", "exited"}
    BY DEF Inv, TypeOK, WorkerInv, WorkerPcs
  <2>2. queue_size = 0
    BY DEF Inv, Lifecycle
  <2>3. Queued = {} /\ Running = {}
    BY <2>1, <2>2 DEF Queued, Running
  <2> QED BY <2>1, <2>3 DEF ExactlyOnce, DrainedBeforeFree
<1> QED BY <1>1, Invariance, AcceptedOnce, PTL

-----------------------------------------------------------------------------
(* Wakeups.  Inv carries the part about shutdown; what is left relates the    *)
(* sizes of the wait sets to the queue.                                       *)

\* Threads that are signalled are counted among the awake ones.
LEMMA SignalCounts ==
    ASSUME NEW pc, IsFiniteSet(DOMAIN pc), NEW q \in Signal(pc), Waiting(q) # {}
    PROVE  /\ Waiting(pc) # {}
           /\ Cardinality(Awake(q)) = Cardinality(Awake(pc)) + 1
           /\ Cardinality(Awake(pc)) \in Nat
<1>1. IsFiniteSet(Awake(pc))
  BY FS_Subset DEF Awake
<1>2. Waiting(pc) # {}
  BY DEF Signal
<1>3. PICK x \in Waiting(pc) : q = [pc EXCEPT ![x] = "lock"]
  BY <1>2 DEF Signal
<1>4. x \notin Awake(pc) /\ Awake(q) = Awake(pc) \cup {x}
  BY <1>3 DEF Waiting, Awake
<1> QED BY <1>1, <1>2, <1>4, FS_AddElement, FS_CardinalityType

\* A step that sends nobody away from the mutex leaves at least as many awake.
LEMMA AwakeGrows ==
    ASSUME NEW pc, IsFiniteSet(DOMAIN pc), NEW q, DOMAIN q = DOMAIN pc,
           \A x \in DOMAIN pc : pc[x] = "lock" => q[x] = "lock"
    PROVE  /\ Cardinality(Awake(pc)) <= Cardinality(Awake(q))
           /\ Cardinality(Awake(pc)) \in Nat /\ Cardinality(Awake(q)) \in Nat
<1>1. IsFiniteSet(Awake(q)) /\ Awake(pc) \subseteq Awake(q)
  BY FS_Subset DEF Awake
<1> QED BY <1>1, FS_Subset, FS_CardinalityType

\* One thread leaves the mutex, all others stay where they are.
LEMMA AwakeLeaves ==
    ASSUME NEW pc, IsFiniteSet(DOMAIN pc), NEW x \in DOMAIN pc, pc[x] = "lock",
           NEW q, DOMAIN q = DOMAIN pc, q[x] # "lock",
           \A y \in DOMAIN pc \ {x} : q[y] = pc[y]
    PROVE  /\ Cardinality(Awake(q)) = Cardinality(Awake(pc)) - 1
           /\ Cardinality(Awake(pc)) \in Nat
           /\ Cardinality(Awake(q)) \in Nat
<1>1. IsFiniteSet(Awake(pc)) /\ IsFiniteSet(Awake(q))
  BY FS_Subset DEF Awake
<1>2. x \in Awake(pc) /\ Awake(q) = Awake(pc) \ {x}
  BY DEF Awake
<1> QED BY <1>1, <1>2, FS_RemoveElement, FS_CardinalityType

\* The counting halves of NoLostWakeup.
WorkersSuffice == Waiting(wpc) # {} => queue_size <= Cardinality(Awake(wpc))
SubmittersSuffice ==
    Waiting(spc) # {} => queue_capacity - queue_size <= Cardinality(Awake(spc))

\* The program counters range over the finite sets of workers and submitters.
LEMMA PcDomains ==
    ASSUME TypeOK
    PROVE  /\ DOMAIN wpc = Workers /\ IsFiniteSet(DOMAIN wpc)
           /\ DOMAIN spc = Submitters /\ IsFiniteSet(DOMAIN spc)
<1>1. IsFiniteSet(Workers)
  BY PoolAssumption, FS_Interval DEF Workers
<1> QED BY <1>1, PoolAssumption DEF TypeOK

\* Every step leaves enough awake workers for the queued tasks.
LEMMA WorkersSufficeNext ==
    ASSUME Inv, Inv', WorkersSuffice, Next PROVE WorkersSuffice'
<1>t. /\ DOMAIN wpc = Workers /\ DOMAIN wpc' = Workers /\ IsFiniteSet(Workers)
      /\ wpc \in [Workers -> WorkerPcs] /\ queue_size \in Nat
  <2>1. TypeOK /\ TypeOK'
    BY DEF Inv
  <2> QED BY <2>1, PcDomains DEF TypeOK
<1>s. ASSUME shutdown' PROVE WorkersSuffice'
  <2>1. \A w \in Workers : wpc'[w] # "wait"
    BY <1>s DEF Inv, WorkerInv
  <2> QED BY <1>t, <2>1 DEF WorkersSuffice, Waiting
\* Enough for a step that moves no awake worker and adds no task.
<1>g. ASSUME queue_size' = queue_size, Waiting(wpc') # {} => Waiting(wpc) # {},
             \A x \in Workers : wpc[x] = "lock" => wpc'[x] = "lock"
      PROVE  WorkersSuffice'
  <2>1. /\ Cardinality(Awake(wpc)) <= Cardinality(Awake(wpc'))
        /\ Cardinality(Awake(wpc)) \in Nat /\ Cardinality(Awake(wpc')) \in Nat
    BY <1>g, <1>t, AwakeGrows
  <2> QED BY <1>g, <1>t, <2>1 DEF WorkersSuffice
<1> USE DEF args, ring, wvars, svars
<1>1. ASSUME NEW w \in Workers, WorkerWait(w) PROVE WorkersSuffice'
  <2>1. Cardinality(Awake(wpc')) \in Nat
    BY <1>t, AwakeGrows
  <2> QED BY <1>1, <2>1 DEF WorkerWait, WorkersSuffice
<1>2. ASSUME NEW w \in Workers, WorkerExit(w) PROVE WorkersSuffice'
  BY <1>2, <1>s DEF WorkerExit
<1>3. ASSUME NEW w \in Workers, WorkerDequeue(w) PROVE WorkersSuffice'
  <2>1. /\ wpc[w] = "lock" /\ wpc' = [wpc EXCEPT ![w] = "run"]
        /\ queue_size' = queue_size - 1
    BY <1>3 DEF WorkerDequeue, Dequeue
  <2>2. /\ Cardinality(Awake(wpc')) = Cardinality(Awake(wpc)) - 1
        /\ Cardinality(Awake(wpc)) \in Nat
    BY <1>t, <2>1, AwakeLeaves
  <2>3. Waiting(wpc') \subseteq Waiting(wpc)
    BY <1>t, <2>1 DEF Waiting
  <2>4. queue_size' = queue_size - 1
    BY <2>1
  <2> QED BY <1>t, <2>2, <2>3, <2>4 DEF WorkersSuffice
<1>4. ASSUME NEW w \in Workers, WorkerRun(w) PROVE WorkersSuffice'
  <2>1. wpc[w] = "run" /\ wpc' = [wpc EXCEPT ![w] = "lock"] /\ queue_size' = queue_size
    BY <1>4 DEF WorkerRun
  <2> QED BY <1>g, <1>t, <2>1 DEF Waiting
<1>5. ASSUME NEW s \in Submitters, SubmitEnqueue(s) PROVE WorkersSuffice'
  <2>1. wpc' \in Signal(wpc) /\ queue_size' = queue_size + 1
    BY <1>5 DEF SubmitEnqueue, Enqueue
  <2>2. ASSUME Waiting(wpc') # {} PROVE queue_size' <= Cardinality(Awake(wpc'))
    <3>1. /\ Waiting(wpc) # {}
          /\ Cardinality(Awake(wpc')) = Cardinality(Awake(wpc)) + 1
          /\ Cardinality(Awake(wpc)) \in Nat
      BY <1>t, <2>1, <2>2, SignalCounts
    <3> QED BY <1>t, <2>1, <3>1 DEF WorkersSuffice
  <2> QED BY <2>2 DEF WorkersSuffice
<1>6. ASSUME NEW s \in Submitters,
             SubmitCall(s) \/ SubmitWait(s) \/ SubmitRefused(s) \/ SubmitFreed(s)
      PROVE  WorkersSuffice'
  BY <1>6, <1>g DEF SubmitCall, SubmitWait, SubmitRefused, SubmitFreed
<1>7. CASE CreateFails \/ AbortJoin \/ DestroyJoin \/ UNCHANGED vars
  BY <1>7, <1>g DEF CreateFails, AbortJoin, DestroyJoin, vars
<1>8. CASE CreateInit
  <2>1. \A w \in Workers : wpc'[w] = "none"
    BY <1>8 DEF CreateInit, Inv, Lifecycle, WorkerInv, Workers
  <2> QED BY <1>t, <2>1 DEF WorkersSuffice, Waiting
<1>9. CASE Spawn
  <2>1. spawned \in Workers /\ wpc' = [wpc EXCEPT ![spawned] = "lock"] /\ queue_size' = queue_size
    BY <1>9, PoolAssumption DEF Spawn, Inv, TypeOK, Workers
  <2> QED BY <1>g, <1>t, <2>1 DEF Waiting
<1>10. CASE SpawnFails \/ DestroyShutdown
  BY <1>10, <1>s DEF SpawnFails, DestroyShutdown
<1>11. CASE SpuriousWakeup
  <2>1. queue_size' = queue_size
    BY <1>11 DEF SpuriousWakeup
  <2>2. UNCHANGED wpc \/ \E w \in Waiting(wpc) : wpc' = [wpc EXCEPT ![w] = "lock"]
    BY <1>11 DEF SpuriousWakeup
  <2> QED BY <1>g, <1>t, <2>1, <2>2 DEF Waiting
<1> QED
  BY <1>1, <1>2, <1>3, <1>4, <1>5, <1>6, <1>7, <1>8, <1>9, <1>10, <1>11
     DEF Next, WorkerStep, SubmitStep, MainStep, Terminated

\* Every step leaves enough awake submitters for the free slots.
LEMMA SubmittersSufficeNext ==
    ASSUME Inv, Inv', SubmittersSuffice, Next PROVE SubmittersSuffice'
<1>t. /\ DOMAIN spc = Submitters /\ DOMAIN spc' = Submitters /\ IsFiniteSet(Submitters)
      /\ spc \in [Submitters -> SubmitPcs]
      /\ queue_size \in Nat /\ queue_capacity \in Nat
  <2>1. TypeOK /\ TypeOK'
    BY DEF Inv
  <2> QED BY <2>1, PcDomains DEF TypeOK
<1>s. ASSUME shutdown' PROVE SubmittersSuffice'
  <2>1. \A s \in Submitters : spc'[s] # "wait"
    BY <1>s DEF Inv, SubmitInv
  <2> QED BY <1>t, <2>1 DEF SubmittersSuffice, Waiting
\* Enough for a step that moves no awake submitter and frees no slot.
<1>g. ASSUME queue_size' = queue_size, queue_capacity' = queue_capacity,
             Waiting(spc') # {} => Waiting(spc) # {},
             \A x \in Submitters : spc[x] = "lock" => spc'[x] = "lock"
      PROVE  SubmittersSuffice'
  <2>1. /\ Cardinality(Awake(spc)) <= Cardinality(Awake(spc'))
        /\ Cardinality(Awake(spc)) \in Nat /\ Cardinality(Awake(spc')) \in Nat
    BY <1>g, <1>t, AwakeGrows
  <2> QED BY <1>g, <1>t, <2>1 DEF SubmittersSuffice
<1> USE DEF args, ring, wvars, svars
<1>1. ASSUME NEW w \in Workers, WorkerWait(w) \/ WorkerExit(w) \/ WorkerRun(w)
      PROVE  SubmittersSuffice'
  BY <1>1, <1>g DEF WorkerWait, WorkerExit, WorkerRun
<1>2. ASSUME NEW w \in Workers, WorkerDequeue(w) PROVE SubmittersSuffice'
  <2>1. /\ spc' \in Signal(spc) /\ queue_size' = queue_size - 1
        /\ queue_capacity' = queue_capacity
    BY <1>2 DEF WorkerDequeue, Dequeue
  <2>2. ASSUME Waiting(spc') # {}
        PROVE  queue_capacity' - queue_size' <= Cardinality(Awake(spc'))
    <3>1. /\ Waiting(spc) # {}
          /\ Cardinality(Awake(spc')) = Cardinality(Awake(spc)) + 1
          /\ Cardinality(Awake(spc)) \in Nat
      BY <1>t, <2>1, <2>2, SignalCounts
    <3> QED BY <1>t, <2>1, <3>1 DEF SubmittersSuffice
  <2> QED BY <2>2 DEF SubmittersSuffice
<1>3. ASSUME NEW s \in Submitters, SubmitCall(s) PROVE SubmittersSuffice'
  <2>1. /\ spc[s] = "idle" /\ spc' = [spc EXCEPT ![s] = "lock"]
        /\ queue_size' = queue_size /\ queue_capacity' = queue_capacity
    BY <1>3 DEF SubmitCall
  <2> QED BY <1>g, <1>t, <2>1 DEF Waiting
<1>4. ASSUME NEW s \in Submitters, SubmitWait(s) PROVE SubmittersSuffice'
  <2>1. Cardinality(Awake(spc')) \in Nat
    BY <1>t, AwakeGrows
  <2>2. queue_capacity' - queue_size' = 0
    BY <1>4, <1>t DEF SubmitWait
  <2> QED BY <2>1, <2>2 DEF SubmittersSuffice
<1>5. ASSUME NEW s \in Submitters, SubmitRefused(s) PROVE SubmittersSuffice'
  BY <1>5, <1>s DEF SubmitRefused
<1>6. ASSUME NEW s \in Submitters, SubmitEnqueue(s) PROVE SubmittersSuffice'
  <2>1. /\ spc[s] = "lock" /\ spc' = [spc EXCEPT ![s] = "idle"]
        /\ queue_size' = queue_size + 1 /\ queue_capacity' = queue_capacity
    BY <1>6 DEF SubmitEnqueue, Enqueue
  <2>2. /\ Cardinality(Awake(spc')) = Cardinality(Awake(spc)) - 1
        /\ Cardinality(Awake(spc)) \in Nat
    BY <1>t, <2>1, AwakeLeaves
  <2>3. Waiting(spc') \subseteq Waiting(spc)
    BY <1>t, <2>1 DEF Waiting
  <2>4. queue_size' = queue_size + 1 /\ queue_capacity' = queue_capacity
    BY <2>1
  <2> QED BY <1>t, <2>2, <2>3, <2>4 DEF SubmittersSuffice
<1>7. ASSUME NEW s \in Submitters, SubmitFreed(s) PROVE SubmittersSuffice'
  <2>1. main = "destroyed" /\ shutdown' = shutdown
    BY <1>7 DEF SubmitFreed, Inv, Lifecycle, SubmitInv
  <2> QED BY <1>s, <2>1 DEF Inv, Lifecycle
<1>8. CASE CreateFails \/ Spawn \/ AbortJoin \/ DestroyJoin \/ UNCHANGED vars
  BY <1>8, <1>g DEF CreateFails, Spawn, AbortJoin, DestroyJoin, vars
<1>9. CASE CreateInit
  <2>1. \A s \in Submitters : spc'[s] # "wait"
    BY <1>9 DEF CreateInit, Inv, SubmitInv
  <2> QED BY <1>t, <2>1 DEF SubmittersSuffice, Waiting
<1>10. CASE SpawnFails \/ DestroyShutdown
  BY <1>10, <1>s DEF SpawnFails, DestroyShutdown
<1>11. CASE SpuriousWakeup
  <2>1. queue_size' = queue_size /\ queue_capacity' = queue_capacity
    BY <1>11 DEF SpuriousWakeup
  <2>2. UNCHANGED spc \/ \E s \in Waiting(spc) : spc' = [spc EXCEPT ![s] = "lock"]
    BY <1>11 DEF SpuriousWakeup
  <2> QED BY <1>g, <1>t, <2>1, <2>2 DEF Waiting
<1> QED
  BY <1>1, <1>2, <1>3, <1>4, <1>5, <1>6, <1>7, <1>8, <1>9, <1>10, <1>11
     DEF Next, WorkerStep, SubmitStep, MainStep, Terminated

\* One signal per enqueue and one per dequeue are enough: a worker or a submitter
\* never sleeps over work that no awake thread is there to take.
THEOREM WakeupsSuffice == Spec => []NoLostWakeup
<1>1. Init => WorkersSuffice /\ SubmittersSuffice
  BY DEF Init, WorkersSuffice, SubmittersSuffice, Waiting
<1>2. Inv /\ Inv' /\ WorkersSuffice /\ SubmittersSuffice /\ [Next]_vars
        => WorkersSuffice' /\ SubmittersSuffice'
  <2>1. WorkersSuffice /\ SubmittersSuffice /\ UNCHANGED vars
          => WorkersSuffice' /\ SubmittersSuffice'
    BY DEF WorkersSuffice, SubmittersSuffice, Waiting, Awake, vars, args, ring, wvars, svars
  <2> QED BY <2>1, WorkersSufficeNext, SubmittersSufficeNext
<1>3. Inv /\ WorkersSuffice /\ SubmittersSuffice => NoLostWakeup
  <2>1. ASSUME Inv, shutdown PROVE Waiting(wpc) = {} /\ Waiting(spc) = {}
    BY <2>1, PcDomains DEF Inv, WorkerInv, SubmitInv, Waiting
  <2> QED BY <2>1 DEF WorkersSuffice, SubmittersSuffice, NoLostWakeup
<1> QED BY <1>1, <1>2, <1>3, Invariance, PTL DEF Spec

-----------------------------------------------------------------------------
(* The pool implements the bounded first-in first-out queue of TaskQueue.    *)

\* A task's status, as a chain of alternatives.
LEMMA StatusOf ==
    ExactlyOnce =>
    \A t \in Tasks : TaskStatus[t] =
        IF ret[t] = "-1" THEN "refused" ELSE IF t \in finished THEN "done"
        ELSE IF t \in Running THEN "running" ELSE IF t \in Queued THEN "queued" ELSE "new"
BY DEF TaskStatus, ExactlyOnce, Accepted

\* The same after a step.
LEMMA StatusOfNext ==
    ExactlyOnce' =>
    \A t \in Tasks : TaskStatus'[t] =
        IF ret'[t] = "-1" THEN "refused" ELSE IF t \in finished' THEN "done"
        ELSE IF t \in Running' THEN "running" ELSE IF t \in Queued' THEN "queued" ELSE "new"
BY DEF TaskStatus, ExactlyOnce, Accepted

\* The status is a function on the tasks, before and after a step.
LEMMA StatusFcn ==
    /\ TaskStatus = [t \in Tasks |-> TaskStatus[t]]
    /\ TaskStatus' = [t \in Tasks |-> TaskStatus'[t]]
<1>1. TaskStatus = [t \in Tasks |-> TaskStatus[t]]
  BY DEF TaskStatus
<1>2. TaskStatus' = [t \in Tasks |-> TaskStatus'[t]]
  BY DEF TaskStatus
<1> QED BY <1>1, <1>2

\* The buffer is a sequence of accepted tasks as long as queue_size says.
LEMMA ContentSeq ==
    ASSUME Inv, ExactlyOnce
    PROVE  Content \in Seq(Tasks) /\ Len(Content) = queue_size
<1>1. queue_size \in Nat /\ Content = [i \in 1..queue_size |-> Content[i]]
  BY DEF Content, Inv, TypeOK
<1>2. \A i \in 1..queue_size : Content[i] \in Tasks
  BY DEF Queued, ExactlyOnce, Accepted
<1> QED BY <1>1, <1>2

\* A step that changes neither the buffer, nor which tasks run or have run, nor
\* a refusal, changes no status.
LEMMA StatusFrame ==
    ASSUME UNCHANGED <<queue, queue_head, queue_size, queue_capacity, task, finished>>,
           \A w \in Workers : wpc'[w] = "run" <=> wpc[w] = "run",
           \A t \in Tasks : ret'[t] = "-1" <=> ret[t] = "-1"
    PROVE  Content' = Content /\ TaskStatus' = TaskStatus
<1>1. Content' = Content /\ Queued' = Queued
  BY DEF Content, Queued
<1>2. Running' = Running
  BY DEF Running
<1> QED BY <1>1, <1>2 DEF TaskStatus

\* The initial state has no pool, no queue and only new tasks.
LEMMA RefineInit == Init => Promise!QInit
<1> SUFFICES ASSUME Init PROVE Promise!QInit
  OBVIOUS
<1>1. Queued = {} /\ Running = {} /\ finished = {} /\ queue_size = 0 /\ Phase = "none"
  BY DEF Init, Queued, Running, Phase
<1>2. Content = <<>>
  BY <1>1 DEF Content
<1>3. \A t \in Tasks : TaskStatus[t] = "new"
  BY <1>1 DEF Init, TaskStatus
<1>4. TaskStatus = [t \in Tasks |-> "new"]
  BY <1>3 DEF TaskStatus
<1> QED BY <1>1, <1>2, <1>4 DEF Promise!QInit, Init

\* threadpool_submit's enqueue is Accept.
LEMMA RefineEnqueue ==
    ASSUME Inv, ExactlyOnce, Inv', ExactlyOnce', NEW s \in Submitters, SubmitEnqueue(s)
    PROVE  Promise!Accept(Current(s))
<1>1. /\ Current(s) \in Tasks /\ ret[Current(s)] = "none"
      /\ ret' = [ret EXCEPT ![Current(s)] = "0"] /\ ret \in [Tasks -> {"none", "0", "-1", "undefined"}]
  <2>1. spc[s] = "lock" /\ ret' = [ret EXCEPT ![Current(s)] = "0"]
    BY DEF SubmitEnqueue, Enqueue
  <2> QED BY <2>1, PoolAssumption DEF Inv, TypeOK, SubmitInv, Current, Tasks
<1>2. Current(s) \notin Queued \cup Running \cup finished
  BY <1>1 DEF ExactlyOnce, Accepted
<1>3. /\ Phase = "open" /\ Phase' = "open" /\ queue_capacity' = queue_capacity
      /\ queue_size < queue_capacity /\ finished' = finished
  BY DEF SubmitEnqueue, Enqueue, Phase, Inv, TypeOK, args
<1>4. Queued' = Queued \cup {Current(s)}
  BY EnqueueContent DEF Queued
<1>5. Running' = Running
  BY WorkerSignal DEF SubmitEnqueue, Enqueue, Inv, Running
<1>6. TaskStatus[Current(s)] = "new"
  BY <1>1, <1>2, StatusOf
<1>7. \A t \in Tasks : TaskStatus'[t] = IF t = Current(s) THEN "queued" ELSE TaskStatus[t]
  BY <1>1, <1>2, <1>3, <1>4, <1>5, StatusOf, StatusOfNext
<1>8. TaskStatus' = [TaskStatus EXCEPT ![Current(s)] = "queued"]
  BY <1>7, StatusFcn
<1>9. Content' = Append(Content, Current(s))
  <2>1. Content \in Seq(Tasks) /\ Len(Content) = queue_size
    BY ContentSeq
  <2>2. Content' = [i \in 1..(queue_size + 1) |-> Content'[i]]
    BY EnqueueContent DEF Content
  <2> QED BY <1>1, <2>1, <2>2, EnqueueContent
<1> QED BY <1>3, <1>6, <1>8, <1>9, ContentSeq DEF Promise!Accept

\* worker_thread's dequeue is Start.
LEMMA RefineDequeue ==
    ASSUME Inv, ExactlyOnce, Inv', ExactlyOnce', NEW w \in Workers, WorkerDequeue(w)
    PROVE  Promise!Start
<1>1. /\ finished' = finished /\ ret' = ret /\ queue_capacity' = queue_capacity
      /\ wpc[w] = "lock" /\ wpc' = [wpc EXCEPT ![w] = "run"]
      /\ wpc \in [Workers -> WorkerPcs] /\ task \in [Workers -> Tasks \cup {NoTask}]
  BY DEF WorkerDequeue, Dequeue, Inv, TypeOK, args
<1>2. Phase \in {"open", "closed"} /\ Phase' = Phase
  BY DEF WorkerDequeue, Dequeue, Phase
<1>3. Content \in Seq(Tasks) /\ Len(Content) = queue_size /\ queue_size \in Nat \ {0}
  BY ContentSeq, DequeueContent
<1>4. Content[1] \in Tasks /\ Content # <<>> /\ Head(Content) = Content[1]
  BY <1>3
<1>5. Content' = Tail(Content)
  <2>1. Content' = [i \in 1..(queue_size - 1) |-> Content'[i]]
    BY DequeueContent DEF Content
  <2> QED BY <1>3, <2>1, DequeueContent
<1>6. Queued = Queued' \cup {Content[1]} /\ Content[1] \notin Queued'
  BY DequeueContent DEF Queued, ExactlyOnce
<1>7. Running' = Running \cup {Content[1]}
  BY <1>1, DequeueContent DEF Running
<1>8. Content[1] \in Accepted /\ Content[1] \notin finished
  BY <1>6 DEF ExactlyOnce
<1>9. \A t \in Tasks : TaskStatus'[t] = IF t = Content[1] THEN "running" ELSE TaskStatus[t]
  BY <1>1, <1>6, <1>7, <1>8, StatusOf, StatusOfNext DEF Accepted
<1>10. TaskStatus' = [TaskStatus EXCEPT ![Content[1]] = "running"]
  BY <1>4, <1>9, StatusFcn
<1> QED BY <1>1, <1>2, <1>4, <1>5, <1>10 DEF Promise!Start

\* The return of task.func is Finish.
LEMMA RefineRun ==
    ASSUME Inv, ExactlyOnce, Inv', ExactlyOnce', NEW w \in Workers, WorkerRun(w)
    PROVE  task[w] \in Tasks /\ Promise!Finish(task[w])
<1>1. /\ finished' = finished \cup {task[w]} /\ ret' = ret /\ task' = task
      /\ wpc[w] = "run" /\ wpc' = [wpc EXCEPT ![w] = "lock"]
      /\ wpc \in [Workers -> WorkerPcs]
      /\ UNCHANGED <<pool, shutdown, queue, queue_head, queue_size, queue_capacity>>
  BY DEF WorkerRun, Inv, TypeOK, ring, args, svars
<1>2. Content' = Content /\ Queued' = Queued
  BY <1>1 DEF Content, Queued
<1>3. Running = Running' \cup {task[w]} /\ task[w] \notin Running'
  BY <1>1 DEF Running, ExactlyOnce
<1>4. task[w] \in Accepted /\ task[w] \in Tasks
  BY <1>3 DEF ExactlyOnce, Accepted
<1>5. Phase \in {"open", "closed"} /\ Phase' = Phase
  BY <1>1 DEF Phase, Inv, WorkerInv
<1>6. task[w] \notin finished /\ TaskStatus[task[w]] = "running"
  BY <1>3, <1>4, StatusOf DEF ExactlyOnce, Accepted
<1>7. \A t \in Tasks : TaskStatus'[t] = IF t = task[w] THEN "done" ELSE TaskStatus[t]
  BY <1>1, <1>2, <1>3, <1>4, StatusOf, StatusOfNext DEF Accepted
<1>8. TaskStatus' = [TaskStatus EXCEPT ![task[w]] = "done"]
  BY <1>7, StatusFcn
<1> QED BY <1>1, <1>2, <1>4, <1>5, <1>6, <1>8 DEF Promise!Finish

\* A submit that finds shutdown set is Refuse.
LEMMA RefineRefused ==
    ASSUME Inv, ExactlyOnce, Inv', ExactlyOnce', NEW s \in Submitters, SubmitRefused(s)
    PROVE  Current(s) \in Tasks /\ Promise!Refuse(Current(s))
<1>1. /\ Current(s) \in Tasks /\ ret[Current(s)] = "none"
      /\ ret' = [ret EXCEPT ![Current(s)] = "-1"] /\ ret \in [Tasks -> {"none", "0", "-1", "undefined"}]
  <2>1. spc[s] = "lock" /\ ret' = [ret EXCEPT ![Current(s)] = "-1"]
    BY DEF SubmitRefused
  <2> QED BY <2>1, PoolAssumption DEF Inv, TypeOK, SubmitInv, Current, Tasks
<1>2. /\ pool = "live" /\ shutdown /\ UNCHANGED <<pool, shutdown, finished, wpc, task>>
      /\ UNCHANGED <<queue, queue_head, queue_size, queue_capacity>>
  BY DEF SubmitRefused, ring, args, wvars
<1>3. Content' = Content /\ Queued' = Queued /\ Running' = Running
  BY <1>2 DEF Content, Queued, Running
<1>4. Phase = "closed" /\ Phase' = "closed"
  BY <1>2 DEF Phase
<1>5. Current(s) \notin Queued \cup Running \cup finished
  BY <1>1 DEF ExactlyOnce, Accepted
<1>6. TaskStatus[Current(s)] = "new"
  BY <1>1, <1>5, StatusOf
<1>7. \A t \in Tasks : TaskStatus'[t] = IF t = Current(s) THEN "refused" ELSE TaskStatus[t]
  BY <1>1, <1>2, <1>3, StatusOf, StatusOfNext
<1>8. TaskStatus' = [TaskStatus EXCEPT ![Current(s)] = "refused"]
  BY <1>7, StatusFcn
<1> QED BY <1>1, <1>2, <1>3, <1>4, <1>6, <1>8 DEF Promise!Refuse

\* Joining the workers and freeing the pool is Release.
LEMMA RefineJoin ==
    ASSUME Inv, ExactlyOnce, Inv', ExactlyOnce', AbortJoin \/ DestroyJoin
    PROVE  Promise!Release
<1>1. /\ pool = "live" /\ shutdown /\ pool' = "freed" /\ queue_capacity' = queue_capacity
      /\ UNCHANGED <<queue, queue_head, queue_size, task, finished, ret, wpc>>
      /\ main \in {"abort", "join"}
  BY DEF AbortJoin, DestroyJoin, Inv, Lifecycle, ring, args, wvars, svars
<1>2. \A w \in Workers : wpc[w] \in {"none", "exited"}
  <2>1. spawned \in Nat /\ num_threads \in Nat /\ \A i \in 0..(spawned - 1) : wpc[i] = "exited"
    <3>1. spawned \in Nat /\ num_threads \in Nat /\ (main = "join" => spawned = num_threads)
      BY PoolAssumption DEF Inv, Lifecycle, TypeOK
    <3> QED BY <3>1 DEF AbortJoin, DestroyJoin
  <2> QED BY <2>1 DEF Inv, WorkerInv, Workers
<1>3. queue_size = 0
  <2>1. CASE main = "abort"
    BY <2>1 DEF Inv, Lifecycle
  <2>2. CASE main = "join"
    <3>1. 0 \in Workers /\ wpc[0] = "exited"
      BY <2>2, PoolAssumption DEF AbortJoin, DestroyJoin, Inv, Lifecycle, TypeOK, Workers
    <3> QED BY <3>1 DEF Inv, WorkerInv
  <2> QED BY <1>1, <2>1, <2>2
<1>4. Content = <<>> /\ Running = {}
  BY <1>2, <1>3 DEF Content, Running
<1>5. \A t \in Tasks : TaskStatus[t] # "running"
  BY <1>4, StatusOf
<1>6. Content' = Content /\ TaskStatus' = TaskStatus
  BY <1>1, StatusFrame
<1>7. Phase = "closed" /\ Phase' = "released"
  BY <1>1 DEF Phase
<1> QED BY <1>1, <1>4, <1>5, <1>6, <1>7 DEF Promise!Release

\* Every step of the pool is a step of the queue or leaves the queue alone.
LEMMA RefineNext ==
    Inv /\ ExactlyOnce /\ Inv' /\ ExactlyOnce' /\ [Next]_vars => [Promise!QNext]_(Promise!qvars)
<1> SUFFICES ASSUME Inv, ExactlyOnce, Inv', ExactlyOnce', [Next]_vars
             PROVE  Promise!QNext \/ UNCHANGED Promise!qvars
  OBVIOUS
<1>t. /\ wpc \in [Workers -> WorkerPcs] /\ ret \in [Tasks -> {"none", "0", "-1", "undefined"}]
  BY DEF Inv, TypeOK
<1> USE <1>t DEF args, ring, wvars, svars, mvars, Promise!qvars
<1>1. ASSUME NEW w \in Workers, WorkerWait(w) \/ WorkerExit(w) PROVE UNCHANGED Promise!qvars
  BY <1>1, StatusFrame DEF WorkerWait, WorkerExit, Phase
<1>2. ASSUME NEW s \in Submitters, SubmitCall(s) \/ SubmitWait(s) PROVE UNCHANGED Promise!qvars
  <2>1. /\ UNCHANGED <<queue, queue_head, queue_size, queue_capacity, task, finished, wpc, ret>>
        /\ UNCHANGED <<pool, shutdown>>
    BY <1>2 DEF SubmitCall, SubmitWait
  <2> QED BY <2>1, StatusFrame DEF Phase
<1>3. ASSUME NEW s \in Submitters, SubmitFreed(s) PROVE UNCHANGED Promise!qvars
  <2>1. spc[s] = "lock" /\ Current(s) \in Tasks /\ ret[Current(s)] = "none"
    BY <1>3, PoolAssumption DEF SubmitFreed, Inv, TypeOK, SubmitInv, Current, Tasks
  <2>2. \A t \in Tasks : ret'[t] = "-1" <=> ret[t] = "-1"
    BY <1>3, <2>1 DEF SubmitFreed
  <2> QED BY <1>3, <2>2, StatusFrame DEF SubmitFreed, Phase
<1>4. CASE CreateFails
  BY <1>4, StatusFrame DEF CreateFails, Phase
<1>5. CASE CreateInit
  <2>1. /\ queue_size = 0 /\ queue_size' = 0 /\ UNCHANGED <<wpc, task, ret, finished>>
        /\ pool = "null" /\ pool' = "live" /\ shutdown' = FALSE
        /\ \E c \in CapacityArgs : c > 0 /\ queue_capacity' = c
    BY <1>5 DEF CreateInit, Inv, Lifecycle
  <2>2. Content = <<>> /\ Content' = <<>> /\ Queued' = {} /\ Queued = {}
    BY <2>1 DEF Content, Queued
  <2>3. Running' = Running
    BY <2>1 DEF Running
  <2>4. TaskStatus' = TaskStatus
    BY <2>1, <2>2, <2>3 DEF TaskStatus
  <2>5. Phase = "none" /\ Phase' = "open"
    BY <2>1 DEF Phase
  <2> QED BY <2>1, <2>2, <2>4, <2>5 DEF Promise!QNext, Promise!Open
<1>6. CASE Spawn
  <2>1. spawned \in Workers /\ wpc[spawned] = "none"
    BY <1>6, PoolAssumption DEF Spawn, Inv, TypeOK, WorkerInv, Workers
  <2> QED BY <1>6, <2>1, StatusFrame DEF Spawn, Phase
<1>7. CASE SpawnFails \/ DestroyShutdown
  <2>1. \A w \in Workers : wpc'[w] = "run" <=> wpc[w] = "run"
    BY <1>7, WorkerBroadcast DEF SpawnFails, DestroyShutdown, Inv
  <2>2. Content' = Content /\ TaskStatus' = TaskStatus /\ queue_capacity' = queue_capacity
    BY <1>7, <2>1, StatusFrame DEF SpawnFails, DestroyShutdown
  <2>3. Phase = "open" /\ Phase' = "closed"
    BY <1>7 DEF SpawnFails, DestroyShutdown, Phase, Inv, Lifecycle
  <2> QED BY <2>2, <2>3 DEF Promise!QNext, Promise!Close
<1>8. CASE SpuriousWakeup
  BY <1>8, StatusFrame DEF SpuriousWakeup, Waiting, Phase
<1>9. CASE UNCHANGED vars
  BY <1>9, StatusFrame DEF vars, Phase
<1>10. ASSUME NEW s \in Submitters, SubmitEnqueue(s) PROVE Promise!QNext
  <2>1. spc[s] = "lock" /\ Current(s) \in Tasks
    BY <1>10, PoolAssumption DEF SubmitEnqueue, Enqueue, Inv, TypeOK, SubmitInv, Current, Tasks
  <2> QED BY <1>10, <2>1, RefineEnqueue DEF Promise!QNext
<1>11. ASSUME NEW s \in Submitters, SubmitRefused(s) PROVE Promise!QNext
  BY <1>11, RefineRefused DEF Promise!QNext
<1>12. ASSUME NEW w \in Workers, WorkerDequeue(w) PROVE Promise!QNext
  BY <1>12, RefineDequeue DEF Promise!QNext
<1>13. ASSUME NEW w \in Workers, WorkerRun(w) PROVE Promise!QNext
  BY <1>13, RefineRun DEF Promise!QNext
<1>14. CASE AbortJoin \/ DestroyJoin
  BY <1>14, RefineJoin DEF Promise!QNext
<1> QED
  BY <1>1, <1>2, <1>3, <1>4, <1>5, <1>6, <1>7, <1>8, <1>9, <1>10, <1>11, <1>12, <1>13, <1>14
     DEF Next, WorkerStep, SubmitStep, MainStep, Terminated

\* The pool implements the bounded first-in first-out queue: whatever the
\* interleaving, tasks start in the order in which submit accepted them, never
\* more than queue_capacity wait, a refused task never starts, and the pool is
\* released drained.
THEOREM QueueImplemented == Spec => ImplementsTaskQueue
<1>1. Spec => []Inv /\ []ExactlyOnce
  BY Invariance, AcceptedOnce
<1> QED BY <1>1, RefineInit, RefineNext, PTL DEF Spec, ImplementsTaskQueue, Promise!QSpec
=============================================================================
