----------------------------- MODULE ThreadPool -----------------------------
(* The thread pool of solution/threadpool.c: one mutex, two condition        *)
(* variables, a circular buffer of tasks, num_threads workers.               *)
(*                                                                           *)
(* Threads: the creator (threadpool_create, later threadpool_destroy), the   *)
(* workers (worker_thread) and the submitters (threadpool_submit).  All      *)
(* shared fields are only touched with pool->lock held, so a critical        *)
(* section (from pthread_mutex_lock, or from the return of                   *)
(* pthread_cond_wait, up to the next wait or unlock) is one action.  A       *)
(* thread at "lock" still has to get the mutex; one at "wait" is in the wait *)
(* set of its condition variable (workers: not_empty, submitters: not_full). *)
EXTENDS Integers, Sequences, FiniteSets

CONSTANTS Submitters,     \* client threads that call threadpool_submit
          MaxSubmits,     \* bound: calls of threadpool_submit per submitter
          MaxThreads,     \* bound: largest num_threads passed to create
          ThreadArgs,     \* values of num_threads a client may pass
          CapacityArgs,   \* values of queue_capacity a client may pass
          NoTask          \* an uninitialised slot or local

WorkerPcs == {"none", "lock", "wait", "run", "exited"}
SubmitPcs == {"idle", "lock", "wait", "stuck"}

Tasks == Submitters \X (1..MaxSubmits)
Workers == 0..(MaxThreads - 1)        \* indices of pool->threads

ASSUME PoolAssumption ==
    /\ MaxSubmits \in Nat
    /\ MaxThreads \in Nat
    /\ ThreadArgs \subseteq Int
    /\ \A n \in ThreadArgs : n <= MaxThreads
    /\ CapacityArgs \subseteq Int
    /\ NoTask \notin Tasks
    /\ IsFiniteSet(Submitters)

VARIABLES
    pool,             \* "null" | "live" | "freed": the heap block of threadpool_t
    num_threads, queue_capacity, shutdown,
    queue, queue_head, queue_tail, queue_size,
    wpc, task,        \* worker_thread: program counter and its local task
    spc, calls, ret,  \* threadpool_submit: program counter, calls made, results
    main, spawned,    \* create/destroy: program counter, loop index i
    finished          \* history: the tasks whose func has returned

args  == <<num_threads, queue_capacity>>
ring  == <<queue, queue_head, queue_tail, queue_size>>
wvars == <<wpc, task>>
svars == <<spc, calls, ret>>
mvars == <<main, spawned>>
vars  == <<pool, args, shutdown, ring, wvars, svars, mvars, finished>>

-----------------------------------------------------------------------------
(* POSIX condition variables (external). *)

Waiting(pc) == {x \in DOMAIN pc : pc[x] = "wait"}

\* pthread_cond_signal: the outcomes of waking one waiter, if there is one.
Signal(pc) == IF Waiting(pc) = {} THEN {pc}
              ELSE {[pc EXCEPT ![x] = "lock"] : x \in Waiting(pc)}

\* pthread_cond_broadcast.
Broadcast(pc) == [x \in DOMAIN pc |-> IF pc[x] = "wait" THEN "lock" ELSE pc[x]]

\* A wait may return without a signal.
SpuriousWakeup ==
    /\ \/ /\ \E w \in Waiting(wpc) : wpc' = [wpc EXCEPT ![w] = "lock"]
          /\ UNCHANGED spc
       \/ /\ \E s \in Waiting(spc) : spc' = [spc EXCEPT ![s] = "lock"]
          /\ UNCHANGED wpc
    /\ UNCHANGED <<pool, args, shutdown, ring, task, calls, ret, mvars, finished>>

-----------------------------------------------------------------------------
(* worker_thread *)

WorkerWait(w) ==
    /\ wpc[w] = "lock" /\ pool = "live"
    /\ queue_size = 0 /\ ~shutdown
    /\ wpc' = [wpc EXCEPT ![w] = "wait"]
    /\ UNCHANGED <<pool, args, shutdown, ring, task, svars, mvars, finished>>

\* Mutant: leaves on shutdown with tasks still queued.
WorkerExitUndrained(w) ==
    /\ wpc[w] = "lock" /\ pool = "live" /\ shutdown
    /\ wpc' = [wpc EXCEPT ![w] = "exited"]
    /\ UNCHANGED <<pool, args, shutdown, ring, task, svars, mvars, finished>>

WorkerExit(w) ==
    /\ wpc[w] = "lock" /\ pool = "live"
    /\ queue_size = 0 /\ shutdown
    /\ wpc' = [wpc EXCEPT ![w] = "exited"]
    /\ UNCHANGED <<pool, args, shutdown, ring, task, svars, mvars, finished>>

Dequeue(w) ==
    /\ wpc[w] = "lock" /\ pool = "live" /\ queue_size # 0
    /\ task' = [task EXCEPT ![w] = queue[queue_head]]
    /\ queue_head' = (queue_head + 1) % queue_capacity
    /\ queue_size' = queue_size - 1
    /\ wpc' = [wpc EXCEPT ![w] = "run"]
    /\ UNCHANGED <<pool, args, shutdown, queue, queue_tail, calls, ret, mvars,
                   finished>>

\* Mutant: no pthread_cond_signal(&pool->not_full).
WorkerDequeueSilent(w) == Dequeue(w) /\ UNCHANGED spc

WorkerDequeue(w) == Dequeue(w) /\ spc' \in Signal(spc)

\* task.func(task.arg) runs without the lock and returns.
WorkerRun(w) ==
    /\ wpc[w] = "run"
    /\ finished' = finished \cup {task[w]}
    /\ wpc' = [wpc EXCEPT ![w] = "lock"]
    /\ UNCHANGED <<pool, args, shutdown, ring, task, svars, mvars>>

WorkerStep(w) == WorkerWait(w) \/ WorkerExit(w) \/ WorkerDequeue(w) \/ WorkerRun(w)

-----------------------------------------------------------------------------
(* threadpool_submit *)

\* The task of the call s is in.
Current(s) == <<s, calls[s]>>

\* Clients start calls only between create's return and the call of destroy.
SubmitCall(s) ==
    /\ main = "ready" /\ spc[s] = "idle" /\ calls[s] < MaxSubmits
    /\ spc' = [spc EXCEPT ![s] = "lock"]
    /\ calls' = [calls EXCEPT ![s] = @ + 1]
    /\ UNCHANGED <<pool, args, shutdown, ring, wvars, ret, mvars, finished>>

SubmitWait(s) ==
    /\ spc[s] = "lock" /\ pool = "live"
    /\ queue_size = queue_capacity /\ ~shutdown
    /\ spc' = [spc EXCEPT ![s] = "wait"]
    /\ UNCHANGED <<pool, args, shutdown, ring, wvars, calls, ret, mvars, finished>>

SubmitRefused(s) ==
    /\ spc[s] = "lock" /\ pool = "live"
    /\ shutdown
    /\ ret' = [ret EXCEPT ![Current(s)] = "-1"]
    /\ spc' = [spc EXCEPT ![s] = "idle"]
    /\ UNCHANGED <<pool, args, shutdown, ring, wvars, calls, mvars, finished>>

Enqueue(s) ==
    /\ spc[s] = "lock" /\ pool = "live" /\ ~shutdown
    /\ queue' = [queue EXCEPT ![queue_tail] = Current(s)]
    /\ queue_tail' = (queue_tail + 1) % queue_capacity
    /\ queue_size' = queue_size + 1
    /\ wpc' \in Signal(wpc)
    /\ ret' = [ret EXCEPT ![Current(s)] = "0"]
    /\ spc' = [spc EXCEPT ![s] = "idle"]
    /\ UNCHANGED <<pool, args, shutdown, queue_head, task, calls, mvars, finished>>

\* Mutant: if instead of while round the wait, the queue may be full again.
SubmitEnqueueUnchecked(s) == Enqueue(s)

SubmitEnqueue(s) == queue_size # queue_capacity /\ Enqueue(s)

\* The mutex and the fields are read from freed memory: the call returns
\* anything, or never returns.
SubmitFreed(s) ==
    /\ spc[s] = "lock" /\ pool = "freed"
    /\ ret' = [ret EXCEPT ![Current(s)] = "undefined"]
    /\ \E pc \in {"idle", "stuck"} : spc' = [spc EXCEPT ![s] = pc]
    /\ UNCHANGED <<pool, args, shutdown, ring, wvars, calls, mvars, finished>>

SubmitStep(s) ==
    SubmitWait(s) \/ SubmitRefused(s) \/ SubmitEnqueue(s) \/ SubmitFreed(s)

-----------------------------------------------------------------------------
(* threadpool_create and threadpool_destroy *)

\* Rejected arguments, or malloc, pthread_mutex_init or pthread_cond_init
\* failed: whatever was allocated is released and NULL returned.
CreateFails ==
    /\ main = "create"
    /\ main' = "failed"
    /\ UNCHANGED <<pool, args, shutdown, ring, wvars, svars, spawned, finished>>

CreateInit ==
    /\ main = "create"
    /\ \E n \in ThreadArgs, c \in CapacityArgs :
         /\ n > 0 /\ c > 0
         /\ num_threads' = n
         /\ queue_capacity' = c
         /\ queue' = [i \in 0..(c - 1) |-> NoTask]
    /\ pool' = "live"
    /\ queue_size' = 0 /\ queue_head' = 0 /\ queue_tail' = 0 /\ shutdown' = FALSE
    /\ main' = "spawn"
    /\ UNCHANGED <<wvars, svars, spawned, finished>>

Spawn ==
    /\ main = "spawn" /\ spawned < num_threads
    /\ wpc' = [wpc EXCEPT ![spawned] = "lock"]
    /\ spawned' = spawned + 1
    /\ main' = IF spawned' = num_threads THEN "ready" ELSE "spawn"
    /\ UNCHANGED <<pool, args, shutdown, ring, task, svars, finished>>

\* pthread_create failed: tell the workers already running to stop.
SpawnFails ==
    /\ main = "spawn" /\ spawned < num_threads
    /\ shutdown' = TRUE
    /\ wpc' = Broadcast(wpc)
    /\ main' = "abort"
    /\ UNCHANGED <<pool, args, ring, task, svars, spawned, finished>>

\* Join the workers spawned so far, destroy the mutex and free everything.
AbortJoin ==
    /\ main = "abort"
    /\ \A j \in 0..(spawned - 1) : wpc[j] = "exited"
    /\ pool' = "freed"
    /\ main' = "failed"
    /\ UNCHANGED <<args, shutdown, ring, wvars, svars, spawned, finished>>

\* Mutant: no broadcasts.
DestroyShutdownSilent ==
    /\ main = "ready" /\ shutdown' = TRUE /\ main' = "join"
    /\ UNCHANGED <<pool, args, ring, wvars, svars, spawned, finished>>

DestroyShutdown ==
    /\ main = "ready"
    /\ shutdown' = TRUE
    /\ wpc' = Broadcast(wpc)
    /\ spc' = Broadcast(spc)
    /\ main' = "join"
    /\ UNCHANGED <<pool, args, ring, task, calls, ret, spawned, finished>>

DestroyJoin ==
    /\ main = "join"
    /\ \A i \in 0..(num_threads - 1) : wpc[i] = "exited"
    /\ pool' = "freed"
    /\ main' = "destroyed"
    /\ UNCHANGED <<args, shutdown, ring, wvars, svars, spawned, finished>>

MainStep == CreateInit \/ Spawn \/ SpawnFails \/ AbortJoin \/ DestroyJoin

-----------------------------------------------------------------------------
Init ==
    /\ pool = "null"
    /\ num_threads = 0 /\ queue_capacity = 0 /\ shutdown = FALSE
    /\ queue = [i \in {} |-> NoTask]
    /\ queue_head = 0 /\ queue_tail = 0 /\ queue_size = 0
    /\ wpc = [w \in Workers |-> "none"]
    /\ task = [w \in Workers |-> NoTask]
    /\ spc = [s \in Submitters |-> "idle"]
    /\ calls = [s \in Submitters |-> 0]
    /\ ret = [t \in Tasks |-> "none"]
    /\ main = "create" /\ spawned = 0
    /\ finished = {}

\* The program is over: create failed or destroy returned, no call is under way.
Terminated ==
    /\ main \in {"failed", "destroyed"}
    /\ \A s \in Submitters : spc[s] \in {"idle", "stuck"}
    /\ UNCHANGED vars

Next ==
    \/ \E w \in Workers : WorkerStep(w)
    \/ \E s \in Submitters : SubmitCall(s) \/ SubmitStep(s)
    \/ CreateFails \/ MainStep \/ DestroyShutdown
    \/ SpuriousWakeup
    \/ Terminated

Spec == Init /\ [][Next]_vars

\* Every runnable thread is scheduled and tasks return.  Nothing obliges the
\* client to submit or to destroy, nor a wait to return spuriously.
Fairness ==
    /\ \A w \in Workers : WF_vars(WorkerStep(w))
    /\ \A s \in Submitters : WF_vars(SubmitStep(s))
    /\ WF_vars(MainStep)

FairSpec == Spec /\ Fairness

-----------------------------------------------------------------------------
(* Properties *)

\* The tasks in the buffer, oldest first.
Content == [i \in 1..queue_size |-> queue[(queue_head + i - 1) % queue_capacity]]

Queued  == {Content[i] : i \in 1..queue_size}
Running == {task[w] : w \in {x \in Workers : wpc[x] = "run"}}
Accepted == {t \in Tasks : ret[t] = "0"}

\* Every variable keeps its type: threadpool_t's fields, the threads' program
\* counters and locals.  Head and tail stay inside the ring and the fill level
\* within its capacity, whoever wins the race for a slot.
TypeOK ==
    /\ pool \in {"null", "live", "freed"}
    /\ num_threads \in 0..MaxThreads /\ queue_capacity \in Nat
    /\ shutdown \in BOOLEAN
    /\ queue \in [0..(queue_capacity - 1) -> Tasks \cup {NoTask}]
    /\ queue_head \in Nat /\ queue_tail \in Nat
    /\ pool # "null" => queue_head < queue_capacity /\ queue_tail < queue_capacity
    /\ queue_size \in 0..queue_capacity
    /\ wpc \in [Workers -> WorkerPcs]
    /\ task \in [Workers -> Tasks \cup {NoTask}]
    /\ spc \in [Submitters -> SubmitPcs]
    /\ calls \in [Submitters -> 0..MaxSubmits]
    /\ ret \in [Tasks -> {"none", "0", "-1", "undefined"}]
    /\ main \in {"create", "failed", "spawn", "abort", "ready", "join", "destroyed"}
    /\ spawned \in 0..MaxThreads
    /\ finished \subseteq Tasks \cup {NoTask}

\* Exactly once: a task whose submit returned 0 is in exactly one place (one
\* slot between head and tail, one worker's local, or finished), and nothing
\* else is ever dequeued or run; an overwritten or skipped slot of the
\* circular buffer, or one read twice, breaks it.
ExactlyOnce ==
    /\ Queued \cup Running \cup finished = Accepted
    /\ \A i, j \in 1..queue_size : Content[i] = Content[j] => i = j
    /\ \A v, w \in Workers :
         wpc[v] = "run" /\ wpc[w] = "run" /\ task[v] = task[w] => v = w
    /\ Queued \cap Running = {}
    /\ (Queued \cup Running) \cap finished = {}

\* When destroy (or create's error path) frees the pool, no worker can touch
\* it any more and every accepted task has run: nothing is dropped.
DrainedBeforeFree ==
    pool = "freed" =>
        /\ \A w \in Workers : wpc[w] \in {"none", "exited"}
        /\ Accepted = finished

\* No lost wakeup: while a worker sleeps on not_empty the workers on their way
\* to the lock are enough for the queued tasks; while a submitter sleeps on
\* not_full the submitters on their way are enough for the free slots; and
\* nobody sleeps once shutdown is set.  This is what makes one
\* pthread_cond_signal per enqueue and per dequeue sufficient.
Awake(pc) == {x \in DOMAIN pc : pc[x] = "lock"}
NoLostWakeup ==
    /\ Waiting(wpc) # {} => queue_size <= Cardinality(Awake(wpc)) /\ ~shutdown
    /\ Waiting(spc) # {} =>
         queue_capacity - queue_size <= Cardinality(Awake(spc)) /\ ~shutdown

\* The pool as TaskQueue sees it.
Phase == CASE pool = "null" -> "none"
           [] pool = "live" -> IF shutdown THEN "closed" ELSE "open"
           [] pool = "freed" -> "released"
TaskStatus == [t \in Tasks |->
    CASE ret[t] = "-1"  -> "refused"
      [] t \in finished -> "done"
      [] t \in Running  -> "running"
      [] t \in Queued   -> "queued"
      [] OTHER          -> "new"]

Promise == INSTANCE TaskQueue WITH
    Capacities <- CapacityArgs, capacity <- queue_capacity,
    phase <- Phase, fifo <- Content, status <- TaskStatus

\* The circular buffer, the two condition variables and the shutdown protocol
\* implement the bounded FIFO queue: tasks start in the order in which submit
\* accepted them, never more than queue_capacity wait, a refused task never
\* starts, and the pool is released drained.
ImplementsTaskQueue == Promise!QSpec

\* Every call gets its due.  A task accepted by submit eventually runs to
\* completion; a call of submit returns before the pool is freed, though the
\* queue be full when it is made, unless destroy frees the pool under it (what
\* becomes of it then is BlockedAnswered's matter); destroy, and create when
\* pthread_create fails, return: every worker leaves its wait, drains the queue
\* and is joined.
CallsReturn ==
    /\ \A t \in Tasks : (ret[t] = "0") ~> (t \in finished)
    /\ \A s \in Submitters : (spc[s] \in {"lock", "wait"}) ~> (spc[s] = "idle" \/ pool = "freed")
    /\ (main \in {"join", "abort"}) ~> (main \in {"destroyed", "failed"})

\* A submitter that blocks on a full queue is answered: by 0 when a worker has
\* freed a slot, by -1 when threadpool_destroy wakes it (Instructions.md:71-74).
\* The code does not keep this: destroy waits for the workers alone and frees
\* the mutex that the woken submitter has yet to take (threadpool.c:154-164).
BlockedAnswered ==
    \A s \in Submitters, i \in 1..MaxSubmits :
        (spc[s] = "wait" /\ calls[s] = i) ~> (ret[<<s, i>>] \in {"0", "-1"})
=============================================================================
