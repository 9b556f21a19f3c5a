----------------------------- MODULE TaskQueue ------------------------------
(* What the thread pool promises its clients: a bounded first-in first-out   *)
(* queue of tasks that is opened, closed and released; an accepted task is   *)
(* started in the order of acceptance, runs once, and the queue is released  *)
(* only when it is drained.                                                  *)
EXTENDS Integers, Sequences

CONSTANTS Tasks, Capacities

VARIABLES phase,      \* "none" | "open" | "closed" | "released"
          capacity,
          fifo,       \* accepted tasks that no worker has started
          status      \* of each task

qvars == <<phase, capacity, fifo, status>>

Status == {"new", "queued", "running", "done", "refused"}

QInit == /\ phase = "none" /\ capacity = 0
         /\ fifo = <<>> /\ status = [t \in Tasks |-> "new"]

Open == /\ phase = "none"
        /\ \E c \in Capacities : c > 0 /\ capacity' = c
        /\ phase' = "open"
        /\ UNCHANGED <<fifo, status>>

Accept(t) == /\ phase = "open" /\ status[t] = "new"
             /\ Len(fifo) < capacity
             /\ fifo' = Append(fifo, t)
             /\ status' = [status EXCEPT ![t] = "queued"]
             /\ UNCHANGED <<phase, capacity>>

Refuse(t) == /\ phase = "closed" /\ status[t] = "new"
             /\ status' = [status EXCEPT ![t] = "refused"]
             /\ UNCHANGED <<phase, capacity, fifo>>

Start == /\ phase \in {"open", "closed"} /\ fifo # <<>>
         /\ fifo' = Tail(fifo)
         /\ status' = [status EXCEPT ![Head(fifo)] = "running"]
         /\ UNCHANGED <<phase, capacity>>

Finish(t) == /\ phase \in {"open", "closed"} /\ status[t] = "running"
             /\ status' = [status EXCEPT ![t] = "done"]
             /\ UNCHANGED <<phase, capacity, fifo>>

Close == /\ phase = "open" /\ phase' = "closed"
         /\ UNCHANGED <<capacity, fifo, status>>

Release == /\ phase = "closed" /\ fifo = <<>>
           /\ \A t \in Tasks : status[t] # "running"
           /\ phase' = "released"
           /\ UNCHANGED <<capacity, fifo, status>>

QNext == \/ Open \/ Start \/ Close \/ Release
         \/ \E t \in Tasks : Accept(t) \/ Refuse(t) \/ Finish(t)

QSpec == QInit /\ [][QNext]_qvars
=============================================================================
