----------------------------- MODULE XvSpinlock -----------------------------
(* Spin locks, interrupts and context switches (spinlock.c; sched, yield,    *)
(* sleep, wakeup and scheduler of proc.c; timer and device interrupts of     *)
(* trap.c): kernel threads of NPROC processes on the processors CPUs.        *)
(*                                                                           *)
(* A thread in the kernel takes Dev, a device's lock that an interrupt       *)
(* handler takes as well, and may sleep with it until the handler wakes it.  *)
(* A processor runs its scheduler, a thread, or an interrupt handler on top  *)
(* of either.  A step is a stretch of code in which no other processor can   *)
(* see a difference.                                                         *)
EXTENDS Integers, Sequences, FiniteSets

CONSTANTS CPUs, Threads, None

SpinAssumption == None \notin CPUs /\ None \notin Threads

Ptable == "ptable"
Dev == "dev"
Locks == {Ptable, Dev}

VARIABLES
    cpu,      \* per processor: proc, fl (FL_IF), ncli, intena, and the handlers on top (irq)
    owner,    \* lk->cpu while locked
    th,       \* per thread: pc, state and the intena that sched keeps on its stack
    sch,      \* per processor: pc of its scheduler
    panic

vars == <<cpu, owner, th, sch, panic>>

-----------------------------------------------------------------------------
(* spinlock.c, on the record of one processor *)

\* Mutant: interrupts stay as they are.
PushOnly(c) == [c EXCEPT !.intena = IF c.ncli = 0 THEN c.fl ELSE @, !.ncli = @ + 1]
pushcli(c) == [c EXCEPT !.fl = FALSE, !.intena = IF c.ncli = 0 THEN c.fl ELSE @, !.ncli = @ + 1]

\* Mutant: interrupts come back at the first popcli.
PopAtOnce(c) == [c EXCEPT !.ncli = @ - 1, !.fl = c.intena]
popcli(c) == [c EXCEPT !.ncli = @ - 1, !.fl = c.ncli = 1 /\ c.intena]

\* The xchg that succeeds.
xchg(k, lk) == owner[lk] = None /\ owner' = [owner EXCEPT ![lk] = k]
Holding(k, lk) == owner[lk] = k
BadRelease(k, lk) == owner[lk] # k \/ cpu[k].fl \/ cpu[k].ncli < 1

-----------------------------------------------------------------------------
(* What runs on processor k: an interrupt handler, a thread or the scheduler *)
Running(k) == IF cpu[k].irq # "none" THEN "irq" ELSE IF cpu[k].proc # None THEN "thread" ELSE "scheduler"
On(k, t) == Running(k) = "thread" /\ cpu[k].proc = t /\ ~panic

\* acquire(lk), first half and second half; pcs name the place in the code.
Enter(k, t, from, to, lk) ==
    /\ On(k, t) /\ th[t].pc = from
    /\ cpu' = [cpu EXCEPT ![k] = pushcli(@)]
    /\ panic' = Holding(k, lk)                             \* "acquire"
    /\ th' = [th EXCEPT ![t].pc = to] /\ UNCHANGED <<owner, sch>>
Spin(k, t, from, to, lk) ==
    /\ On(k, t) /\ th[t].pc = from /\ xchg(k, lk)
    /\ th' = [th EXCEPT ![t].pc = to] /\ UNCHANGED <<cpu, sch, panic>>
Release(k, t, from, to, lk) ==
    /\ On(k, t) /\ th[t].pc = from
    /\ panic' = BadRelease(k, lk)                          \* "release", "popcli"
    /\ owner' = [owner EXCEPT ![lk] = None]
    /\ cpu' = [cpu EXCEPT ![k] = popcli(@)]
    /\ th' = [th EXCEPT ![t].pc = to] /\ UNCHANGED sch

\* sched: its checks, then swtch to the scheduler; intena stays on the stack.
sched(k, t, from, to, state) ==
    /\ On(k, t) /\ th[t].pc = from
    /\ panic' = (~Holding(k, Ptable) \/ cpu[k].ncli # 1 \/ cpu[k].fl)
    /\ th' = [th EXCEPT ![t] = [@ EXCEPT !.pc = to, !.state = state, !.intena = cpu[k].intena]]
    /\ cpu' = [cpu EXCEPT ![k].proc = None]
    /\ UNCHANGED <<owner, sch>>

\* Back from swtch, perhaps on another processor.
\* Mutant: intena is left as this processor has it.
Inherit(c, t) == c
Restore(c, t) == [c EXCEPT !.intena = th[t].intena]
Resume(k, t, from, to) ==
    /\ On(k, t) /\ th[t].pc = from
    /\ cpu' = [cpu EXCEPT ![k] = Restore(@, t)]
    /\ th' = [th EXCEPT ![t].pc = to] /\ UNCHANGED <<owner, sch, panic>>

\* A system call that takes Dev and may sleep with it, and yield.
syscall(k, t) == \/ Enter(k, t, "run", "spinD", Dev) \/ Spin(k, t, "spinD", "inD", Dev)
                 \/ Release(k, t, "inD", "run", Dev)
sleep(k, t) == \/ Enter(k, t, "inD", "s_spinP", Ptable) \/ Spin(k, t, "s_spinP", "s_inP", Ptable)
               \/ Release(k, t, "s_inP", "s_sched", Dev) \/ sched(k, t, "s_sched", "s_back", "SLEEPING")
               \/ Resume(k, t, "s_back", "s_relP") \/ Release(k, t, "s_relP", "s_again", Ptable)
               \/ Enter(k, t, "s_again", "spinD", Dev)
\* yield, from the timer: in the interrupt, which is done for all else.
yield(k, t) == \/ Spin(k, t, "y_spinP", "y_inP", Ptable) \/ sched(k, t, "y_inP", "y_back", "RUNNABLE")
               \/ Resume(k, t, "y_back", "y_relP") \/ Release(k, t, "y_relP", "y_iret", Ptable)
\* iret turns interrupts on again.  From forkret it goes to the user, and a
\* timer may still come before it.
iret(k, t) == /\ On(k, t) /\ th[t].pc \in {"y_iret", "f_iret"}
              /\ cpu' = [cpu EXCEPT ![k].fl = TRUE]
              /\ th' = [th EXCEPT ![t].pc = IF @ = "f_iret" THEN "run" ELSE th[t].ret]
              /\ UNCHANGED <<owner, sch, panic>>

-----------------------------------------------------------------------------
(* Interrupts *)

\* The timer on a processor that runs a thread: the gate turns interrupts off,
\* and yield begins.
Timer(k, t) == /\ On(k, t) /\ cpu[k].fl
               /\ th' = [th EXCEPT ![t] = [@ EXCEPT !.pc = "y_spinP", !.ret = th[t].pc]]
               /\ cpu' = [cpu EXCEPT ![k] = pushcli([@ EXCEPT !.fl = FALSE])]
               /\ panic' = Holding(k, Ptable) /\ UNCHANGED <<owner, sch>>

\* A device's handler: takes Dev, wakes sleepers under Ptable, releases, iret.
\* What it interrupts stands still meanwhile.
Device(k) == /\ cpu[k].fl /\ cpu[k].irq = "none" /\ ~panic
             /\ cpu' = [cpu EXCEPT ![k] = [pushcli([@ EXCEPT !.fl = FALSE]) EXCEPT !.irq = "spinD"]]
             /\ panic' = Holding(k, Dev) /\ UNCHANGED <<owner, th, sch>>
IrqTakes(k) == /\ cpu[k].irq = "spinD" /\ ~panic /\ xchg(k, Dev)
               /\ cpu' = [cpu EXCEPT ![k] = [pushcli(@) EXCEPT !.irq = "spinP"]]
               /\ panic' = Holding(k, Ptable) /\ UNCHANGED <<th, sch>>
\* wakeup
IrqWakes(k) == /\ cpu[k].irq = "spinP" /\ ~panic /\ xchg(k, Ptable)
               /\ th' = [t \in Threads |-> IF th[t].state = "SLEEPING" THEN [th[t] EXCEPT !.state = "RUNNABLE"]
                                           ELSE th[t]]
               /\ cpu' = [cpu EXCEPT ![k].irq = "relP"] /\ UNCHANGED <<sch, panic>>
IrqReleases(k) ==
    /\ ~panic /\ UNCHANGED <<th, sch>>
    /\ \/ /\ cpu[k].irq = "relP" /\ panic' = BadRelease(k, Ptable)
          /\ owner' = [owner EXCEPT ![Ptable] = None]
          /\ cpu' = [cpu EXCEPT ![k] = [popcli(@) EXCEPT !.irq = "relD"]]
       \/ /\ cpu[k].irq = "relD" /\ panic' = BadRelease(k, Dev)
          /\ owner' = [owner EXCEPT ![Dev] = None]
          /\ cpu' = [cpu EXCEPT ![k] = [popcli(@) EXCEPT !.irq = "iret"]]
       \/ /\ cpu[k].irq = "iret" /\ UNCHANGED <<owner, panic>>
          /\ cpu' = [cpu EXCEPT ![k] = [@ EXCEPT !.irq = "none", !.fl = TRUE]]

-----------------------------------------------------------------------------
(* The scheduler of k *)
scheduler(k) ==
    /\ Running(k) = "scheduler" /\ ~panic
    /\ \/ /\ sch[k] = "sti" /\ sch' = [sch EXCEPT ![k] = "acquire"]
          /\ cpu' = [cpu EXCEPT ![k].fl = TRUE] /\ UNCHANGED <<owner, th, panic>>
       \/ /\ sch[k] = "acquire" /\ sch' = [sch EXCEPT ![k] = "spin"]
          /\ cpu' = [cpu EXCEPT ![k] = pushcli(@)] /\ panic' = Holding(k, Ptable)
          /\ UNCHANGED <<owner, th>>
       \/ /\ sch[k] = "spin" /\ xchg(k, Ptable) /\ sch' = [sch EXCEPT ![k] = "loop"]
          /\ UNCHANGED <<cpu, th, panic>>
       \/ /\ sch[k] = "loop" /\ UNCHANGED <<owner, sch, panic>>
          /\ \E t \in Threads : /\ th[t].state = "RUNNABLE"
                                /\ th' = [th EXCEPT ![t].state = "RUNNING"]
                                /\ cpu' = [cpu EXCEPT ![k].proc = t]
       \/ /\ sch[k] = "loop" /\ sch' = [sch EXCEPT ![k] = "sti"]
          /\ panic' = BadRelease(k, Ptable) /\ owner' = [owner EXCEPT ![Ptable] = None]
          /\ cpu' = [cpu EXCEPT ![k] = popcli(@)] /\ UNCHANGED th

\* A process starts in forkret, which releases Ptable, and returns to the user.
forkret(k, t) == Release(k, t, "forkret", "f_iret", Ptable)

Init == /\ cpu = [k \in CPUs |-> [proc |-> None, fl |-> FALSE, ncli |-> 0, intena |-> FALSE, irq |-> "none"]]
        /\ owner = [lk \in Locks |-> None]
        /\ th = [t \in Threads |-> [pc |-> "forkret", state |-> "RUNNABLE", intena |-> FALSE, ret |-> "run"]]
        /\ sch = [k \in CPUs |-> "sti"] /\ panic = FALSE

Next == \E k \in CPUs : \/ \E t \in Threads : \/ syscall(k, t) \/ sleep(k, t) \/ yield(k, t) \/ iret(k, t)
                                              \/ Timer(k, t) \/ forkret(k, t)
                        \/ Device(k) \/ IrqTakes(k) \/ IrqWakes(k) \/ IrqReleases(k) \/ scheduler(k)
Spec == Init /\ [][Next]_vars

-----------------------------------------------------------------------------
\* Locks that a processor holds or waits for inside acquire.
Waits(k) == \/ cpu[k].irq \in {"spinD", "spinP"}
            \/ Running(k) = "scheduler" /\ sch[k] = "spin"
            \/ Running(k) = "thread" /\ th[cpu[k].proc].pc \in {"spinD", "s_spinP", "y_spinP"}

(* No processor holds a lock with interrupts on, so no handler spins on a    *)
(* lock of what it interrupted; ncli counts the locks held and waited for;   *)
(* none of the panics of acquire, release, popcli and sched is reached; and  *)
(* a thread outside of all locks runs with interrupts on, although it may    *)
(* have slept on one processor and woken on another (spinlock.c:24-68,       *)
(* proc.c:381-397).                                                          *)
InterruptsRight ==
    /\ ~panic
    /\ \A k \in CPUs :
         LET held == {lk \in Locks : owner[lk] = k} IN
         /\ held # {} => ~cpu[k].fl
         /\ cpu[k].ncli = Cardinality(held) + (IF Waits(k) THEN 1 ELSE 0)
         /\ Running(k) = "thread" /\ th[cpu[k].proc].pc \in {"run", "s_again"} => cpu[k].fl
=============================================================================
