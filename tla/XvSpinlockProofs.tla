-------------------------- MODULE XvSpinlockProofs --------------------------
(* Proofs about XvSpinlock for any number of processors and threads.         *)
EXTENDS XvSpinlock, FiniteSetTheorems, TLAPS

-----------------------------------------------------------------------------
(* The inductive invariant. *)

IrqPcs == {"none", "spinD", "spinP", "relP", "relD", "iret"}
SchPcs == {"sti", "acquire", "spin", "loop"}
ThreadPcs == {"forkret", "f_iret", "run", "spinD", "inD", "s_spinP", "s_inP", "s_sched", "s_back",
              "s_relP", "s_again", "y_spinP", "y_inP", "y_back", "y_relP", "y_iret"}

CpuRec == [proc : Threads \cup {None}, fl : BOOLEAN, ncli : Nat, intena : BOOLEAN, irq : IrqPcs]
ThreadRec == [pc : ThreadPcs, state : {"RUNNABLE", "RUNNING", "SLEEPING"},
              intena : BOOLEAN, ret : {"run", "s_again", "f_iret"}]

\* Every variable keeps its type, and no panic is reached.
TypeOK ==
    /\ cpu \in [CPUs -> CpuRec]
    /\ owner \in [Locks -> CPUs \cup {None}]
    /\ th \in [Threads -> ThreadRec]
    /\ sch \in [CPUs -> SchPcs]
    /\ panic = FALSE

\* Where the code that runs on k is: in a handler, a thread or the scheduler.
AtIrq(k, S) == cpu[k].irq \in S
AtThread(k, S) == cpu[k].irq = "none" /\ cpu[k].proc # None /\ th[cpu[k].proc].pc \in S
AtSched(k, S) == cpu[k].irq = "none" /\ cpu[k].proc = None /\ sch[k] \in S

\* The places at which k holds a lock.
InDev(k) == AtIrq(k, {"spinP", "relP", "relD"}) \/ AtThread(k, {"inD", "s_spinP", "s_inP"})
InPtable(k) ==
    \/ AtIrq(k, {"relP"})
    \/ AtThread(k, {"s_inP", "s_sched", "s_back", "s_relP", "y_inP", "y_back", "y_relP", "forkret"})
    \/ AtSched(k, {"loop"})

\* The places with ncli = 1 and with ncli = 2.
Once(k) ==
    \/ AtIrq(k, {"spinD", "relD"})
    \/ AtThread(k, {"spinD", "inD", "s_sched", "s_back", "s_relP", "y_spinP", "y_inP", "y_back",
                    "y_relP", "forkret"})
    \/ AtSched(k, {"spin", "loop"})
Twice(k) == AtIrq(k, {"spinP", "relP"}) \/ AtThread(k, {"s_spinP", "s_inP"})

\* What holds on processor k, wherever its code is: who owns the locks, ncli,
\* and FL_IF; intena at the places where the code still relies on it; and what
\* an interrupt handler can have interrupted.
Local(k) ==
    /\ owner[Dev] = k <=> InDev(k)
    /\ owner[Ptable] = k <=> InPtable(k)
    /\ cpu[k].ncli = IF Twice(k) THEN 2 ELSE IF Once(k) THEN 1 ELSE 0
    /\ cpu[k].fl => cpu[k].ncli = 0 /\ ~AtIrq(k, {"iret"}) /\ ~AtThread(k, {"y_iret"})
    /\ AtThread(k, {"run", "s_again"}) \/ AtSched(k, {"acquire"}) => cpu[k].fl
    /\ AtThread(k, {"spinD", "inD", "s_spinP", "s_inP", "s_sched", "s_relP"}) => cpu[k].intena
    /\ AtThread(k, {"y_spinP", "y_inP", "y_relP"}) \/ cpu[k].irq \in {"spinD", "spinP", "relP", "relD"}
         => ~cpu[k].intena
    /\ cpu[k].irq # "none" =>
         IF cpu[k].proc # None THEN th[cpu[k].proc].pc \in {"run", "s_again", "f_iret"}
         ELSE sch[k] \in {"sti", "acquire"}
    /\ cpu[k].proc # None => sch[k] = "loop" /\ th[cpu[k].proc].state = "RUNNING"

\* A thread runs on one processor at most; one that runs nowhere is in swtch or
\* has not started, and keeps on its stack the intena of the code it returns to.
OneCpu == \A j, k \in CPUs : cpu[j].proc = cpu[k].proc /\ cpu[j].proc # None => j = k
Parked(t) ==
    /\ th[t].state # "RUNNING" => th[t].pc \in {"forkret", "s_back", "y_back"}
    /\ th[t].pc = "s_back" => th[t].intena
    /\ th[t].pc = "y_back" => ~th[t].intena

Inv == /\ TypeOK /\ OneCpu
       /\ \A k \in CPUs : Local(k)
       /\ \A t \in Threads : Parked(t)

-----------------------------------------------------------------------------
(* A step of one processor leaves the others alone. *)

\* What a processor relies on is its own record, its scheduler, its thread and
\* which locks are its own.
LEMMA Others ==
    ASSUME NEW j \in CPUs, Local(j), cpu'[j] = cpu[j], sch'[j] = sch[j],
           \A lk \in Locks : owner'[lk] = j <=> owner[lk] = j,
           cpu[j].proc # None => /\ th'[cpu[j].proc].pc = th[cpu[j].proc].pc
                                 /\ th'[cpu[j].proc].state = th[cpu[j].proc].state
    PROVE  Local(j)'
BY DEF Local, InDev, InPtable, Once, Twice, AtIrq, AtThread, AtSched, Locks, Dev, Ptable

\* A step of the thread t that runs on k keeps the invariant if it does so for
\* k and t.
LEMMA ThreadStep ==
    ASSUME SpinAssumption, Inv, NEW k \in CPUs, NEW t \in Threads, cpu[k].proc = t,
           NEW c \in CpuRec, NEW r \in ThreadRec, c.proc \in {t, None},
           cpu' = [cpu EXCEPT ![k] = c], th' = [th EXCEPT ![t] = r], sch' = sch,
           owner' \in [Locks -> CPUs \cup {None}], panic' = FALSE,
           \A lk \in Locks : owner'[lk] # owner[lk] => owner[lk] \in {k, None} /\ owner'[lk] \in {k, None},
           Local(k)', Parked(t)'
    PROVE  Inv'
<1>1. TypeOK'
  BY DEF Inv, TypeOK, CpuRec, ThreadRec
<1>2. OneCpu'
  BY DEF Inv, TypeOK, OneCpu
<1>3. ASSUME NEW j \in CPUs PROVE Local(j)'
  <2>1. CASE j = k
    BY <2>1
  <2>2. CASE j # k
    <3>1. cpu[j].proc # t
      BY <2>2 DEF Inv, OneCpu, SpinAssumption
    <3>2. cpu'[j] = cpu[j] /\ \A lk \in Locks : owner'[lk] = j <=> owner[lk] = j
      BY <2>2 DEF Inv, TypeOK, SpinAssumption
    <3>3. cpu[j].proc # None => th'[cpu[j].proc] = th[cpu[j].proc]
      BY <3>1 DEF Inv, TypeOK
    <3> QED BY <3>2, <3>3, Others DEF Inv
  <2> QED BY <2>1, <2>2
<1>4. ASSUME NEW u \in Threads PROVE Parked(u)'
  BY DEF Inv, TypeOK, Parked
<1> QED BY <1>1, <1>2, <1>3, <1>4 DEF Inv

\* What pushcli and popcli do to a processor's record.
LEMMA Pushcli ==
    ASSUME NEW c \in CpuRec
    PROVE  /\ pushcli(c) \in CpuRec /\ pushcli(c).ncli = c.ncli + 1 /\ ~pushcli(c).fl
           /\ pushcli(c).intena = IF c.ncli = 0 THEN c.fl ELSE c.intena
           /\ pushcli(c).proc = c.proc /\ pushcli(c).irq = c.irq
<1> DEFINE i == IF c.ncli = 0 THEN c.fl ELSE c.intena
           n == c.ncli + 1
<1>1. i \in BOOLEAN /\ n \in Nat
  BY DEF CpuRec
<1>2. pushcli(c) = [c EXCEPT !.fl = FALSE, !.intena = i, !.ncli = n]
  BY DEF pushcli
<1> HIDE DEF i, n
<1>3. pushcli(c) \in CpuRec /\ pushcli(c).ncli = n /\ ~pushcli(c).fl /\ pushcli(c).intena = i
  BY <1>1, <1>2 DEF CpuRec
<1>4. pushcli(c).proc = c.proc /\ pushcli(c).irq = c.irq
  BY <1>1, <1>2 DEF CpuRec
<1> QED BY <1>3, <1>4 DEF i, n

\* popcli takes one off ncli and, with the last, puts the saved interrupt flag
\* back.
LEMMA Popcli ==
    ASSUME NEW c \in CpuRec, c.ncli >= 1
    PROVE  /\ popcli(c) \in CpuRec /\ popcli(c).ncli = c.ncli - 1 /\ popcli(c).intena = c.intena
           /\ popcli(c).fl <=> (c.ncli = 1 /\ c.intena)
           /\ popcli(c).proc = c.proc /\ popcli(c).irq = c.irq
<1> DEFINE f == c.ncli = 1 /\ c.intena
           n == c.ncli - 1
<1>1. f \in BOOLEAN /\ n \in Nat
  BY DEF CpuRec
<1>2. popcli(c) = [c EXCEPT !.ncli = n, !.fl = f]
  BY DEF popcli
<1> HIDE DEF f, n
<1>3. popcli(c) \in CpuRec /\ popcli(c).ncli = n /\ popcli(c).fl = f /\ popcli(c).intena = c.intena
  BY <1>1, <1>2 DEF CpuRec
<1>4. popcli(c).proc = c.proc /\ popcli(c).irq = c.irq
  BY <1>1, <1>2 DEF CpuRec
<1> QED BY <1>3, <1>4 DEF f, n

\* A thread's next place in the code.
LEMMA NextPc ==
    ASSUME NEW r \in ThreadRec, NEW pc \in ThreadPcs
    PROVE  /\ [r EXCEPT !.pc = pc] \in ThreadRec /\ [r EXCEPT !.pc = pc].pc = pc
           /\ [r EXCEPT !.pc = pc].state = r.state /\ [r EXCEPT !.pc = pc].intena = r.intena
           /\ [r EXCEPT !.pc = pc].ret = r.ret
BY DEF ThreadRec

-----------------------------------------------------------------------------
(* The steps of a thread. *)

\* What a processor that runs t knows of itself.
LEMMA OnFacts ==
    ASSUME SpinAssumption, Inv, NEW k \in CPUs, NEW t \in Threads, On(k, t)
    PROVE  /\ cpu[k] \in CpuRec /\ th[t] \in ThreadRec /\ cpu[k].irq = "none" /\ cpu[k].proc = t
           /\ t # None /\ k # None /\ Local(k) /\ Parked(t) /\ th[t].state = "RUNNING" /\ sch[k] = "loop"
           /\ \A S : AtThread(k, S) <=> th[t].pc \in S
           /\ \A S : ~AtSched(k, S)
           /\ \A S : AtIrq(k, S) <=> "none" \in S
<1>1. cpu[k].irq = "none" /\ cpu[k].proc = t /\ t # None /\ k # None
  BY DEF On, Running, SpinAssumption
<1> QED BY <1>1 DEF Inv, TypeOK, CpuRec, ThreadRec, AtThread, AtSched, AtIrq, Local

\* The same after a step with which t keeps running.
LEMMA OnNext ==
    ASSUME NEW k, NEW t, cpu'[k].irq = "none", cpu'[k].proc = t, t # None
    PROVE  /\ \A S : AtThread(k, S)' <=> th'[t].pc \in S
           /\ \A S : ~AtSched(k, S)'
           /\ \A S : AtIrq(k, S)' <=> "none" \in S
BY DEF AtThread, AtSched, AtIrq

\* acquire, first half: interrupts go off and the lock is not k's own.
LEMMA EnterStep ==
    ASSUME SpinAssumption, Inv, NEW k \in CPUs, NEW t \in Threads, NEW from, NEW to, NEW lk,
           Enter(k, t, from, to, lk),
           \/ from \in {"run", "s_again"} /\ to = "spinD" /\ lk = Dev
           \/ from = "inD" /\ to = "s_spinP" /\ lk = Ptable
    PROVE  Inv'
<1> DEFINE c == pushcli(cpu[k])
           r == [th[t] EXCEPT !.pc = to]
<1>1. /\ On(k, t) /\ th[t].pc = from /\ panic' = Holding(k, lk)
      /\ cpu' = [cpu EXCEPT ![k] = c] /\ th' = [th EXCEPT ![t] = r] /\ sch' = sch /\ owner' = owner
  BY DEF Enter
<1>2. c \in CpuRec /\ r \in ThreadRec /\ cpu'[k] = c /\ th'[t] = r
  <2>1. to \in ThreadPcs /\ cpu[k] \in CpuRec /\ th[t] \in ThreadRec
    BY <1>1, OnFacts DEF ThreadPcs
  <2>2. c \in CpuRec /\ r \in ThreadRec
    BY <2>1, Pushcli, NextPc
  <2> QED BY <1>1, <2>2 DEF Inv, TypeOK
<1> HIDE DEF c, r
<1>3. /\ c.ncli = cpu[k].ncli + 1 /\ ~c.fl /\ c.irq = "none" /\ c.proc = t
      /\ c.intena = (IF cpu[k].ncli = 0 THEN cpu[k].fl ELSE cpu[k].intena)
      /\ r.pc = to /\ r.state = th[t].state
  <2>1. to \in ThreadPcs /\ cpu[k] \in CpuRec /\ th[t] \in ThreadRec /\ cpu[k].irq = "none" /\ cpu[k].proc = t
    BY <1>1, OnFacts DEF ThreadPcs
  <2>2. /\ c.ncli = cpu[k].ncli + 1 /\ ~c.fl /\ c.irq = "none" /\ c.proc = t
        /\ c.intena = (IF cpu[k].ncli = 0 THEN cpu[k].fl ELSE cpu[k].intena)
    BY <2>1, Pushcli DEF c
  <2>3. r.pc = to /\ r.state = th[t].state
    BY <2>1, NextPc DEF r
  <2> QED BY <2>2, <2>3
<1>4. Local(k)'
  BY <1>1, <1>2, <1>3, OnFacts, OnNext DEF Local, InDev, InPtable, Once, Twice
<1>5. Parked(t)'
  BY <1>1, <1>2, <1>3, OnFacts DEF Parked, r
<1>6. panic' = FALSE
  <2>1. ~Holding(k, lk)
    BY <1>1, OnFacts DEF Holding, Local, InDev, InPtable
  <2> QED BY <1>1, <2>1
<1>q. /\ cpu[k].proc = t /\ panic' = FALSE /\ owner' \in [Locks -> CPUs \cup {None}]
      /\ \A l \in Locks : owner'[l] # owner[l] => owner[l] \in {k, None} /\ owner'[l] \in {k, None}
  BY <1>1, <1>6, OnFacts DEF Inv, TypeOK
<1> QED BY <1>1, <1>2, <1>3, <1>4, <1>5, <1>q, ThreadStep

\* acquire, second half: the xchg.
LEMMA SpinStep ==
    ASSUME SpinAssumption, Inv, NEW k \in CPUs, NEW t \in Threads, NEW from, NEW to, NEW lk,
           Spin(k, t, from, to, lk),
           \/ from = "spinD" /\ to = "inD" /\ lk = Dev
           \/ from = "s_spinP" /\ to = "s_inP" /\ lk = Ptable
           \/ from = "y_spinP" /\ to = "y_inP" /\ lk = Ptable
    PROVE  Inv'
<1> DEFINE r == [th[t] EXCEPT !.pc = to]
<1>1. /\ On(k, t) /\ th[t].pc = from /\ panic' = panic /\ owner[lk] = None
      /\ owner' = [owner EXCEPT ![lk] = k]
      /\ cpu' = cpu /\ th' = [th EXCEPT ![t] = r] /\ sch' = sch
  BY DEF Spin, xchg
<1>2. r \in ThreadRec /\ r.pc = to /\ r.state = th[t].state
  <2>1. to \in ThreadPcs /\ th[t] \in ThreadRec
    BY <1>1, OnFacts DEF ThreadPcs
  <2> QED BY <2>1, NextPc
<1> HIDE DEF r
<1>3. th'[t] = r
  BY <1>1 DEF Inv, TypeOK
<1>4. owner' \in [Locks -> CPUs \cup {None}] /\ owner'[lk] = k /\ \A l \in Locks : l # lk => owner'[l] = owner[l]
  BY <1>1 DEF Inv, TypeOK, Locks
<1>5. Local(k)'
  BY <1>1, <1>2, <1>3, <1>4, OnFacts, OnNext DEF Local, InDev, InPtable, Once, Twice, Locks, Dev, Ptable
<1>6. Parked(t)'
  BY <1>1, <1>2, <1>3, OnFacts DEF Parked, r
<1>7. cpu' = [cpu EXCEPT ![k] = cpu[k]]
  BY <1>1 DEF Inv, TypeOK
<1>8. cpu[k] \in CpuRec /\ cpu[k].proc = t
  BY <1>1, OnFacts
<1>q. /\ cpu[k].proc = t /\ panic' = FALSE /\ owner' \in [Locks -> CPUs \cup {None}]
      /\ \A l \in Locks : owner'[l] # owner[l] => owner[l] \in {k, None} /\ owner'[l] \in {k, None}
  BY <1>1, <1>4, OnFacts DEF Inv, TypeOK
<1> QED BY <1>1, <1>2, <1>5, <1>6, <1>7, <1>8, <1>q, ThreadStep

\* release: k holds the lock, interrupts are off and ncli counts it.
LEMMA ReleaseStep ==
    ASSUME SpinAssumption, Inv, NEW k \in CPUs, NEW t \in Threads, NEW from, NEW to, NEW lk,
           Release(k, t, from, to, lk),
           \/ from = "inD" /\ to = "run" /\ lk = Dev
           \/ from = "s_inP" /\ to = "s_sched" /\ lk = Dev
           \/ from = "s_relP" /\ to = "s_again" /\ lk = Ptable
           \/ from = "y_relP" /\ to = "y_iret" /\ lk = Ptable
           \/ from = "forkret" /\ to = "f_iret" /\ lk = Ptable
    PROVE  Inv'
<1> DEFINE c == popcli(cpu[k])
           r == [th[t] EXCEPT !.pc = to]
<1>1. /\ On(k, t) /\ th[t].pc = from /\ panic' = BadRelease(k, lk)
      /\ owner' = [owner EXCEPT ![lk] = None]
      /\ cpu' = [cpu EXCEPT ![k] = c] /\ th' = [th EXCEPT ![t] = r] /\ sch' = sch
  BY DEF Release
<1>2. cpu[k].ncli \in Nat /\ cpu[k].ncli >= 1 /\ ~cpu[k].fl /\ owner[lk] = k
  BY <1>1, OnFacts DEF Local, InDev, InPtable, Once, Twice, Dev, Ptable, CpuRec
<1>3. /\ c \in CpuRec /\ c.ncli = cpu[k].ncli - 1 /\ c.irq = "none" /\ c.proc = t
      /\ c.fl <=> (cpu[k].ncli = 1 /\ cpu[k].intena)
      /\ c.intena = cpu[k].intena
  <2>1. cpu[k] \in CpuRec /\ cpu[k].irq = "none" /\ cpu[k].proc = t
    BY <1>1, OnFacts
  <2> QED BY <1>2, <2>1, Popcli
<1>4. r \in ThreadRec /\ r.pc = to /\ r.state = th[t].state
  <2>1. to \in ThreadPcs /\ th[t] \in ThreadRec
    BY <1>1, OnFacts DEF ThreadPcs
  <2> QED BY <2>1, NextPc
<1> HIDE DEF c, r
<1>5. cpu'[k] = c /\ th'[t] = r
  BY <1>1 DEF Inv, TypeOK
<1>6. owner' \in [Locks -> CPUs \cup {None}] /\ owner'[lk] = None /\ \A l \in Locks : l # lk => owner'[l] = owner[l]
  BY <1>1 DEF Inv, TypeOK, Locks
<1>7. Local(k)'
  <2>1. /\ cpu[k].ncli = IF from = "s_inP" THEN 2 ELSE 1
        /\ from \in {"inD", "s_inP", "s_relP"} => cpu[k].intena
        /\ from = "y_relP" => ~cpu[k].intena
        /\ owner[Dev] = k <=> from \in {"inD", "s_inP"}
        /\ owner[Ptable] = k <=> from # "inD"
        /\ sch[k] = "loop" /\ th[t].state = "RUNNING" /\ t # None /\ k # None
    BY <1>1, OnFacts DEF Local, InDev, InPtable, Once, Twice
  <2>2. /\ owner'[Dev] # k
        /\ owner'[Ptable] = k <=> to = "s_sched"
    BY <1>6, <2>1 DEF Locks, Dev, Ptable
  <2>3. cpu'[k].ncli = (IF to = "s_sched" THEN 1 ELSE 0)
    BY <1>3, <1>5, <2>1
  <2>4. /\ to \in {"run", "s_again"} => cpu'[k].fl
        /\ to \in {"s_sched", "y_iret"} => ~cpu'[k].fl
        /\ to = "s_sched" => cpu'[k].intena
    <3>1. to \in {"run", "s_again"} => from \in {"inD", "s_relP"}
      OBVIOUS
    <3>2. to \in {"s_sched", "y_iret"} => from \in {"s_inP", "y_relP"}
      OBVIOUS
    <3>3. from \in {"inD", "s_relP"} => c.fl
      BY <1>3, <2>1
    <3>4. from \in {"s_inP", "y_relP"} => ~c.fl
      BY <1>3, <2>1
    <3>5. from = "s_inP" => c.intena
      BY <1>3, <2>1
    <3> QED BY <1>5, <3>1, <3>2, <3>3, <3>4, <3>5
  <2>5. cpu'[k].irq = "none" /\ cpu'[k].proc = t /\ th'[t].pc = to /\ th'[t].state = "RUNNING" /\ sch'[k] = "loop"
    BY <1>1, <1>3, <1>4, <1>5, <2>1
  <2> QED BY <2>1, <2>2, <2>3, <2>4, <2>5, OnNext DEF Local, InDev, InPtable, Once, Twice
<1>8. Parked(t)'
  BY <1>1, <1>4, <1>5, OnFacts DEF Parked, r
<1>9. panic' = FALSE
  <2>1. ~BadRelease(k, lk)
    BY <1>2 DEF BadRelease
  <2> QED BY <1>1, <2>1
<1>q. /\ cpu[k].proc = t /\ panic' = FALSE /\ owner' \in [Locks -> CPUs \cup {None}]
      /\ \A l \in Locks : owner'[l] # owner[l] => owner[l] \in {k, None} /\ owner'[l] \in {k, None}
  BY <1>1, <1>2, <1>6, <1>9, OnFacts DEF Inv, TypeOK
<1> QED BY <1>1, <1>3, <1>4, <1>7, <1>8, <1>q, ThreadStep

\* sched: its checks pass, and the scheduler of k goes on with ptable.lock.
LEMMA SchedStep ==
    ASSUME SpinAssumption, Inv, NEW k \in CPUs, NEW t \in Threads, NEW from, NEW to, NEW state,
           sched(k, t, from, to, state),
           \/ from = "s_sched" /\ to = "s_back" /\ state = "SLEEPING"
           \/ from = "y_inP" /\ to = "y_back" /\ state = "RUNNABLE"
    PROVE  Inv'
<1> DEFINE c == [cpu[k] EXCEPT !.proc = None]
           i == cpu[k].intena
           r == [th[t] EXCEPT !.pc = to, !.state = state, !.intena = i]
<1>1. /\ On(k, t) /\ th[t].pc = from
      /\ panic' = (~Holding(k, Ptable) \/ cpu[k].ncli # 1 \/ cpu[k].fl)
      /\ cpu' = [cpu EXCEPT ![k] = c] /\ th' = [th EXCEPT ![t] = r] /\ sch' = sch /\ owner' = owner
  BY DEF sched
<1>2. i \in BOOLEAN /\ to \in ThreadPcs /\ cpu[k] \in CpuRec /\ th[t] \in ThreadRec /\ cpu[k].irq = "none"
  BY <1>1, OnFacts DEF ThreadPcs, CpuRec
<1>3. /\ c \in CpuRec /\ c.ncli = cpu[k].ncli /\ c.irq = "none" /\ c.proc = None
      /\ c.fl = cpu[k].fl /\ c.intena = i
  BY <1>2 DEF CpuRec
<1> HIDE DEF i
<1>4. r \in ThreadRec /\ r.pc = to /\ r.state = state /\ r.intena = i
  BY <1>2 DEF ThreadRec
<1> HIDE DEF c, r
<1>5. cpu'[k] = c /\ th'[t] = r
  BY <1>1 DEF Inv, TypeOK
<1>6. Local(k)'
  BY <1>1, <1>3, <1>5, OnFacts DEF Local, InDev, InPtable, Once, Twice, AtThread, AtSched, AtIrq
<1>7. Parked(t)'
  BY <1>1, <1>4, <1>5, OnFacts DEF Parked, Local, i
<1>8. panic' = FALSE
  <2>1. Holding(k, Ptable) /\ cpu[k].ncli = 1 /\ ~cpu[k].fl
    BY <1>1, OnFacts DEF Local, InPtable, Once, Twice, Holding
  <2> QED BY <1>1, <2>1
<1>q. /\ cpu[k].proc = t /\ panic' = FALSE /\ owner' \in [Locks -> CPUs \cup {None}]
      /\ \A l \in Locks : owner'[l] # owner[l] => owner[l] \in {k, None} /\ owner'[l] \in {k, None}
  BY <1>1, <1>8, OnFacts DEF Inv, TypeOK
<1> QED BY <1>1, <1>3, <1>4, <1>6, <1>7, <1>q, ThreadStep

\* The return from swtch: intena becomes that of the code t returns to.
LEMMA ResumeStep ==
    ASSUME SpinAssumption, Inv, NEW k \in CPUs, NEW t \in Threads, NEW from, NEW to,
           Resume(k, t, from, to),
           \/ from = "s_back" /\ to = "s_relP"
           \/ from = "y_back" /\ to = "y_relP"
    PROVE  Inv'
<1> DEFINE c == [cpu[k] EXCEPT !.intena = th[t].intena]
           r == [th[t] EXCEPT !.pc = to]
<1>1. /\ On(k, t) /\ th[t].pc = from /\ panic' = panic
      /\ cpu' = [cpu EXCEPT ![k] = c] /\ th' = [th EXCEPT ![t] = r] /\ sch' = sch /\ owner' = owner
  BY DEF Resume, Restore
<1>2. /\ th[t].intena \in BOOLEAN /\ to \in ThreadPcs /\ cpu[k] \in CpuRec /\ th[t] \in ThreadRec
      /\ cpu[k].irq = "none" /\ cpu[k].proc = t
  BY <1>1, OnFacts DEF ThreadPcs, ThreadRec
<1>3. /\ c \in CpuRec /\ c.ncli = cpu[k].ncli /\ c.irq = "none" /\ c.proc = t
      /\ c.fl = cpu[k].fl /\ c.intena = th[t].intena
  BY <1>2 DEF CpuRec
<1>4. r \in ThreadRec /\ r.pc = to /\ r.state = th[t].state
  BY <1>2, NextPc
<1> HIDE DEF c, r
<1>5. cpu'[k] = c /\ th'[t] = r
  BY <1>1 DEF Inv, TypeOK
<1>6. Local(k)'
  BY <1>1, <1>3, <1>4, <1>5, OnFacts, OnNext DEF Local, InDev, InPtable, Once, Twice, Parked
<1>7. Parked(t)'
  BY <1>1, <1>4, <1>5, OnFacts DEF Parked, r
<1>q. /\ cpu[k].proc = t /\ panic' = FALSE /\ owner' \in [Locks -> CPUs \cup {None}]
      /\ \A l \in Locks : owner'[l] # owner[l] => owner[l] \in {k, None} /\ owner'[l] \in {k, None}
  BY <1>1, OnFacts DEF Inv, TypeOK
<1> QED BY <1>1, <1>3, <1>4, <1>6, <1>7, <1>q, ThreadStep

\* iret, to what the timer interrupted or from forkret to the user.
LEMMA IretStep ==
    ASSUME SpinAssumption, Inv, NEW k \in CPUs, NEW t \in Threads, iret(k, t)
    PROVE  Inv'
<1> DEFINE c == [cpu[k] EXCEPT !.fl = TRUE]
           to == IF th[t].pc = "f_iret" THEN "run" ELSE th[t].ret
           r == [th[t] EXCEPT !.pc = to]
<1>1. /\ On(k, t) /\ th[t].pc \in {"y_iret", "f_iret"} /\ panic' = panic
      /\ cpu' = [cpu EXCEPT ![k] = c] /\ th' = [th EXCEPT ![t] = r] /\ sch' = sch /\ owner' = owner
  BY DEF iret
<1>2. /\ to \in {"run", "s_again", "f_iret"} /\ cpu[k] \in CpuRec /\ th[t] \in ThreadRec
      /\ cpu[k].irq = "none" /\ cpu[k].proc = t
  BY <1>1, OnFacts DEF ThreadRec
<1> HIDE DEF to
<1>3. /\ c \in CpuRec /\ c.ncli = cpu[k].ncli /\ c.irq = "none" /\ c.proc = t
      /\ c.fl = TRUE /\ c.intena = cpu[k].intena
  BY <1>2 DEF CpuRec
<1>4. r \in ThreadRec /\ r.pc = to /\ r.state = th[t].state
  <2>1. to \in ThreadPcs
    BY <1>2 DEF ThreadPcs
  <2> QED BY <1>2, <2>1, NextPc
<1> HIDE DEF c, r
<1>5. cpu'[k] = c /\ th'[t] = r
  BY <1>1 DEF Inv, TypeOK
<1>6. Local(k)'
  BY <1>1, <1>2, <1>3, <1>4, <1>5, OnFacts, OnNext DEF Local, InDev, InPtable, Once, Twice, Parked
<1>7. Parked(t)'
  BY <1>1, <1>2, <1>4, <1>5, OnFacts DEF Parked, r
<1>q. /\ cpu[k].proc = t /\ panic' = FALSE /\ owner' \in [Locks -> CPUs \cup {None}]
      /\ \A l \in Locks : owner'[l] # owner[l] => owner[l] \in {k, None} /\ owner'[l] \in {k, None}
  BY <1>1, OnFacts DEF Inv, TypeOK
<1> QED BY <1>1, <1>3, <1>4, <1>6, <1>7, <1>q, ThreadStep

\* The timer interrupts a thread only outside of all locks.
LEMMA TimerStep ==
    ASSUME SpinAssumption, Inv, NEW k \in CPUs, NEW t \in Threads, Timer(k, t)
    PROVE  Inv'
<1> DEFINE b == [cpu[k] EXCEPT !.fl = FALSE]
           c == pushcli(b)
           old == th[t].pc
           r == [th[t] EXCEPT !.pc = "y_spinP", !.ret = old]
<1>1. /\ On(k, t) /\ cpu[k].fl /\ panic' = Holding(k, Ptable)
      /\ cpu' = [cpu EXCEPT ![k] = c] /\ th' = [th EXCEPT ![t] = r] /\ sch' = sch /\ owner' = owner
  BY DEF Timer
<1>2. /\ cpu[k] \in CpuRec /\ th[t] \in ThreadRec /\ cpu[k].irq = "none" /\ cpu[k].proc = t
      /\ old \in ThreadPcs
  BY <1>1, OnFacts DEF ThreadRec
<1>3. cpu[k].ncli = 0 /\ old \in {"run", "s_again", "f_iret"}
  BY <1>1, <1>2, OnFacts DEF Local, Once, Twice, ThreadPcs
<1>4. b \in CpuRec /\ b.ncli = 0 /\ b.irq = "none" /\ b.proc = t /\ b.fl = FALSE
  BY <1>2, <1>3 DEF CpuRec
<1> HIDE DEF b
<1>5. /\ c \in CpuRec /\ c.ncli = 1 /\ c.irq = "none" /\ c.proc = t
      /\ ~c.fl /\ ~c.intena
  BY <1>4, Pushcli
<1> HIDE DEF old
<1>6. r \in ThreadRec /\ r.pc = "y_spinP" /\ r.state = th[t].state /\ r.intena = th[t].intena
  BY <1>2, <1>3 DEF ThreadRec, ThreadPcs
<1> HIDE DEF c, r
<1>7. cpu'[k] = c /\ th'[t] = r
  BY <1>1 DEF Inv, TypeOK
<1>8. Local(k)'
  BY <1>1, <1>3, <1>5, <1>6, <1>7, OnFacts, OnNext DEF Local, InDev, InPtable, Once, Twice, old
<1>9. Parked(t)'
  BY <1>6, <1>7, <1>1, OnFacts DEF Parked
<1>10. panic' = FALSE
  <2>1. ~Holding(k, Ptable)
    BY <1>1, <1>3, OnFacts DEF Local, InPtable, Holding, old
  <2> QED BY <1>1, <2>1
<1>q. /\ cpu[k].proc = t /\ panic' = FALSE /\ owner' \in [Locks -> CPUs \cup {None}]
      /\ \A l \in Locks : owner'[l] # owner[l] => owner[l] \in {k, None} /\ owner'[l] \in {k, None}
  BY <1>1, <1>10, OnFacts DEF Inv, TypeOK
<1> QED BY <1>1, <1>5, <1>6, <1>8, <1>9, <1>q, ThreadStep

-----------------------------------------------------------------------------
(* The steps of interrupt handlers and schedulers. *)

\* Such a step keeps the invariant if it does so for k; the threads that run
\* elsewhere are left alone.
LEMMA CpuStep ==
    ASSUME SpinAssumption, Inv, NEW k \in CPUs, NEW c \in CpuRec, NEW q \in SchPcs,
           cpu' = [cpu EXCEPT ![k] = c], sch' = [sch EXCEPT ![k] = q], th' \in [Threads -> ThreadRec],
           owner' \in [Locks -> CPUs \cup {None}], panic' = FALSE,
           \A lk \in Locks : owner'[lk] # owner[lk] => owner[lk] \in {k, None} /\ owner'[lk] \in {k, None},
           c.proc = cpu[k].proc \/ th[c.proc].state # "RUNNING",
           \A u \in Threads : th[u].state = "RUNNING" => th'[u] = th[u],
           Local(k)', \A u \in Threads : Parked(u)'
    PROVE  Inv'
<1>1. TypeOK'
  BY DEF Inv, TypeOK, CpuRec, ThreadRec
<1>2. \A j \in CPUs : cpu[j].proc # None => cpu[j].proc \in Threads /\ th[cpu[j].proc].state = "RUNNING"
  BY DEF Inv, TypeOK, Local, CpuRec, ThreadRec
<1>3. \A j \in CPUs : cpu'[j] = IF j = k THEN c ELSE cpu[j]
  BY DEF Inv, TypeOK
<1>4. OneCpu'
  BY <1>2, <1>3 DEF Inv, OneCpu
<1>5. ASSUME NEW j \in CPUs PROVE Local(j)'
  <2>1. CASE j = k
    BY <2>1
  <2>2. CASE j # k
    <3>1. cpu'[j] = cpu[j] /\ sch'[j] = sch[j] /\ \A lk \in Locks : owner'[lk] = j <=> owner[lk] = j
      BY <2>2 DEF Inv, TypeOK, SpinAssumption
    <3>2. cpu[j].proc # None => th'[cpu[j].proc] = th[cpu[j].proc]
      BY <1>2
    <3> QED BY <3>1, <3>2, Others DEF Inv
  <2> QED BY <2>1, <2>2
<1> QED BY <1>1, <1>4, <1>5 DEF Inv

\* Steps that change no thread.
LEMMA QuietStep ==
    ASSUME SpinAssumption, Inv, NEW k \in CPUs, NEW c \in CpuRec, NEW q \in SchPcs,
           cpu' = [cpu EXCEPT ![k] = c], sch' = [sch EXCEPT ![k] = q], th' = th, c.proc = cpu[k].proc,
           owner' \in [Locks -> CPUs \cup {None}], panic' = FALSE,
           \A lk \in Locks : owner'[lk] # owner[lk] => owner[lk] \in {k, None} /\ owner'[lk] \in {k, None},
           Local(k)'
    PROVE  Inv'
<1>1. th' \in [Threads -> ThreadRec]
  BY DEF Inv, TypeOK, ThreadRec
<1>2. \A u \in Threads : Parked(u)'
  BY DEF Inv, Parked
<1> QED BY <1>1, <1>2, CpuStep

\* A processor in an interrupt handler.
LEMMA IrqFacts ==
    ASSUME Inv, NEW k \in CPUs, cpu[k].irq # "none"
    PROVE  /\ cpu[k] \in CpuRec /\ sch[k] \in SchPcs /\ sch = [sch EXCEPT ![k] = sch[k]] /\ Local(k)
           /\ \A S : AtIrq(k, S) <=> cpu[k].irq \in S
           /\ \A S : ~AtThread(k, S) /\ ~AtSched(k, S)
BY DEF Inv, TypeOK, CpuRec, AtThread, AtSched, AtIrq

\* The same after the step.
LEMMA IrqNext ==
    ASSUME NEW k, cpu'[k].irq # "none"
    PROVE  /\ \A S : AtIrq(k, S)' <=> cpu'[k].irq \in S
           /\ \A S : ~AtThread(k, S)' /\ ~AtSched(k, S)'
BY DEF AtThread, AtSched, AtIrq

\* The handler starts: what it interrupts is outside of all locks.
LEMMA DeviceStep ==
    ASSUME SpinAssumption, Inv, NEW k \in CPUs, Device(k)
    PROVE  Inv'
<1> DEFINE b == [cpu[k] EXCEPT !.fl = FALSE]
           d == pushcli(b)
           c == [d EXCEPT !.irq = "spinD"]
<1>1. /\ cpu[k].fl /\ cpu[k].irq = "none" /\ panic' = Holding(k, Dev)
      /\ cpu' = [cpu EXCEPT ![k] = c] /\ th' = th /\ sch' = sch /\ owner' = owner
  BY DEF Device
<1>2. cpu[k] \in CpuRec /\ sch[k] \in SchPcs /\ sch = [sch EXCEPT ![k] = sch[k]] /\ Local(k)
  BY DEF Inv, TypeOK, CpuRec
<1>3. b \in CpuRec /\ b.fl = FALSE /\ b.ncli = cpu[k].ncli /\ b.proc = cpu[k].proc
  BY <1>2 DEF CpuRec
<1>4. cpu[k].ncli = 0 /\ owner[Dev] # k /\ owner[Ptable] # k
  BY <1>1, <1>2 DEF Local, Once, Twice, InDev, InPtable, AtThread, AtSched, AtIrq
<1> HIDE DEF b
<1>5. d \in CpuRec /\ d.ncli = 1 /\ ~d.fl /\ ~d.intena /\ d.proc = cpu[k].proc
  BY <1>3, <1>4, Pushcli
<1> HIDE DEF d
<1>6. c \in CpuRec /\ c.ncli = 1 /\ c.fl = d.fl /\ c.intena = d.intena /\ c.proc = cpu[k].proc /\ c.irq = "spinD"
  BY <1>5 DEF CpuRec, IrqPcs
<1> HIDE DEF c
<1>7. cpu'[k] = c
  BY <1>1 DEF Inv, TypeOK
<1>8. /\ cpu[k].proc # None => /\ th[cpu[k].proc].pc \in {"run", "s_again", "f_iret"}
                               /\ sch[k] = "loop" /\ th[cpu[k].proc].state = "RUNNING"
      /\ cpu[k].proc = None => sch[k] \in {"sti", "acquire"}
  <2>1. cpu[k].proc # None => th[cpu[k].proc].pc \in ThreadPcs
    BY DEF Inv, TypeOK, CpuRec, ThreadRec
  <2>2. sch[k] \in SchPcs
    BY DEF Inv, TypeOK
  <2> QED BY <1>1, <1>2, <1>4, <2>1, <2>2
          DEF Local, Once, Twice, AtThread, AtSched, AtIrq, ThreadPcs, SchPcs
<1>9. Local(k)'
  BY <1>1, <1>4, <1>5, <1>6, <1>7, <1>8, IrqNext DEF Local, InDev, InPtable, Once, Twice
<1>10. panic' = FALSE /\ owner' \in [Locks -> CPUs \cup {None}]
  <2>1. ~Holding(k, Dev)
    BY <1>4 DEF Holding
  <2> QED BY <1>1, <2>1 DEF Inv, TypeOK
<1> QED BY <1>1, <1>2, <1>6, <1>9, <1>10, QuietStep

\* It takes Dev and starts on Ptable.
LEMMA IrqTakesStep ==
    ASSUME SpinAssumption, Inv, NEW k \in CPUs, IrqTakes(k)
    PROVE  Inv'
<1> DEFINE d == pushcli(cpu[k])
           c == [d EXCEPT !.irq = "spinP"]
<1>1. /\ cpu[k].irq = "spinD" /\ panic' = Holding(k, Ptable) /\ owner[Dev] = None
      /\ owner' = [owner EXCEPT ![Dev] = k]
      /\ cpu' = [cpu EXCEPT ![k] = c] /\ th' = th /\ sch' = sch
  BY DEF IrqTakes, xchg
<1>2. /\ cpu[k] \in CpuRec /\ cpu[k].ncli = 1 /\ ~cpu[k].intena /\ owner[Ptable] # k /\ ~cpu[k].fl
      /\ sch[k] \in SchPcs /\ sch = [sch EXCEPT ![k] = sch[k]]
  BY <1>1, IrqFacts DEF Local, Once, Twice, InPtable
<1>3. d \in CpuRec /\ d.ncli = 2 /\ ~d.fl /\ ~d.intena /\ d.proc = cpu[k].proc
  BY <1>2, Pushcli
<1> HIDE DEF d
<1>4. c \in CpuRec /\ c.ncli = 2 /\ c.fl = d.fl /\ c.intena = d.intena /\ c.proc = cpu[k].proc /\ c.irq = "spinP"
  BY <1>3 DEF CpuRec, IrqPcs
<1> HIDE DEF c
<1>5. cpu'[k] = c /\ owner'[Dev] = k /\ owner'[Ptable] = owner[Ptable] /\ owner' \in [Locks -> CPUs \cup {None}]
  BY <1>1 DEF Inv, TypeOK, Locks, Dev, Ptable
<1>6. Local(k)'
  BY <1>1, <1>2, <1>3, <1>4, <1>5, IrqFacts, IrqNext DEF Local, InDev, InPtable, Once, Twice
<1>7. panic' = FALSE
  <2>1. ~Holding(k, Ptable)
    BY <1>2 DEF Holding
  <2> QED BY <1>1, <2>1
<1>8. \A lk \in Locks : owner'[lk] # owner[lk] => owner[lk] \in {k, None} /\ owner'[lk] \in {k, None}
  BY <1>1, <1>5 DEF Locks
<1> QED BY <1>1, <1>2, <1>4, <1>5, <1>6, <1>7, <1>8, QuietStep

\* It takes Ptable and wakes the sleepers.
LEMMA IrqWakesStep ==
    ASSUME SpinAssumption, Inv, NEW k \in CPUs, IrqWakes(k)
    PROVE  Inv'
<1> DEFINE c == [cpu[k] EXCEPT !.irq = "relP"]
<1>1. /\ cpu[k].irq = "spinP" /\ panic' = panic /\ owner[Ptable] = None
      /\ owner' = [owner EXCEPT ![Ptable] = k]
      /\ cpu' = [cpu EXCEPT ![k] = c] /\ sch' = sch
      /\ th' = [t \in Threads |-> IF th[t].state = "SLEEPING" THEN [th[t] EXCEPT !.state = "RUNNABLE"]
                                   ELSE th[t]]
  BY DEF IrqWakes, xchg
<1>2. /\ cpu[k] \in CpuRec /\ cpu[k].ncli = 2 /\ ~cpu[k].intena /\ owner[Dev] = k /\ ~cpu[k].fl
      /\ sch[k] \in SchPcs /\ sch = [sch EXCEPT ![k] = sch[k]]
  BY <1>1, IrqFacts DEF Local, Once, Twice, InDev
<1>3. /\ c \in CpuRec /\ c.ncli = 2 /\ c.fl = cpu[k].fl /\ c.intena = cpu[k].intena /\ c.proc = cpu[k].proc
      /\ c.irq = "relP"
  BY <1>2 DEF CpuRec, IrqPcs
<1> HIDE DEF c
<1>4. cpu'[k] = c /\ owner'[Ptable] = k /\ owner'[Dev] = owner[Dev] /\ owner' \in [Locks -> CPUs \cup {None}]
  BY <1>1 DEF Inv, TypeOK, Locks, Dev, Ptable
<1>5. ASSUME NEW u \in Threads
      PROVE  /\ th'[u] \in ThreadRec /\ th'[u].pc = th[u].pc /\ th'[u].intena = th[u].intena
             /\ th[u].state = "RUNNING" => th'[u] = th[u]
             /\ th'[u].state = "RUNNING" <=> th[u].state = "RUNNING"
  <2>1. th[u] \in ThreadRec
    BY DEF Inv, TypeOK, ThreadRec
  <2>2. CASE th[u].state = "SLEEPING"
    <3>1. th'[u] = [th[u] EXCEPT !.state = "RUNNABLE"]
      BY <1>1, <2>2
    <3> QED BY <2>1, <2>2, <3>1 DEF ThreadRec
  <2>3. CASE th[u].state # "SLEEPING"
    BY <1>1, <2>1, <2>3
  <2> QED BY <2>2, <2>3
<1>6. Local(k)'
  <2>1. cpu[k].proc # None => th'[cpu[k].proc] = th[cpu[k].proc]
    BY <1>5 DEF Inv, TypeOK, Local, CpuRec, ThreadRec
  <2> QED BY <1>1, <1>2, <1>3, <1>4, <2>1, IrqFacts, IrqNext DEF Local, InDev, InPtable, Once, Twice
<1>7. \A u \in Threads : Parked(u)'
  BY <1>5 DEF Inv, Parked
<1>8. \A lk \in Locks : owner'[lk] # owner[lk] => owner[lk] \in {k, None} /\ owner'[lk] \in {k, None}
  BY <1>1, <1>4 DEF Locks
<1>9. th' \in [Threads -> ThreadRec] /\ panic' = FALSE
  BY <1>1, <1>5 DEF Inv, TypeOK
<1>10. cpu' = [cpu EXCEPT ![k] = c] /\ sch' = [sch EXCEPT ![k] = sch[k]]
  BY <1>1, <1>2
<1>11. \A u \in Threads : th[u].state = "RUNNING" => th'[u] = th[u]
  BY <1>5
<1> QED BY <1>2, <1>3, <1>4, <1>6, <1>7, <1>8, <1>9, <1>10, <1>11, CpuStep

\* It releases both locks, and iret returns to what it interrupted.
LEMMA IrqReleasesStep ==
    ASSUME SpinAssumption, Inv, NEW k \in CPUs, IrqReleases(k)
    PROVE  Inv'
<1> DEFINE d == popcli(cpu[k])
<1>1. th' = th /\ sch' = sch /\ cpu[k].irq \in {"relP", "relD", "iret"}
  BY DEF IrqReleases
<1>2. /\ cpu[k] \in CpuRec /\ ~cpu[k].fl /\ sch[k] \in SchPcs /\ sch = [sch EXCEPT ![k] = sch[k]] /\ Local(k)
      /\ cpu[k].irq = "relP" => cpu[k].ncli = 2 /\ owner[Dev] = k /\ owner[Ptable] = k /\ ~cpu[k].intena
      /\ cpu[k].irq = "relD" => cpu[k].ncli = 1 /\ owner[Dev] = k /\ owner[Ptable] # k /\ ~cpu[k].intena
      /\ cpu[k].irq = "iret" => cpu[k].ncli = 0 /\ owner[Dev] # k /\ owner[Ptable] # k
  BY <1>1, IrqFacts DEF Local, Once, Twice, InDev, InPtable
<1>3. cpu[k].irq # "iret" =>
        /\ d \in CpuRec /\ d.ncli = cpu[k].ncli - 1 /\ ~d.fl /\ ~d.intena
        /\ d.proc = cpu[k].proc
  BY <1>1, <1>2, Popcli
<1> HIDE DEF d
<1>4. CASE cpu[k].irq = "relP"
  <2> DEFINE c == [d EXCEPT !.irq = "relD"]
  <2>1. /\ panic' = BadRelease(k, Ptable) /\ owner' = [owner EXCEPT ![Ptable] = None]
        /\ cpu' = [cpu EXCEPT ![k] = c]
    BY <1>4 DEF IrqReleases, d
  <2>2. c \in CpuRec /\ c.ncli = 1 /\ c.fl = d.fl /\ c.intena = d.intena /\ c.proc = cpu[k].proc /\ c.irq = "relD"
    BY <1>2, <1>3, <1>4 DEF CpuRec, IrqPcs
  <2> HIDE DEF c
  <2>3. cpu'[k] = c /\ owner'[Ptable] = None /\ owner'[Dev] = k /\ owner' \in [Locks -> CPUs \cup {None}]
    BY <1>2, <1>4, <2>1 DEF Inv, TypeOK, Locks, Dev, Ptable
  <2>4. Local(k)'
    BY <1>1, <1>2, <1>3, <1>4, <2>2, <2>3, IrqNext DEF Local, InDev, InPtable, Once, Twice, SpinAssumption
  <2>5. panic' = FALSE
    <3>1. ~BadRelease(k, Ptable)
      BY <1>2, <1>4 DEF BadRelease
    <3> QED BY <2>1, <3>1
  <2>6. \A lk \in Locks : owner'[lk] # owner[lk] => owner[lk] \in {k, None} /\ owner'[lk] \in {k, None}
    BY <1>2, <1>4, <2>3 DEF Locks
  <2> QED BY <1>1, <1>2, <2>1, <2>2, <2>3, <2>4, <2>5, <2>6, QuietStep
<1>5. CASE cpu[k].irq = "relD"
  <2> DEFINE c == [d EXCEPT !.irq = "iret"]
  <2>1. /\ panic' = BadRelease(k, Dev) /\ owner' = [owner EXCEPT ![Dev] = None]
        /\ cpu' = [cpu EXCEPT ![k] = c]
    BY <1>5 DEF IrqReleases, d
  <2>2. c \in CpuRec /\ c.ncli = 0 /\ c.fl = d.fl /\ c.intena = d.intena /\ c.proc = cpu[k].proc /\ c.irq = "iret"
    BY <1>2, <1>3, <1>5 DEF CpuRec, IrqPcs
  <2> HIDE DEF c
  <2>3. /\ cpu'[k] = c /\ owner'[Dev] = None /\ owner'[Ptable] = owner[Ptable]
        /\ owner' \in [Locks -> CPUs \cup {None}]
    BY <1>2, <1>5, <2>1 DEF Inv, TypeOK, Locks, Dev, Ptable
  <2>4. Local(k)'
    BY <1>1, <1>2, <1>3, <1>5, <2>2, <2>3, IrqNext DEF Local, InDev, InPtable, Once, Twice, SpinAssumption
  <2>5. panic' = FALSE
    <3>1. ~BadRelease(k, Dev)
      BY <1>2, <1>5 DEF BadRelease
    <3> QED BY <2>1, <3>1
  <2>6. \A lk \in Locks : owner'[lk] # owner[lk] => owner[lk] \in {k, None} /\ owner'[lk] \in {k, None}
    BY <1>2, <1>5, <2>3 DEF Locks
  <2> QED BY <1>1, <1>2, <2>1, <2>2, <2>3, <2>4, <2>5, <2>6, QuietStep
<1>6. CASE cpu[k].irq = "iret"
  <2> DEFINE c == [cpu[k] EXCEPT !.irq = "none", !.fl = TRUE]
  <2>1. panic' = panic /\ owner' = owner /\ cpu' = [cpu EXCEPT ![k] = c]
    BY <1>6 DEF IrqReleases
  <2>2. c \in CpuRec /\ c.ncli = 0 /\ c.fl = TRUE /\ c.proc = cpu[k].proc /\ c.irq = "none"
    BY <1>2, <1>6 DEF CpuRec, IrqPcs
  <2> HIDE DEF c
  <2>3. cpu'[k] = c
    BY <2>1 DEF Inv, TypeOK
  <2>4. Local(k)'
    BY <1>1, <1>2, <1>6, <2>1, <2>2, <2>3
       DEF Local, InDev, InPtable, Once, Twice, AtThread, AtSched, AtIrq
  <2> QED BY <1>1, <1>2, <2>1, <2>2, <2>4, QuietStep DEF Inv, TypeOK
<1> QED BY <1>1, <1>4, <1>5, <1>6

\* The scheduler.
LEMMA SchedulerStep ==
    ASSUME SpinAssumption, Inv, NEW k \in CPUs, scheduler(k)
    PROVE  Inv'
<1>1. cpu[k].irq = "none" /\ cpu[k].proc = None /\ cpu[k] \in CpuRec /\ sch[k] \in SchPcs /\ Local(k) /\ k # None
  BY DEF scheduler, Running, Inv, TypeOK, CpuRec, SpinAssumption
<1>2. /\ sch[k] = "sti" => cpu[k].ncli = 0 /\ owner[Dev] # k /\ owner[Ptable] # k
      /\ sch[k] = "acquire" => cpu[k].ncli = 0 /\ cpu[k].fl /\ owner[Dev] # k /\ owner[Ptable] # k
      /\ sch[k] = "spin" => cpu[k].ncli = 1 /\ ~cpu[k].fl /\ owner[Dev] # k
      /\ sch[k] = "loop" => cpu[k].ncli = 1 /\ ~cpu[k].fl /\ owner[Dev] # k /\ owner[Ptable] = k
  BY <1>1 DEF Local, InDev, InPtable, Once, Twice, AtThread, AtSched, AtIrq
<1> DEFINE Idle(c, q) ==      \* k goes on in its scheduler at q, with the record c
             /\ cpu' = [cpu EXCEPT ![k] = c] /\ sch' = [sch EXCEPT ![k] = q] /\ th' = th
             /\ c \in CpuRec /\ c.irq = "none" /\ c.proc = None /\ q \in SchPcs
<1>3. ASSUME NEW c, NEW q, Idle(c, q)
      PROVE  cpu'[k] = c /\ sch'[k] = q
  BY <1>3 DEF Inv, TypeOK
<1>4. CASE sch[k] = "sti"
  <2> DEFINE c == [cpu[k] EXCEPT !.fl = TRUE]
  <2>1. c \in CpuRec /\ c.ncli = 0 /\ c.fl = TRUE /\ c.proc = None /\ c.irq = "none"
    BY <1>1, <1>2, <1>4 DEF CpuRec
  <2>2. Idle(c, "acquire") /\ panic' = panic /\ owner' = owner
    BY <1>4, <2>1 DEF scheduler, SchPcs
  <2> HIDE DEF c
  <2>3. Local(k)'
    BY <1>2, <1>3, <1>4, <2>1, <2>2 DEF Local, InDev, InPtable, Once, Twice, AtThread, AtSched, AtIrq
  <2>4. owner' \in [Locks -> CPUs \cup {None}] /\ panic' = FALSE
    BY <2>2 DEF Inv, TypeOK
  <2> QED BY <1>1, <2>2, <2>3, <2>4, QuietStep
<1>5. CASE sch[k] = "acquire"
  <2> DEFINE c == pushcli(cpu[k])
  <2>1. c \in CpuRec /\ c.ncli = 1 /\ ~c.fl /\ c.proc = None /\ c.irq = "none"
    BY <1>1, <1>2, <1>5, Pushcli
  <2>2. Idle(c, "spin") /\ panic' = Holding(k, Ptable) /\ owner' = owner
    BY <1>5, <2>1 DEF scheduler, SchPcs
  <2> HIDE DEF c
  <2>3. Local(k)'
    <3>1. cpu'[k] = c /\ sch'[k] = "spin"
      BY <1>3, <2>2
    <3> QED BY <1>2, <1>5, <2>1, <2>2, <3>1 DEF Local, InDev, InPtable, Once, Twice, AtThread, AtSched, AtIrq
  <2>4. owner' \in [Locks -> CPUs \cup {None}] /\ panic' = FALSE
    <3>1. ~Holding(k, Ptable)
      BY <1>2, <1>5 DEF Holding
    <3> QED BY <2>2, <3>1 DEF Inv, TypeOK
  <2> QED BY <1>1, <2>2, <2>3, <2>4, QuietStep
<1>6. CASE sch[k] = "spin"
  <2>1. /\ owner[Ptable] = None /\ owner' = [owner EXCEPT ![Ptable] = k] /\ panic' = panic
        /\ Idle(cpu[k], "loop")
    <3>1. cpu' = cpu /\ sch' = [sch EXCEPT ![k] = "loop"] /\ th' = th
      BY <1>6 DEF scheduler
    <3>2. cpu' = [cpu EXCEPT ![k] = cpu[k]]
      BY <3>1 DEF Inv, TypeOK
    <3> QED BY <1>1, <1>6, <3>1, <3>2 DEF scheduler, xchg, SchPcs
  <2>2. owner'[Ptable] = k /\ owner'[Dev] = owner[Dev] /\ owner' \in [Locks -> CPUs \cup {None}]
    BY <2>1 DEF Inv, TypeOK, Locks, Dev, Ptable
  <2>3. Local(k)'
    BY <1>1, <1>2, <1>3, <1>6, <2>1, <2>2 DEF Local, InDev, InPtable, Once, Twice, AtThread, AtSched, AtIrq
  <2>4. \A lk \in Locks : owner'[lk] # owner[lk] => owner[lk] \in {k, None} /\ owner'[lk] \in {k, None}
    BY <2>1, <2>2 DEF Locks
  <2>5. panic' = FALSE
    BY <2>1 DEF Inv, TypeOK
  <2> QED BY <1>1, <2>1, <2>2, <2>3, <2>4, <2>5, QuietStep
<1>7. ASSUME sch[k] = "loop", sch' = [sch EXCEPT ![k] = "sti"], panic' = BadRelease(k, Ptable),
             owner' = [owner EXCEPT ![Ptable] = None], cpu' = [cpu EXCEPT ![k] = popcli(@)], th' = th
      PROVE  Inv'
  <2> DEFINE c == popcli(cpu[k])
  <2>1. c \in CpuRec /\ c.ncli = 0 /\ c.proc = None /\ c.irq = "none"
    BY <1>1, <1>2, <1>7, Popcli
  <2>2. Idle(c, "sti")
    BY <1>7, <2>1 DEF SchPcs
  <2> HIDE DEF c
  <2>3. /\ owner'[Ptable] = None /\ owner'[Dev] = owner[Dev]
        /\ owner' \in [Locks -> CPUs \cup {None}]
    BY <1>7 DEF Inv, TypeOK, Locks, Dev, Ptable
  <2>4. Local(k)'
    <3>1. cpu'[k] = c /\ sch'[k] = "sti"
      BY <1>3, <2>2
    <3> QED BY <1>1, <1>2, <1>7, <2>1, <2>3, <3>1 DEF Local, InDev, InPtable, Once, Twice, AtThread, AtSched, AtIrq
  <2>5. panic' = FALSE
    <3>1. ~BadRelease(k, Ptable)
      BY <1>2, <1>7 DEF BadRelease
    <3> QED BY <1>7, <3>1
  <2>6. \A lk \in Locks : owner'[lk] # owner[lk] => owner[lk] \in {k, None} /\ owner'[lk] \in {k, None}
    BY <1>2, <1>7, <2>3 DEF Locks
  <2> QED BY <1>1, <2>2, <2>3, <2>4, <2>5, <2>6, QuietStep
<1>8. ASSUME sch[k] = "loop", UNCHANGED <<owner, sch, panic>>, NEW t \in Threads, th[t].state = "RUNNABLE",
             th' = [th EXCEPT ![t].state = "RUNNING"], cpu' = [cpu EXCEPT ![k].proc = t]
      PROVE  Inv'
  <2> DEFINE c == [cpu[k] EXCEPT !.proc = t]
             r == [th[t] EXCEPT !.state = "RUNNING"]
  <2>1. cpu' = [cpu EXCEPT ![k] = c] /\ th' = [th EXCEPT ![t] = r]
    BY <1>8
  <2>2. /\ c \in CpuRec /\ c.ncli = cpu[k].ncli /\ c.proc = t /\ c.irq = "none" /\ c.fl = cpu[k].fl
        /\ t # None
    BY <1>1 DEF CpuRec, SpinAssumption
  <2>3. th[t] \in ThreadRec /\ Parked(t)
    BY DEF Inv, TypeOK, ThreadRec
  <2>4. r \in ThreadRec /\ r.pc = th[t].pc /\ r.state = "RUNNING" /\ r.intena = th[t].intena
    BY <2>3 DEF ThreadRec
  <2>5. r.pc \in {"forkret", "s_back", "y_back"}
    BY <1>8, <2>3, <2>4 DEF Parked
  <2> HIDE DEF c, r
  <2>6. cpu'[k] = c /\ th'[t] = r
    BY <2>1 DEF Inv, TypeOK
  <2>7. Local(k)'
    BY <1>1, <1>2, <1>8, <2>2, <2>4, <2>5, <2>6, OnNext DEF Local, InDev, InPtable, Once, Twice
  <2>8. ASSUME NEW u \in Threads PROVE Parked(u)'
    <3>1. CASE u = t
      BY <3>1, <2>3, <2>4, <2>6 DEF Parked
    <3>2. CASE u # t
      BY <3>2, <2>1 DEF Inv, TypeOK, Parked
    <3> QED BY <3>1, <3>2
  <2>9. /\ th' \in [Threads -> ThreadRec] /\ owner' \in [Locks -> CPUs \cup {None}] /\ panic' = FALSE
        /\ sch' = [sch EXCEPT ![k] = sch[k]]
    BY <1>8, <2>1, <2>4 DEF Inv, TypeOK, ThreadRec
  <2>10. \A u \in Threads : th[u].state = "RUNNING" => th'[u] = th[u]
    BY <1>8, <2>1 DEF Inv, TypeOK
  <2>11. th[c.proc].state # "RUNNING" /\ owner' = owner
    BY <1>8, <2>2
  <2> QED BY <1>1, <2>1, <2>2, <2>7, <2>8, <2>9, <2>10, <2>11, CpuStep
<1>9. CASE sch[k] = "loop"
  BY <1>7, <1>8, <1>9 DEF scheduler
<1> QED BY <1>1, <1>4, <1>5, <1>6, <1>9 DEF SchPcs

-----------------------------------------------------------------------------
(* The theorems. *)

\* Before the first step every processor is about to turn interrupts on.
LEMMA InvInit == SpinAssumption /\ Init => Inv
<1> SUFFICES ASSUME SpinAssumption, Init PROVE Inv
  OBVIOUS
<1>1. TypeOK
  BY DEF Init, TypeOK, IrqPcs, ThreadPcs, SchPcs, CpuRec, ThreadRec
<1>2. OneCpu
  BY DEF Init, OneCpu
<1>3. \A k \in CPUs : Local(k)
  BY DEF Init, Local, InDev, InPtable, Once, Twice, AtThread, AtSched, AtIrq, SpinAssumption,
         Locks, Dev, Ptable
<1>4. \A t \in Threads : Parked(t)
  BY DEF Init, Parked
<1> QED BY <1>1, <1>2, <1>3, <1>4 DEF Inv

\* Every step of a processor keeps the invariant.
LEMMA InvNext == SpinAssumption /\ Inv /\ [Next]_vars => Inv'
<1> SUFFICES ASSUME SpinAssumption, Inv, [Next]_vars PROVE Inv'
  OBVIOUS
<1>1. CASE UNCHANGED vars
  BY <1>1 DEF vars, Inv, TypeOK, OneCpu, Parked, Local, InDev, InPtable, Once, Twice,
              AtThread, AtSched, AtIrq
<1>2. ASSUME NEW k \in CPUs, NEW t \in Threads, syscall(k, t) PROVE Inv'
  BY <1>2, EnterStep, SpinStep, ReleaseStep DEF syscall
<1>3. ASSUME NEW k \in CPUs, NEW t \in Threads, sleep(k, t) PROVE Inv'
  <2>1. CASE Enter(k, t, "inD", "s_spinP", Ptable) \/ Enter(k, t, "s_again", "spinD", Dev)
    BY <2>1, EnterStep
  <2>2. CASE Spin(k, t, "s_spinP", "s_inP", Ptable)
    BY <2>2, SpinStep
  <2>3. CASE Release(k, t, "s_inP", "s_sched", Dev) \/ Release(k, t, "s_relP", "s_again", Ptable)
    BY <2>3, ReleaseStep
  <2>4. CASE sched(k, t, "s_sched", "s_back", "SLEEPING")
    BY <2>4, SchedStep
  <2>5. CASE Resume(k, t, "s_back", "s_relP")
    BY <2>5, ResumeStep
  <2> QED BY <1>3, <2>1, <2>2, <2>3, <2>4, <2>5 DEF sleep
<1>4. ASSUME NEW k \in CPUs, NEW t \in Threads, yield(k, t) PROVE Inv'
  BY <1>4, SpinStep, ReleaseStep, SchedStep, ResumeStep DEF yield
<1>5. ASSUME NEW k \in CPUs, NEW t \in Threads, forkret(k, t) PROVE Inv'
  BY <1>5, ReleaseStep DEF forkret
<1> QED
  BY <1>1, <1>2, <1>3, <1>4, <1>5, IretStep, TimerStep, DeviceStep, IrqTakesStep, IrqWakesStep,
     IrqReleasesStep, SchedulerStep DEF Next

\* Types, the owners of the locks, ncli, FL_IF and intena are right at every
\* place of the code, on every processor.
THEOREM PlacesRight ==
    ASSUME SpinAssumption
    PROVE  Spec => []Inv
BY InvInit, InvNext, PTL DEF Spec

\* No processor holds a lock with interrupts on, ncli counts the locks held and
\* waited for, none of the panics of acquire, release, popcli and sched is
\* reached, and a thread outside of all locks runs with interrupts on: for any
\* number of processors and threads.
THEOREM InterruptsAlwaysRight ==
    ASSUME SpinAssumption
    PROVE  Spec => []InterruptsRight
<1>1. Inv => InterruptsRight
  <2> SUFFICES ASSUME Inv, NEW k \in CPUs
               PROVE  LET held == {lk \in Locks : owner[lk] = k} IN
                      /\ held # {} => ~cpu[k].fl
                      /\ cpu[k].ncli = Cardinality(held) + (IF Waits(k) THEN 1 ELSE 0)
                      /\ Running(k) = "thread" /\ th[cpu[k].proc].pc \in {"run", "s_again"} => cpu[k].fl
    BY DEF InterruptsRight, Inv, TypeOK
  <2> DEFINE held == {lk \in Locks : owner[lk] = k}
             dev == IF owner[Dev] = k THEN 1 ELSE 0
             pt == IF owner[Ptable] = k THEN 1 ELSE 0
  <2>1. Cardinality(held) = dev + pt
    <3>1. Dev # Ptable
      BY DEF Dev, Ptable
    <3>2. CASE owner[Dev] = k /\ owner[Ptable] = k
      <4>1. held = {Dev} \cup {Ptable} /\ Ptable \notin {Dev}
        BY <3>1, <3>2 DEF Locks
      <4>2. IsFiniteSet({Dev}) /\ Cardinality({Dev}) = 1
        BY FS_Singleton
      <4>3. Cardinality(held) = Cardinality({Dev}) + 1
        BY <4>1, <4>2, FS_AddElement
      <4> QED BY <3>2, <4>2, <4>3
    <3>3. CASE owner[Dev] = k /\ owner[Ptable] # k
      <4>1. held = {Dev}
        BY <3>1, <3>3 DEF Locks
      <4> QED BY <3>3, <4>1, FS_Singleton
    <3>4. CASE owner[Dev] # k /\ owner[Ptable] = k
      <4>1. held = {Ptable}
        BY <3>1, <3>4 DEF Locks
      <4> QED BY <3>4, <4>1, FS_Singleton
    <3>5. CASE owner[Dev] # k /\ owner[Ptable] # k
      <4>1. held = {}
        BY <3>5 DEF Locks
      <4> QED BY <3>5, <4>1, FS_EmptySet
    <3> QED BY <3>2, <3>3, <3>4, <3>5
  <2>2. /\ cpu[k].irq \in IrqPcs /\ sch[k] \in SchPcs /\ Local(k)
        /\ cpu[k].proc # None => th[cpu[k].proc].pc \in ThreadPcs
    BY DEF Inv, TypeOK, CpuRec, ThreadRec
  <2>3. cpu[k].ncli = dev + pt + (IF Waits(k) THEN 1 ELSE 0)
    BY <2>2 DEF Local, InDev, InPtable, Once, Twice, AtThread, AtSched, AtIrq, Waits, Running,
                IrqPcs, SchPcs, ThreadPcs
  <2>4. held # {} => ~cpu[k].fl
    BY <2>2 DEF Local, InDev, InPtable, Once, Twice, AtThread, AtSched, AtIrq, Locks
  <2>5. Running(k) = "thread" /\ th[cpu[k].proc].pc \in {"run", "s_again"} => cpu[k].fl
    BY <2>2 DEF Local, AtThread, Running
  <2> QED BY <2>1, <2>3, <2>4, <2>5
<1> QED BY <1>1, PlacesRight, PTL
=============================================================================
