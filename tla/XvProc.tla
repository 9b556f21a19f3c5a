------------------------------- MODULE XvProc -------------------------------
(* Processes and a pipe in xv6: proc.c (fork, exit, wait, kill, sleep,       *)
(* wakeup, the scheduler), pipe.c, and the file references between them.     *)
(*                                                                           *)
(* What happens under ptable.lock is one step, as is a critical section of   *)
(* the pipe's lock up to the place where it takes ptable.lock to sleep:      *)
(* killed is read before that, so a kill may come in between.  Interrupts    *)
(* are off while a spin lock is held.  A descriptor is one end of the pipe.  *)
EXTENDS Integers, FiniteSets, Sequences

CONSTANTS NPROC, NCPU,
          PIPESIZE, WORD,      \* WORD is 2^32, what nread and nwrite wrap at
          Sizes,               \* how much a client reads or writes at once
          KillPids,            \* arguments of kill
          MaxPid, MaxBytes, MaxKills,   \* bounds
          NULL

Slots == 1..NPROC
initproc == 1
Ends == {"r", "w"}

\* struct pipe; the bytes are their numbers.
Pipes == [data : [0..(PIPESIZE - 1) -> Nat], nread : Nat, nwrite : Nat,
          readopen : BOOLEAN, writeopen : BOOLEAN]

ASSUME ProcAssumption ==
    /\ NPROC \in Nat \ {0} /\ NCPU \in Nat \ {0}
    /\ PIPESIZE \in Nat \ {0} /\ WORD \in Nat /\ WORD > PIPESIZE /\ WORD % PIPESIZE = 0
    /\ Sizes \subseteq Nat \ {0} /\ KillPids \subseteq Nat \ {1}
    /\ MaxPid \in Nat /\ MaxBytes \in Nat /\ MaxKills \in Nat
    /\ NULL \notin Nat \cup Ends \cup Pipes

VARIABLES
    state, pid, parent, chan, killed,   \* struct proc, by slot
    nextpid,
    ofile, ref,            \* the ends a process has open; ftable's counts
    pipe,                  \* struct pipe, or NULL
    plock,                 \* who holds pipe.lock across steps
    pc, left, child, closing,   \* a process's control and locals
    sent, got,             \* history: bytes written (their numbers are the data), bytes read
    gaveUp,                \* history: a killed writer left a full pipe
    nomaps,                \* history: a fork failed in copy_maps
    kills

tvars == <<state, pid, parent, chan, killed, nextpid>>
fvars == <<ofile, ref>>
lvars == <<pc, left, child, closing>>
hvars == <<sent, got, gaveUp, nomaps>>
vars == <<tvars, fvars, pipe, plock, lvars, hvars, kills>>

-----------------------------------------------------------------------------
(* Sleeping and running *)

OnProc(p) == <<"proc", p>>
OnRead == <<"nread", 0>>
OnWrite == <<"nwrite", 0>>
Nowhere == <<"none", 0>>

\* wakeup1: st is the table's state column.
Wakened(st, c) == [p \in Slots |-> IF st[p] = "SLEEPING" /\ chan[p] = c THEN "RUNNABLE" ELSE st[p]]

\* A process that executes the kernel or its program.
Runs(p) == state[p] = "RUNNING"

\* It is scheduled and sleep, if it is there, tidies up.
scheduler(p) ==
    /\ state[p] = "RUNNABLE" /\ Cardinality({q \in Slots : Runs(q)}) < NCPU
    /\ state' = [state EXCEPT ![p] = "RUNNING"] /\ chan' = [chan EXCEPT ![p] = Nowhere]
    /\ UNCHANGED <<pid, parent, killed, nextpid, fvars, pipe, plock, lvars, hvars, kills>>

\* The clock ticks.
yield(p) ==
    /\ Runs(p) /\ plock # p
    /\ state' = [state EXCEPT ![p] = "RUNNABLE"]
    /\ UNCHANGED <<pid, parent, chan, killed, nextpid, fvars, pipe, plock, lvars, hvars, kills>>

\* The process may make a system call: trap sends a killed one to exit.
MayCall(p) == Runs(p) /\ pc[p] = "user" /\ closing[p] = NULL /\ ~killed[p]

-----------------------------------------------------------------------------
(* fork *)

Unused == {q \in Slots : state[q] = "UNUSED"}
FirstOf(S) == CHOOSE q \in S : \A r \in S : q <= r

allocproc(p) ==
    LET np == FirstOf(Unused) IN
    /\ MayCall(p) /\ Unused # {} /\ nextpid <= MaxPid
    /\ state' = [state EXCEPT ![np] = "EMBRYO"]
    /\ pid' = [pid EXCEPT ![np] = nextpid] /\ nextpid' = nextpid + 1
    /\ pc' = [pc EXCEPT ![p] = "fork"] /\ child' = [child EXCEPT ![p] = np]
    /\ UNCHANGED <<parent, chan, killed, fvars, pipe, plock, left, closing, hvars, kills>>

\* fork gives the slot back as it is.
Abandon(p) == /\ state' = [state EXCEPT ![child[p]] = "UNUSED"]
              /\ pc' = [pc EXCEPT ![p] = "user"] /\ child' = [child EXCEPT ![p] = NULL]

\* No memory for the stack or for copyuvm.
fork_nomem(p) ==
    /\ Runs(p) /\ pc[p] = "fork"
    /\ Abandon(p)
    /\ UNCHANGED <<pid, parent, chan, killed, nextpid, fvars, pipe, plock, left, closing, hvars, kills>>

\* The parent is set and the files are duplicated without ptable.lock.
fork_copy(p) ==
    LET np == child[p] IN
    /\ Runs(p) /\ pc[p] = "fork"
    /\ parent' = [parent EXCEPT ![np] = p]
    /\ ofile' = [ofile EXCEPT ![np] = @ \cup ofile[p]]
    /\ ref' = [e \in Ends |-> ref[e] + (IF e \in ofile[p] THEN 1 ELSE 0)]
    /\ pc' = [pc EXCEPT ![p] = "copy_maps"]
    /\ UNCHANGED <<state, pid, chan, killed, nextpid, pipe, plock, left, child, closing, hvars, kills>>

\* copy_maps fails: the parent, the pid and the open files stay in the slot.
fork_nomaps(p) ==
    /\ Runs(p) /\ pc[p] = "copy_maps"
    /\ Abandon(p) /\ nomaps' = TRUE
    /\ UNCHANGED <<pid, parent, chan, killed, nextpid, fvars, pipe, plock, left, closing,
                   sent, got, gaveUp, kills>>

fork_done(p) ==
    /\ Runs(p) /\ pc[p] = "copy_maps"
    /\ state' = [state EXCEPT ![child[p]] = "RUNNABLE"]
    /\ pc' = [pc EXCEPT ![p] = "user", ![child[p]] = "user"]
    /\ child' = [child EXCEPT ![p] = NULL]
    /\ UNCHANGED <<pid, parent, chan, killed, nextpid, fvars, pipe, plock, left, closing, hvars, kills>>

-----------------------------------------------------------------------------
(* exit, wait, kill *)

\* Asked for by the process, or forced by trap on one that was killed.
CallExit(p) ==
    /\ Runs(p) /\ p # initproc /\ pc[p] = "user" /\ closing[p] = NULL
    /\ pc' = [pc EXCEPT ![p] = "exit"]
    /\ UNCHANGED <<tvars, fvars, pipe, plock, left, child, closing, hvars, kills>>

\* Mutant: init is woken instead of the parent.
TellInit(p) == Wakened(state, OnProc(initproc))
\* The parent may be asleep in wait.
TellParent(p) == Wakened(state, OnProc(parent[p]))

\* init is woken if a child it inherits is a zombie.
Heirs(p, st) == IF \E q \in Slots : parent[q] = p /\ st[q] = "ZOMBIE"
                THEN Wakened(st, OnProc(initproc)) ELSE st

\* Mutant: the children keep their parent.
PassNothing(p) == parent
PassChildren(p) == [q \in Slots |-> IF parent[q] = p THEN initproc ELSE parent[q]]

exit(p) ==
    /\ Runs(p) /\ pc[p] = "exit" /\ closing[p] = NULL /\ ofile[p] = {}
    /\ state' = [Heirs(p, TellParent(p)) EXCEPT ![p] = "ZOMBIE"]
    /\ parent' = PassChildren(p)
    /\ pc' = [pc EXCEPT ![p] = "gone"]
    /\ UNCHANGED <<pid, chan, killed, nextpid, fvars, pipe, plock, left, child, closing, hvars, kills>>

CallWait(p) ==
    /\ MayCall(p) /\ pc' = [pc EXCEPT ![p] = "wait"]
    /\ UNCHANGED <<tvars, fvars, pipe, plock, left, child, closing, hvars, kills>>

Kids(p) == {q \in Slots : parent[q] = p}
Zombies(p) == {q \in Kids(p) : state[q] = "ZOMBIE"}

\* One scan of the table: a zombie is freed, or there is nothing to wait for,
\* or the process sleeps on itself.
wait(p) ==
    LET z == FirstOf(Zombies(p)) IN
    /\ Runs(p) /\ pc[p] = "wait"
    /\ \/ /\ Zombies(p) # {}
          /\ state' = [state EXCEPT ![z] = "UNUSED"] /\ pid' = [pid EXCEPT ![z] = 0]
          /\ parent' = [parent EXCEPT ![z] = NULL] /\ killed' = [killed EXCEPT ![z] = FALSE]
          /\ pc' = [pc EXCEPT ![p] = "user"] /\ UNCHANGED chan
       \/ /\ Zombies(p) = {} /\ (Kids(p) = {} \/ killed[p])
          /\ pc' = [pc EXCEPT ![p] = "user"] /\ UNCHANGED <<state, pid, parent, chan, killed>>
       \/ /\ Zombies(p) = {} /\ Kids(p) # {} /\ ~killed[p]
          /\ state' = [state EXCEPT ![p] = "SLEEPING"] /\ chan' = [chan EXCEPT ![p] = OnProc(p)]
          /\ UNCHANGED <<pid, parent, killed, pc>>
    /\ UNCHANGED <<nextpid, fvars, pipe, plock, left, child, closing, hvars, kills>>

\* The first slot with that pid, in whatever state it is.
kill(p, n) ==
    LET q == FirstOf({r \in Slots : pid[r] = n}) IN
    /\ MayCall(p) /\ n \in KillPids /\ kills < MaxKills /\ kills' = kills + 1
    /\ \E r \in Slots : pid[r] = n
    /\ killed' = [killed EXCEPT ![q] = TRUE]
    /\ state' = [state EXCEPT ![q] = IF @ = "SLEEPING" THEN "RUNNABLE" ELSE @]
    /\ UNCHANGED <<pid, parent, chan, nextpid, fvars, pipe, plock, lvars, hvars>>

-----------------------------------------------------------------------------
(* The pipe *)

Empty == pipe.nread = pipe.nwrite
\* How many bytes there are, in unsigned arithmetic.
Used == (pipe.nwrite - pipe.nread) % WORD
\* Mutant: one byte more than fits.
RoomMore == PIPESIZE + 1 - Used
Room == PIPESIZE - Used

\* sys_pipe, when it finds two files and a page.
pipealloc(p) ==
    /\ MayCall(p) /\ p # initproc /\ pipe = NULL /\ sent = 0 /\ ref = [e \in Ends |-> 0]
    /\ pipe' = [data |-> [i \in 0..(PIPESIZE - 1) |-> 0], nread |-> 0, nwrite |-> 0,
                readopen |-> TRUE, writeopen |-> TRUE]
    /\ ref' = [e \in Ends |-> 1] /\ ofile' = [ofile EXCEPT ![p] = Ends]
    /\ UNCHANGED <<tvars, plock, lvars, hvars, kills>>

CallRead(p, n) ==
    /\ MayCall(p) /\ "r" \in ofile[p] /\ n \in Sizes
    /\ pc' = [pc EXCEPT ![p] = "read"] /\ left' = [left EXCEPT ![p] = n]
    /\ UNCHANGED <<tvars, fvars, pipe, plock, child, closing, hvars, kills>>

CallWrite(p, n) ==
    /\ MayCall(p) /\ "w" \in ofile[p] /\ n \in Sizes /\ sent + n <= MaxBytes
    /\ pc' = [pc EXCEPT ![p] = "write"] /\ left' = [left EXCEPT ![p] = n]
    /\ UNCHANGED <<tvars, fvars, pipe, plock, child, closing, hvars, kills>>

Return(p) == pc' = [pc EXCEPT ![p] = "user"] /\ left' = [left EXCEPT ![p] = 0]

Least(a, b) == IF a <= b THEN a ELSE b

\* From acquire to the next sleep or to release.
piperead(p) ==
    LET n == Least(left[p], Used) IN
    /\ Runs(p) /\ pc[p] = "read" /\ plock = NULL
    /\ IF Empty /\ pipe.writeopen
       THEN /\ \/ killed[p] /\ Return(p) /\ UNCHANGED plock
               \/ /\ ~killed[p] /\ plock' = p /\ pc' = [pc EXCEPT ![p] = "rsleep"]
                  /\ UNCHANGED left
            /\ UNCHANGED <<state, pipe, got>>
       ELSE /\ got' = got \o [i \in 1..n |-> pipe.data[(pipe.nread + i - 1) % PIPESIZE]]
            /\ pipe' = [pipe EXCEPT !.nread = (@ + n) % WORD]
            /\ state' = Wakened(state, OnWrite)
            /\ Return(p) /\ UNCHANGED plock
    /\ UNCHANGED <<pid, parent, chan, killed, nextpid, fvars, child, closing, sent, gaveUp, nomaps, kills>>

\* The pipe with n more bytes.
Put(n) == [pipe EXCEPT !.nwrite = (@ + n) % WORD,
                       !.data = [j \in DOMAIN pipe.data |->
                          IF \E i \in 1..n : (pipe.nwrite + i - 1) % PIPESIZE = j
                          THEN sent + CHOOSE i \in 1..n : (pipe.nwrite + i - 1) % PIPESIZE = j
                          ELSE pipe.data[j]]]

pipewrite(p) ==
    LET n == Least(left[p], Room) IN
    /\ Runs(p) /\ pc[p] = "write" /\ plock = NULL
    /\ pipe' = Put(n) /\ sent' = sent + n
    /\ \/ /\ n = left[p]
          /\ state' = Wakened(state, OnRead) /\ Return(p) /\ UNCHANGED <<plock, gaveUp>>
       \/ /\ n < left[p] /\ (~pipe.readopen \/ killed[p])
          /\ Return(p) /\ gaveUp' = (gaveUp \/ pipe.readopen) /\ UNCHANGED <<state, plock>>
       \/ /\ n < left[p] /\ pipe.readopen /\ ~killed[p]
          /\ state' = Wakened(state, OnRead) /\ plock' = p
          /\ pc' = [pc EXCEPT ![p] = "wsleep"] /\ left' = [left EXCEPT ![p] = @ - n]
          /\ UNCHANGED gaveUp
    /\ UNCHANGED <<pid, parent, chan, killed, nextpid, fvars, child, closing, got, nomaps, kills>>

\* sleep: ptable.lock is taken before the pipe's lock is released.
sleep(p) ==
    /\ Runs(p) /\ pc[p] \in {"rsleep", "wsleep"}
    /\ state' = [state EXCEPT ![p] = "SLEEPING"]
    /\ chan' = [chan EXCEPT ![p] = IF pc[p] = "rsleep" THEN OnRead ELSE OnWrite]
    /\ plock' = NULL
    /\ pc' = [pc EXCEPT ![p] = IF @ = "rsleep" THEN "read" ELSE "write"]
    /\ UNCHANGED <<pid, parent, killed, nextpid, fvars, pipe, left, child, closing, hvars, kills>>

\* sys_close, or exit on its way: the last reference closes the end.
fileclose(p, e) ==
    /\ Runs(p) /\ closing[p] = NULL /\ e \in ofile[p]
    /\ pc[p] = "exit" \/ (pc[p] = "user" /\ ~killed[p])
    /\ ofile' = [ofile EXCEPT ![p] = @ \ {e}] /\ ref' = [ref EXCEPT ![e] = @ - 1]
    /\ closing' = [closing EXCEPT ![p] = IF ref[e] = 1 THEN e ELSE NULL]
    /\ UNCHANGED <<tvars, pipe, plock, pc, left, child, hvars, kills>>

\* Mutant: the other side is not woken.
ShutQuietly(e) == state
Shut(e) == Wakened(state, IF e = "w" THEN OnRead ELSE OnWrite)

pipeclose(p) ==
    LET e == closing[p] IN
    /\ Runs(p) /\ e # NULL /\ plock = NULL
    /\ state' = Shut(e)
    /\ pipe' = IF e = "w"
               THEN IF pipe.readopen THEN [pipe EXCEPT !.writeopen = FALSE] ELSE NULL
               ELSE IF pipe.writeopen THEN [pipe EXCEPT !.readopen = FALSE] ELSE NULL
    /\ closing' = [closing EXCEPT ![p] = NULL]
    /\ UNCHANGED <<pid, parent, chan, killed, nextpid, fvars, plock, pc, left, child, hvars, kills>>

-----------------------------------------------------------------------------
\* userinit has made the first process.
Init ==
    /\ state = [p \in Slots |-> IF p = initproc THEN "RUNNABLE" ELSE "UNUSED"]
    /\ pid = [p \in Slots |-> IF p = initproc THEN 1 ELSE 0] /\ nextpid = 2
    /\ parent = [p \in Slots |-> NULL] /\ chan = [p \in Slots |-> Nowhere]
    /\ killed = [p \in Slots |-> FALSE]
    /\ ofile = [p \in Slots |-> {}] /\ ref = [e \in Ends |-> 0]
    /\ pipe = NULL /\ plock = NULL
    /\ pc = [p \in Slots |-> IF p = initproc THEN "user" ELSE "gone"]
    /\ left = [p \in Slots |-> 0] /\ child = [p \in Slots |-> NULL]
    /\ closing = [p \in Slots |-> NULL]
    /\ sent = 0 /\ got = <<>> /\ gaveUp = FALSE /\ nomaps = FALSE /\ kills = 0

Calls(p) ==
    \/ allocproc(p) \/ CallExit(p) \/ CallWait(p) \/ pipealloc(p)
    \/ \E n \in Sizes : CallRead(p, n) \/ CallWrite(p, n)
    \/ \E n \in KillPids : kill(p, n)

\* What a process in the kernel does next.
Steps(p) ==
    \/ fork_nomem(p) \/ fork_copy(p) \/ fork_nomaps(p) \/ fork_done(p)
    \/ exit(p) \/ wait(p) \/ piperead(p) \/ pipewrite(p) \/ sleep(p) \/ pipeclose(p)

Next == \E p \in Slots :
    \/ scheduler(p) \/ yield(p) \/ Calls(p) \/ Steps(p)
    \/ \E e \in Ends : fileclose(p, e)

Spec == Init /\ [][Next]_vars

\* What is not up to the programs: the kernel goes on, a killed process traps
\* and exits, exit closes its files, init waits.
Proceeds(p) ==
    \/ Steps(p)
    \/ killed[p] /\ CallExit(p)
    \/ pc[p] = "exit" /\ \E e \in Ends : fileclose(p, e)
    \/ p = initproc /\ CallWait(p)

\* The scheduler goes round the table, so a process that is RUNNABLE again and
\* again is run, and between two ticks a process gets somewhere.
Fairness == \A p \in Slots : SF_vars(scheduler(p)) /\ SF_vars(Proceeds(p))

FairSpec == Spec /\ Fairness
-----------------------------------------------------------------------------
(* Properties *)

\* Whoever sleeps has something to sleep for, whatever exit, kill, fork and
\* the other end of the pipe did between its test and its sleep: in wait there
\* is no zombie to fetch, nobody has killed the process and it has a child; a
\* reader's pipe is empty and open for writing, a writer's is full and open for
\* reading.  There are two exceptions, a reader left asleep by a writer that was
\* killed when the pipe was full (pipewrite returns -1 without a wakeup) and,
\* after a fork that failed in copy_maps, a process that waits for the slot.
NoLostWakeup == \A p \in Slots : state[p] = "SLEEPING" =>
    /\ chan[p] = OnProc(p) => /\ Zombies(p) = {} /\ ~killed[p]
                              /\ nomaps \/ \E q \in Kids(p) : state[q] # "UNUSED"
    /\ chan[p] = OnRead /\ ~gaveUp => Empty /\ pipe.writeopen
    /\ chan[p] = OnWrite => Room = 0 /\ pipe.readopen

\* wait's comment: "Return -1 if this process has no children."  Who sleeps in
\* wait has a child that exists.  It fails after a fork that fails in copy_maps.
WaitersHaveChildren == \A p \in Slots : state[p] = "SLEEPING" /\ chan[p] = OnProc(p) =>
    \E q \in Kids(p) : state[q] # "UNUSED"

\* The bytes come out once and in order, also when the counters wrap around.
PipeFifo == pipe # NULL =>
    got \o [i \in 1..Used |-> pipe.data[(pipe.nread + i - 1) % PIPESIZE]] = [i \in 1..sent |-> i]

\* A process that exists has a parent that can wait for it, an end that some
\* process has open is counted and not closed, and whoever holds a spin lock
\* has a processor.
Owned ==
    /\ \A p \in Slots \ {initproc} : state[p] \notin {"UNUSED", "EMBRYO"} =>
          parent[p] # NULL /\ state[parent[p]] \notin {"UNUSED", "EMBRYO", "ZOMBIE"}
    /\ \A e \in Ends : LET holders == {p \in Slots : e \in ofile[p]} IN
          /\ Cardinality(holders) <= ref[e]
          /\ holders # {} => pipe # NULL /\ (IF e = "r" THEN pipe.readopen ELSE pipe.writeopen)
    /\ plock # NULL => Runs(plock)

Due(p) ==
    \/ pc[p] = "wait" /\ (Zombies(p) # {} \/ killed[p])
    \/ pc[p] = "read" /\ ~pipe.writeopen
    \/ pc[p] = "write" /\ ~pipe.readopen
    \/ state[p] = "ZOMBIE" /\ parent[p] = initproc

\* wait returns when a child has exited and when the process is killed, a read
\* when the last writer is gone, a write when the last reader is; init fetches
\* the orphans that exit.
CallsReturn == \A p \in Slots : Due(p) ~> ~Due(p)
=============================================================================
