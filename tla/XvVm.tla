-------------------------------- MODULE XvVm --------------------------------
(* User memory of xv6 below MMAPBASE: the page allocator (kalloc.c), page    *)
(* tables (vm.c), sbrk (proc.c, sysproc.c), fork's copy, exec (exec.c), and  *)
(* what exit and wait give back.  kalloc may fail at every call.             *)
(*                                                                           *)
(* Addresses count words, PGSIZE of them in a page; a page table has PTES    *)
(* entries, and one more table stands for those of the kernel.  The frames   *)
(* of mappings at and above MMAPBASE are the subject of Wmap.                *)
EXTENDS Integers, Sequences, FiniteSets, FiniteSetsExt

CONSTANTS Procs,        \* slots of the process table
          NFrames,      \* physical pages
          PGSIZE, PTES,
          NTables,      \* user page tables below MMAPBASE
          Programs,     \* ELF files: sequences of [vaddr, memsz, filesz, whole]
          Sizes,        \* arguments of sbrk
          ArgSizes,     \* words that exec's arguments take on the stack
          MaxCalls,     \* bound: system calls in a behaviour
          None

\* What the code assumes of its parameters.
VmAssumption ==
    /\ MaxCalls \in Nat
    /\ NFrames \in Nat /\ PGSIZE \in Nat \ {0} /\ PTES \in Nat \ {0} /\ NTables \in Nat \ {0}
    /\ Sizes \subseteq Int /\ ArgSizes \subseteq Nat /\ IsFiniteSet(Procs) /\ Procs # {}

Frames == 1..NFrames
Pages == 0..NTables * PTES - 1
MMAPBASE == NTables * PTES * PGSIZE
WORD == 4 * MMAPBASE     \* addresses wrap around here
KTable == NTables        \* the kernel's table in a directory

VARIABLES
    free,     \* kmem.freelist
    proc,     \* state, kstack, mem, sz and esp (as exec set it) of each slot
    new,      \* the image that exec builds: mem, sz, segments left, stage
    panic,
    calls     \* system calls so far

vars == <<free, proc, new, panic, calls>>

-----------------------------------------------------------------------------
(* kalloc.c and vm.c, as functions on the allocator and one page directory:  *)
(* free, dir, tabs, pages, guard (pages without PTE_U), ok (FALSE on -1 or   *)
(* 0), bad (a panic)                                                         *)

Up(a) == (a + PGSIZE - 1) \div PGSIZE       \* PGROUNDUP, as a page number

NoMem == [dir |-> 0, tabs |-> [t \in 0..NTables |-> 0], pages |-> [g \in Pages |-> 0], guard |-> {}]
With(m, f) == [free |-> f, dir |-> m.dir, tabs |-> m.tabs, pages |-> m.pages, guard |-> m.guard,
               ok |-> TRUE, bad |-> FALSE]
MemOf(s) == [dir |-> s.dir, tabs |-> s.tabs, pages |-> s.pages, guard |-> s.guard]

\* kalloc takes the frame at the head of the list (which one does not matter);
\* kfree puts frames there that were in use.
Top(s) == Min(s.free)
KFree(s, F) == [s EXCEPT !.free = @ \cup (F \ {0}), !.bad = @ \/ (F \cap s.free # {})]

\* walkpgdir with alloc: the page table is there, or takes a frame.
walkpgdir(s, t) == IF s.tabs[t] # 0 THEN s
                   ELSE IF s.free = {} THEN [s EXCEPT !.ok = FALSE]
                   ELSE [s EXCEPT !.tabs[t] = Top(s), !.free = @ \ {Top(s)}]

\* mappages of one page of user memory.
mappages(s, g, frame) ==
    LET w == walkpgdir(s, g \div PTES) IN
    IF w.ok THEN [w EXCEPT !.pages[g] = frame, !.bad = @ \/ s.pages[g] # 0] ELSE w

\* kalloc, then mappages; the frame goes back if there is no page table.
NewPage(s, g) ==
    IF s.free = {} THEN [s EXCEPT !.ok = FALSE]
    ELSE LET m == mappages([s EXCEPT !.free = @ \ {Top(s)}], g, Top(s))
         IN  IF m.ok THEN m ELSE KFree(m, {Top(s)})

\* The pages first..last one after the other, up to the first failure.
NewPages(s, first, last) ==
    LET A[k \in 0..last - first + 1] ==
            IF k = 0 THEN s
            ELSE LET t == A[k - 1] IN IF t.ok THEN NewPage(t, first + k - 1) ELSE t
    IN  IF first > last THEN s ELSE A[last - first + 1]

deallocuvm(s, oldsz, newsz) ==
    LET G == {g \in Pages : g >= Up(newsz) /\ g * PGSIZE < oldsz}
    IN  [KFree(s, {s.pages[g] : g \in G}) EXCEPT !.pages = [g \in Pages |-> IF g \in G THEN 0 ELSE @[g]],
                                                 !.guard = @ \ G]

\* Mutant: what was allocated before the failure stays.
Keeps(s, oldsz, newsz) == s
Unwound(s, oldsz, newsz) == deallocuvm(s, newsz, oldsz)

allocuvm(s, oldsz, newsz) ==
    IF newsz >= MMAPBASE THEN [s EXCEPT !.ok = FALSE]
    ELSE LET t == NewPages(s, Up(oldsz), Up(newsz) - 1)
         IN  IF t.ok THEN t ELSE Unwound(t, oldsz, newsz)
\* The size that allocuvm returns.
Grown(oldsz, newsz) == IF newsz < oldsz THEN oldsz ELSE newsz

freevm(s) == LET t == deallocuvm(s, MMAPBASE, 0)
             IN  With(NoMem, KFree(t, {t.tabs[k] : k \in DOMAIN t.tabs} \cup {t.dir}).free)

\* A directory with the kernel's part.
setupkvm(f) ==
    IF f = {} THEN [With(NoMem, f) EXCEPT !.ok = FALSE]
    ELSE LET s == [With(NoMem, f \ {Min(f)}) EXCEPT !.dir = Min(f)]
             w == walkpgdir(s, KTable)
         IN  IF w.ok THEN w ELSE [freevm(w) EXCEPT !.ok = FALSE]

\* fork's copy of the pages below sz.
copyuvm(m, sz, f) ==
    LET d == setupkvm(f)
        c == NewPages(d, 0, Up(sz) - 1) IN
    IF ~d.ok THEN d
    ELSE IF \E g \in 0..Up(sz) - 1 : m.pages[g] = 0 THEN [d EXCEPT !.bad = TRUE]
    ELSE IF c.ok THEN [c EXCEPT !.guard = m.guard] ELSE [freevm(c) EXCEPT !.ok = FALSE]

-----------------------------------------------------------------------------
(* Processes *)

Unused == [state |-> "unused", kstack |-> 0, mem |-> NoMem, sz |-> 0, esp |-> 0]

\* A process whose code is mapped; without it the next instruction faults.
Runs(p) == proc[p].state = "run" /\ proc[p].mem.pages[0] # 0 /\ new[p] = None /\ ~panic
Calls(p) == Runs(p) /\ calls < MaxCalls /\ calls' = calls + 1

fork(p, q) ==
    LET k == Min(free)
        c == copyuvm(proc[p].mem, proc[p].sz, free \ {k}) IN
    /\ Calls(p) /\ proc[q].state = "unused" /\ free # {}
    /\ IF c.ok THEN /\ free' = c.free
                    /\ proc' = [proc EXCEPT ![q] = [state |-> "run", kstack |-> k,
                                                    mem |-> MemOf(c), sz |-> proc[p].sz,
                                                    esp |-> proc[p].esp]]
       ELSE free' = c.free \cup {k} /\ UNCHANGED proc
    /\ panic' = c.bad /\ UNCHANGED new

exit(p) == /\ proc[p].state = "run" /\ new[p] = None /\ ~panic
           /\ \E q \in Procs \ {p} : proc[q].state # "unused"    \* init never exits
           /\ proc' = [proc EXCEPT ![p].state = "zombie"]
           /\ UNCHANGED <<free, new, panic, calls>>

\* wait by the parent: the stack, then freevm.
reap(p) == LET s == freevm(KFree(With(proc[p].mem, free), {proc[p].kstack})) IN
           /\ proc[p].state = "zombie" /\ ~panic
           /\ free' = s.free /\ panic' = s.bad
           /\ proc' = [proc EXCEPT ![p] = Unused]
           /\ UNCHANGED <<new, calls>>

\* sbrk: growproc with sz + n in 32 bits.
sbrk(p, n) ==
    LET sz == proc[p].sz
        to == (sz + n) % WORD
        a == allocuvm(With(proc[p].mem, free), sz, to)
        d == deallocuvm(With(proc[p].mem, free), sz, to) IN
    /\ Calls(p)
    /\ \/ /\ n > 0 /\ free' = a.free /\ panic' = a.bad
          /\ proc' = [proc EXCEPT ![p] = [@ EXCEPT !.mem = MemOf(a),
                                             !.sz = IF a.ok THEN Grown(sz, to) ELSE sz]]
       \/ /\ n < 0 /\ to < sz /\ free' = d.free /\ panic' = d.bad
          /\ proc' = [proc EXCEPT ![p] = [@ EXCEPT !.mem = MemOf(d),
                                             !.sz = IF to = 0 THEN sz ELSE to]]
       \/ n < 0 /\ to >= sz /\ UNCHANGED <<free, proc, panic>>
    /\ UNCHANGED new

-----------------------------------------------------------------------------
(* exec *)

\* Mutant: a failing exec drops its image without freeing it.
DropImage(s) == s.free
FreeImage(s) == freevm(s).free

\* bad: the new image is freed, the old one stays.
ExecFails(p, s) == /\ free' = FreeImage(s) /\ panic' = s.bad
                   /\ new' = [new EXCEPT ![p] = None] /\ UNCHANGED proc
Builds(p, s, sz, rest, stage) ==
    /\ free' = s.free /\ panic' = s.bad
    /\ new' = [new EXCEPT ![p] = [mem |-> MemOf(s), sz |-> sz, rest |-> rest, stage |-> stage]]
    /\ UNCHANGED proc

exec(p, prog) ==
    LET s == setupkvm(free) IN
    /\ Calls(p)
    /\ IF s.ok THEN Builds(p, s, 0, prog, "load")
       ELSE free' = s.free /\ UNCHANGED <<proc, new, panic>>

\* loaduvm needs the pages of the segment.
Loads(s, seg) == \A g \in Pages : g * PGSIZE >= seg.vaddr /\ g * PGSIZE < seg.vaddr + seg.filesz
                                  => s.pages[g] # 0

\* One segment; its part of the file may end too early.
exec_load(p) ==
    LET x == new[p]
        seg == Head(x.rest)
        end == (seg.vaddr + seg.memsz) % WORD
        s == allocuvm(With(x.mem, free), x.sz, end)
        sz == Grown(x.sz, end) IN
    /\ x # None /\ x.stage = "load" /\ x.rest # <<>> /\ ~panic
    /\ IF seg.memsz < seg.filesz \/ end < seg.vaddr THEN ExecFails(p, With(x.mem, free))
       ELSE IF ~s.ok \/ sz = 0 \/ seg.vaddr % PGSIZE # 0 \/ ~seg.whole THEN ExecFails(p, s)
       ELSE Builds(p, [s EXCEPT !.bad = @ \/ ~Loads(s, seg)], sz, Tail(x.rest), "load")

\* The guard page and the stack.
exec_stack(p) ==
    LET x == new[p]
        base == Up(x.sz) * PGSIZE
        sz == base + 2 * PGSIZE
        s == allocuvm(With(x.mem, free), base, sz) IN
    /\ x # None /\ x.stage = "load" /\ x.rest = <<>> /\ ~panic
    /\ IF s.ok THEN Builds(p, [s EXCEPT !.guard = @ \cup {Up(x.sz)}], sz, <<>>, "args")
       ELSE ExecFails(p, s)

\* copyout through uva2ka: every page must be there for the user.
\* Mutant: the arguments may run over the guard page.
CopyoutPresent(m, sp, n) == \A a \in sp..sp + n - 1 : m.pages[a \div PGSIZE] # 0
copyout(m, sp, n) == \A a \in sp..sp + n - 1 :
                         m.pages[a \div PGSIZE] # 0 /\ a \div PGSIZE \notin m.guard

\* The arguments, then the commit to the new image.
exec_args(p, n) ==
    LET x == new[p] IN
    /\ x # None /\ x.stage = "args" /\ ~panic /\ n <= x.sz
    /\ IF copyout(x.mem, x.sz - n, n)
       THEN LET s == freevm(With(proc[p].mem, free)) IN
            /\ free' = s.free /\ panic' = s.bad
            /\ proc' = [proc EXCEPT ![p] = [@ EXCEPT !.mem = x.mem, !.sz = x.sz, !.esp = x.sz - n]]
            /\ new' = [new EXCEPT ![p] = None]
       ELSE ExecFails(p, With(x.mem, free))

-----------------------------------------------------------------------------
\* userinit: a stack, a directory and one page (inituvm).
FirstMem == NewPage(setupkvm(Frames \ {1}), 0)
Init ==
    /\ \E p \in Procs : proc = [q \in Procs |->
           IF q = p THEN [state |-> "run", kstack |-> 1, mem |-> MemOf(FirstMem),
                          sz |-> PGSIZE, esp |-> PGSIZE]
           ELSE Unused]
    /\ free = FirstMem.free
    /\ new = [p \in Procs |-> None] /\ panic = FALSE /\ calls = 0

Next == \E p \in Procs :
            \/ \E q \in Procs : fork(p, q)
            \/ exit(p) \/ reap(p)
            \/ \E n \in Sizes : sbrk(p, n)
            \/ \E prog \in Programs : exec(p, prog)
            \/ UNCHANGED calls /\ (exec_load(p) \/ exec_stack(p) \/ \E n \in ArgSizes : exec_args(p, n))

Spec == Init /\ [][Next]_vars

-----------------------------------------------------------------------------
FramesIn(m) == {m.dir} \cup {m.tabs[t] : t \in DOMAIN m.tabs} \cup {m.pages[g] : g \in Pages}
CountIn(m) == Cardinality({t \in DOMAIN m.tabs : m.tabs[t] # 0})
              + Cardinality({g \in Pages : m.pages[g] # 0}) + (IF m.dir = 0 THEN 0 ELSE 1)

\* The images there are, with the stack of the process.
Images == {<<proc[p].mem, proc[p].kstack>> : p \in Procs}
          \cup {<<new[p].mem, 0>> : p \in {q \in Procs : new[q] # None}}
InUse == UNION {FramesIn(i[1]) \cup {i[2]} : i \in Images} \ {0}

(* Every frame is on the free list or has exactly one use, as a directory, a *)
(* page table, a user page or a stack: whatever fails half way, nothing is   *)
(* lost, freed twice or given to two (vm.c:221-345, exec.c:38-113).          *)
FramesExact ==
    /\ free \subseteq Frames /\ ~panic
    /\ free \cap InUse = {} /\ free \cup InUse = Frames
    /\ Cardinality(InUse) = FoldSet(LAMBDA p, n : n + CountIn(proc[p].mem)
           + (IF proc[p].kstack = 0 THEN 0 ELSE 1)
           + (IF new[p] = None THEN 0 ELSE CountIn(new[p].mem)), 0, Procs)

(* A process that can run has all the pages below its size and no others: a  *)
(* failed sbrk, fork or exec leaves its memory alone, and the arguments of   *)
(* exec stay inside the stack page (proc.c:160-178, exec.c:96-113).          *)
ImagesWhole ==
    \A p \in Procs : Runs(p) =>
        /\ \A g \in proc[p].mem.guard : proc[p].esp >= (g + 1) * PGSIZE
        /\ {g \in Pages : proc[p].mem.pages[g] # 0} = {g \in Pages : g * PGSIZE < proc[p].sz}
=============================================================================
