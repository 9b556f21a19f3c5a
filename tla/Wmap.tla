-------------------------------- MODULE Wmap --------------------------------
(* Memory mappings of the xv6 kernel: wmap.c with the parts of proc.c, exec.c,*)
(* vm.c, kalloc.c and file.c it calls.                                       *)
(*                                                                           *)
(* A process's linked list of mmap_region is a sequence; a slot of mmaps[] is*)
(* in use exactly when it is in the list, so a free slot exists while the    *)
(* list is shorter than MAX_NMMAP.  A system call is one action: it works on *)
(* the caller's own list and page table, the calls of different processes    *)
(* interleave.  Page tables are modelled for the addresses of wmap only.     *)
(* initproc, which maps nothing, is the process NULL.                        *)
EXTENDS Integers, FiniteSets, SequencesExt

CONSTANTS
    Procs,                      \* slots of ptable other than initproc's
    First,                      \* the one that initproc has forked
    Frames,                     \* physical pages
    Files,                      \* slots of ftable, each with its own inode
    Fds,                        \* file descriptors
    FilePages,                  \* size of a file
    Vals,                       \* contents of a page
    PGSIZE, MMAPBASE, KERNBASE, \* the address space is scaled down
    MAX_NMMAP,
    Clients,                    \* what the programs may do, one of:
                                \*   addrs, lengths, flags: arguments they pass
                                \*   calls: the system calls they make
                                \*   rules: the restrictions they obey
                                \*   mayfail: memory may run out during fork
    MaxCalls,                   \* bound: system calls made in all, exit and wait apart
    NULL, Junk

WORD == 2 * KERNBASE            \* 2^32, KERNBASE being 2^31

PageAddrs == {va \in MMAPBASE..(KERNBASE - 1) : va % PGSIZE = 0}

MapFlags == {"SHARED", "PRIVATE", "ANONYMOUS", "FIXED"}

ASSUME WmapAssumption ==
    /\ PGSIZE \in Nat \ {0} /\ MMAPBASE \in Nat /\ KERNBASE \in Nat
    /\ MMAPBASE % PGSIZE = 0 /\ KERNBASE % PGSIZE = 0 /\ MMAPBASE < KERNBASE
    /\ MAX_NMMAP \in Nat \ {0} /\ MaxCalls \in Nat /\ FilePages \in Nat
    /\ First \in Procs /\ NULL \notin Procs \cup Frames \cup Files
    /\ IsFiniteSet(Procs) /\ IsFiniteSet(Fds)
    /\ 0 \in Vals /\ Junk \notin Vals
    /\ \A c \in Clients : /\ c.addrs \subseteq 0..(WORD - 1) /\ c.lengths \subseteq Int
                          /\ c.flags \subseteq SUBSET MapFlags /\ c.mayfail \in BOOLEAN

VARIABLES
    st, parent,        \* proc: state, parent
    maps, total,       \* proc: mmap_head and its list, total_mmaps
    pt,                \* proc: pgdir, the frame of each page of wmap's range
    ofile,             \* proc: ofile
    ref,               \* struct file: ref
    disk,              \* contents of each file, by page
    free, mem,         \* kmem.freelist and the contents of each frame
    last,              \* history: the last value stored in each shared file page
    calls,             \* number of system calls made
    client             \* the programs of this behaviour

vars == <<st, parent, maps, total, pt, ofile, ref, disk, free, mem, last, calls, client>>

-----------------------------------------------------------------------------
Running == {p \in Procs : st[p] = "RUNNING"}

\* Process p makes the system call c.
Makes(p, c) == /\ c \in client.calls /\ p \in Running
               /\ calls < MaxCalls /\ calls' = calls + 1

EndOf(r) == r.addr + r.length
Pages(r) == {va \in PageAddrs : r.addr <= va /\ va < EndOf(r)}
Present(p, S) == {va \in S : pt[p][va] # NULL}
FramesOf(p, S) == {pt[p][va] : va \in Present(p, S)}
Unmapped(p, S) == [pt EXCEPT ![p] = [va \in PageAddrs |-> IF va \in S THEN NULL ELSE @[va]]]

Shared(r) == "SHARED" \in r.flags
FileBacked(r) == "ANONYMOUS" \notin r.flags /\ r.file # NULL
Offset(r, va) == (va - r.addr) \div PGSIZE

\* The indices of list m that satisfy a search; the code's loops stop at the first.
FirstIdx(S) == CHOOSE i \in S : \A j \in S : i <= j
AtAddr(m, a) == {i \in DOMAIN m : m[i].addr = a}

\* kfree of the frames in S.
KFree(S) == /\ free' = free \cup S
            /\ mem' = [f \in Frames |-> IF f \in S THEN Junk ELSE mem[f]]

\* write_to_file of the pages of region r that p has loaded among S, on disk d.
WriteBack(d, p, r, S) ==
    IF ~(FileBacked(r) /\ Shared(r)) THEN d
    ELSE [d EXCEPT ![r.file] = [o \in DOMAIN @ |->
            LET src == {va \in Present(p, S) : Offset(r, va) = o}
            IN  IF src = {} THEN @[o] ELSE mem[pt[p][CHOOSE va \in src : TRUE]]]]

-----------------------------------------------------------------------------
(* sys_wmap *)

validate_input(a, len, flags, f) ==
    /\ len > 0
    /\ ("SHARED" \in flags) # ("PRIVATE" \in flags)
    /\ "ANONYMOUS" \in flags \/ f # NULL
    /\ "FIXED" \in flags => /\ a % PGSIZE = 0
                            /\ a >= MMAPBASE /\ a < KERNBASE
                            /\ a + len <= KERNBASE

PGROUNDUP(a) == ((a + PGSIZE - 1) \div PGSIZE) * PGSIZE

\* Where find_addr_place_mmap wants a region of the given length: the first
\* page after the regions that leave no room (of len + slack) before them.
GapAfter(m, len, slack) ==
    LET start[i \in 0..Len(m)] ==
          IF i = 0 THEN MMAPBASE
          ELSE PGROUNDUP(IF EndOf(m[i]) > start[i - 1] THEN EndOf(m[i]) ELSE start[i - 1])
    IN  start[FirstIdx({i \in 0..Len(m) : i = Len(m) \/ m[i + 1].addr >= start[i] + len + slack})]

\* Mutant: a gap that fits exactly is passed over.
FindAddrStrict(m, len) == GapAfter(m, len, 1)

FindAddr(m, len) == GapAfter(m, len, 0)

\* Mutant: the new end is not compared.
OverlapsStart(m, a, len) == \E i \in DOMAIN m : a < EndOf(m[i]) /\ a >= m[i].addr

Overlaps(m, a, len) == \E i \in DOMAIN m : a < EndOf(m[i]) /\ a + len > m[i].addr

\* The list with region r put in its place.
Insert(m, r) ==
    IF m = <<>> \/ m[1].addr > r.addr THEN <<r>> \o m
    ELSE InsertAt(m, 1 + FirstIdx({i \in DOMAIN m : i = Len(m) \/ m[i + 1].addr >= r.addr}), r)

\* Client: a file is mapped over its whole size, and (rule "one_map") it has
\* one shared mapping at a time.
FileLengthOK(len, flags, f) ==
    "ANONYMOUS" \notin flags =>
        /\ len <= FilePages * PGSIZE
        /\ "one_map" \in client.rules =>
              \A q \in Running : \A i \in DOMAIN maps[q] : maps[q][i].file # f

\* A request that is refused for want of a slot or of room closes the file
\* it has dup'ed and changes nothing.
Wmap(p, a, len, flags, fd) ==
    LET f  == IF fd = NULL THEN NULL ELSE ofile[p][fd]
        at == IF "FIXED" \in flags THEN a ELSE FindAddr(maps[p], len)
    IN  /\ Makes(p, "wmap")
        /\ FileLengthOK(len, flags, f)
        /\ validate_input(a, len, flags, f)
        /\ total[p] < MAX_NMMAP /\ Len(maps[p]) < MAX_NMMAP
        /\ "FIXED" \in flags \/ at + len <= KERNBASE
        /\ ~Overlaps(maps[p], at, len)
        /\ maps' = [maps EXCEPT ![p] = Insert(@,
                [addr |-> at, length |-> len, flags |-> flags, file |-> f,
                 refcnt |-> 0, n_loaded_pages |-> 0])]
        /\ total' = [total EXCEPT ![p] = @ + 1]
        /\ ref' = [g \in Files |-> IF g = f THEN ref[g] + 1 ELSE ref[g]]
        /\ UNCHANGED <<st, parent, pt, ofile, disk, free, mem, last>>

\* The early return of sys_wmap after a failed validation.
WmapInvalid(p, a, len, flags, fd) ==
    LET f == ofile[p][fd]
    IN  /\ Makes(p, "wmap_invalid")
        /\ f # NULL
        /\ ~validate_input(a, len, flags, f)
        /\ ref' = [ref EXCEPT ![f] = @ + 1]
        /\ UNCHANGED <<st, parent, maps, total, pt, ofile, disk, free, mem, last>>

-----------------------------------------------------------------------------
(* sys_wunmap *)

\* Client: a child leaves the shared mappings of its parent alone (rule
\* "child_keeps") and a parent those its children share ("parent_keeps").
MayUnmap(p, r) ==
    /\ "child_keeps" \in client.rules /\ Shared(r) /\ parent[p] # NULL =>
          AtAddr(maps[parent[p]], r.addr) = {}
    /\ "parent_keeps" \in client.rules /\ Shared(r) =>
          \A q \in Running : parent[q] = p => AtAddr(maps[q], r.addr) = {}

remove_map(p, a) ==
    LET i == FirstIdx(AtAddr(maps[p], a))
        r == maps[p][i]
    IN  /\ Makes(p, "wunmap")
        /\ AtAddr(maps[p], a) # {}
        /\ MayUnmap(p, r)
        /\ disk' = WriteBack(disk, p, r, Pages(r))
        /\ KFree(IF r.refcnt = 0 THEN FramesOf(p, Pages(r)) ELSE {})
        /\ pt' = Unmapped(p, Pages(r))
        /\ ref' = [f \in Files |-> IF f = r.file /\ r.refcnt = 0 THEN ref[f] - 1 ELSE ref[f]]
        /\ maps' = [maps EXCEPT ![p] = RemoveAt(@, i)]
        /\ total' = [total EXCEPT ![p] = @ - 1]
        /\ UNCHANGED <<st, parent, ofile, last>>

sys_wunmap(p, a) == a % PGSIZE = 0 /\ remove_map(p, a)

-----------------------------------------------------------------------------
(* sys_wpunmap of [a, a + len), all arithmetic on addresses being unsigned.  *)

UEnd(a, len) == (a + len) % WORD
Containing(m, a, len) ==
    {i \in DOMAIN m : m[i].addr <= a /\ EndOf(m[i]) >= UEnd(a, len)}

Cut(r, from, to, n) == [r EXCEPT !.addr = from, !.length = to - from, !.n_loaded_pages = n]
Loaded(p, from, to) == Cardinality(Present(p, {va \in PageAddrs : from <= va /\ va < to}))

\* The two regions that are left of r when [a, e) goes from its middle.
\* Mutant: both keep the count of what was left.
SplitStale(p, r, a, e, n) == <<Cut(r, r.addr, a, n), Cut(r, e, EndOf(r), n)>>
Split(p, r, a, e, n) ==
    <<Cut(r, r.addr, a, Loaded(p, r.addr, a)), Cut(r, e, EndOf(r), Loaded(p, e, EndOf(r)))>>

\* What is left of region r of list m without [a, e), n of its pages being
\* loaded still.  There may be no slot for a second region.
Remainder(p, m, r, a, e, n) ==
    IF a = r.addr THEN <<Cut(r, e, EndOf(r), n)>>
    ELSE IF e = EndOf(r) THEN <<Cut(r, r.addr, a, n)>>
    ELSE IF Len(m) < MAX_NMMAP THEN Split(p, r, a, e, n)
    ELSE <<[r EXCEPT !.n_loaded_pages = n]>>

\* Client: rule "partial_private" keeps wpunmap to private anonymous regions,
\* rule "proper" keeps it from removing a whole region, rule "in_range" keeps
\* the end of the range from wrapping around.
MayCut(r, a, len) ==
    /\ "partial_private" \in client.rules => {"PRIVATE", "ANONYMOUS"} \subseteq r.flags
    /\ "proper" \in client.rules => len < r.length
    /\ "in_range" \in client.rules => a + len < WORD

Wpunmap(p, a, len) ==
    LET e    == UEnd(a, len)
        i    == FirstIdx(Containing(maps[p], a, len))
        r    == maps[p][i]
        gone == {va \in PageAddrs : a <= va /\ va < e}
        left == Remainder(p, maps[p], r, a, e, r.n_loaded_pages - Cardinality(Present(p, gone)))
    IN  /\ Makes(p, "wpunmap")
        /\ e % PGSIZE = 0 /\ len > 0 /\ a % PGSIZE = 0
        /\ Containing(maps[p], a, len) # {}
        /\ MayCut(r, a, len)
        /\ disk' = WriteBack(disk, p, r, gone)
        /\ KFree(FramesOf(p, gone))
        /\ pt' = Unmapped(p, gone)
        /\ maps' = [maps EXCEPT ![p] = SubSeq(@, 1, i - 1) \o left \o SubSeq(@, i + 1, Len(@))]
        /\ total' = [total EXCEPT ![p] = @ + Len(left) - 1]
        /\ ref' = [f \in Files |-> IF f = r.file THEN ref[f] + Len(left) - 1 ELSE ref[f]]
        /\ UNCHANGED <<st, parent, ofile, last>>

-----------------------------------------------------------------------------
(* A page fault at va, and a store to a page that is there.  A fault outside *)
(* every region, or one that finds no memory, kills the process: see Exit.   *)

handle_page_fault(p, va) ==
    LET in == {i \in DOMAIN maps[p] : va \in Pages(maps[p][i])}
        i  == FirstIdx(in)
        r  == maps[p][i]
        o  == Offset(r, va)
    IN  /\ p \in Running /\ in # {} /\ pt[p][va] = NULL
        /\ \E f \in free :
              /\ free' = free \ {f}
              /\ pt' = [pt EXCEPT ![p][va] = f]
              /\ mem' = [mem EXCEPT ![f] =
                    IF FileBacked(r) /\ o \in DOMAIN disk[r.file] THEN disk[r.file][o] ELSE 0]
        /\ maps' = [maps EXCEPT ![p][i].n_loaded_pages = @ + 1]
        /\ UNCHANGED <<st, parent, total, ofile, ref, disk, last, calls>>

Store(p, va, v) ==
    /\ "store" \in client.calls /\ p \in Running /\ pt[p][va] # NULL
    /\ mem' = [mem EXCEPT ![pt[p][va]] = v]
    /\ last' = [f \in Files |-> [o \in DOMAIN last[f] |->
          IF \E i \in DOMAIN maps[p] : LET r == maps[p][i] IN
                va \in Pages(r) /\ Shared(r) /\ FileBacked(r) /\ r.file = f /\ Offset(r, va) = o
          THEN v ELSE last[f][o]]]
    /\ UNCHANGED <<st, parent, maps, total, pt, ofile, ref, disk, free, calls>>

-----------------------------------------------------------------------------
(* fork, with copy_maps *)

PagesWhere(p, Test(_)) == UNION {Pages(maps[p][i]) : i \in {j \in DOMAIN maps[p] : Test(maps[p][j])}}
Private(r) == ~Shared(r)

\* The references a fork has taken when it has come to region n.
\* Mutant: copy_maps does not dup the files of the mappings.
DupsFds(p, n, f) == Cardinality({fd \in Fds : ofile[p][fd] = f})
Dups(p, n, f) == Cardinality({fd \in Fds : ofile[p][fd] = f})
                   + Cardinality({i \in 1..n : maps[p][i].file = f})

\* Client: all pages are touched before a fork (rule "touched"), only children
\* of initproc fork (rule "one_generation").
MayFork(p) ==
    /\ "touched" \in client.rules =>
          \A i \in DOMAIN maps[p] : Present(p, Pages(maps[p][i])) = Pages(maps[p][i])
    /\ "one_generation" \in client.rules => parent[p] = NULL

\* The part of fork before copy_maps, and copy_maps' filedup's up to region n.
Forks(p, q, n) ==
    /\ Makes(p, "fork") /\ st[q] = "UNUSED"
    /\ MayFork(p)
    /\ parent' = [parent EXCEPT ![q] = p]
    /\ ofile' = [ofile EXCEPT ![q] = [fd \in Fds |->
          IF ofile[p][fd] # NULL THEN ofile[p][fd] ELSE @[fd]]]
    /\ ref' = [f \in Files |-> ref[f] + Dups(p, n, f)]

\* The frames a child gets: copies for the private pages, its parent's for the
\* shared ones.
Inherits(p, q, copied) ==
    \E g \in [copied -> free] :
        /\ \A v, w \in copied : v # w => g[v] # g[w]
        /\ free' = free \ {g[v] : v \in copied}
        /\ mem' = [f \in Frames |-> IF \E v \in copied : g[v] = f
                      THEN mem[pt[p][CHOOSE v \in copied : g[v] = f]] ELSE mem[f]]
        /\ pt' = [pt EXCEPT ![q] = [va \in PageAddrs |->
              IF va \in copied THEN g[va]
              ELSE IF va \in PagesWhere(p, Shared) THEN pt[p][va] ELSE NULL]]

\* Mutant: shared pages are copied as well.
CopyPagesAll(p, q) == Inherits(p, q, Present(p, PageAddrs))

CopyPages(p, q) == Inherits(p, q, Present(p, PagesWhere(p, Private)))

Fork(p, q) ==
    /\ Forks(p, q, Len(maps[p]))
    /\ CopyPages(p, q)
    /\ maps' = [maps EXCEPT ![q] = [i \in DOMAIN maps[p] |->
          [maps[p][i] EXCEPT !.refcnt = IF Shared(maps[p][i]) THEN 1 ELSE 0,
                             !.n_loaded_pages = Cardinality(Present(p, Pages(maps[p][i])))]]]
    /\ total' = [total EXCEPT ![q] = Len(maps[p])]
    /\ st' = [st EXCEPT ![q] = "RUNNING"]
    /\ UNCHANGED <<disk, last>>

\* copy_maps fails at page va of region n: the pages mapped so far, the shared
\* ones too, are freed with the child's page table, and its slot is UNUSED
\* again.  The slot's regions are reset by the next allocproc, here at once.
ForkFails(p, q, n, va) ==
    LET r == maps[p][n] IN
    /\ client.mayfail /\ va \in Present(p, Pages(r))
    /\ Forks(p, q, n)
    /\ KFree(FramesOf(p, (UNION {Pages(maps[p][i]) : i \in {j \in 1..(n - 1) : Shared(maps[p][j])}})
                         \cup {v \in Pages(r) : Shared(r) /\ v < va}))
    /\ UNCHANGED <<st, maps, total, pt, disk, last>>

-----------------------------------------------------------------------------
(* exit, wait, exec *)

Unshared(r) == r.refcnt = 0

\* delete_mmaps of p on the list m of its parent: a shared region with
\* refcnt 1 takes one off the first region of the same address.
Released(p, m) ==
    [j \in DOMAIN m |->
        LET by == {i \in DOMAIN maps[p] : /\ Shared(maps[p][i]) /\ maps[p][i].refcnt = 1
                                         /\ m[j].addr = maps[p][i].addr
                                         /\ j = FirstIdx(AtAddr(m, m[j].addr))}
        IN  [m[j] EXCEPT !.refcnt = IF @ > Cardinality(by) THEN @ - Cardinality(by) ELSE 0]]

\* The frames exit gives back.  Mutants: those of all shared regions stay;
\* the frames the parent still uses go too.
ExitFreesPrivate(p) == FramesOf(p, PagesWhere(p, Private))
ExitFreesAll(p) == FramesOf(p, PageAddrs)

ExitFrees(p) == FramesOf(p, PagesWhere(p, Unshared))

\* The contents of the files when p is gone.  Mutant: exit does not write back.
ExitKeepsDisk(p) == disk
ExitWrites(p) ==
    LET m == maps[p]
        written[i \in 0..Len(m)] ==
          IF i = 0 THEN disk
          ELSE IF Unshared(m[i]) THEN WriteBack(written[i - 1], p, m[i], Pages(m[i])) ELSE written[i - 1]
    IN  written[Len(m)]

\* Client: a process outlives its children (rule "parent_last").
MayExit(p) == "parent_last" \in client.rules => \A q \in Running : parent[q] # p

\* exit, called by the process or for it when a fault cannot be handled.
Exit(p) ==
    /\ "exit" \in client.calls /\ p \in Running /\ MayExit(p)
    /\ disk' = ExitWrites(p)
    /\ KFree(ExitFrees(p))
    /\ pt' = Unmapped(p, PagesWhere(p, LAMBDA r : TRUE))
    /\ ref' = [f \in Files |-> ref[f] - Cardinality({fd \in Fds : ofile[p][fd] = f})
                 - Cardinality({i \in DOMAIN maps[p] : maps[p][i].file = f /\ Unshared(maps[p][i])})]
    /\ ofile' = [ofile EXCEPT ![p] = [fd \in Fds |-> NULL]]
    /\ maps' = [q \in Procs |-> IF q = p THEN <<>>
                               ELSE IF q = parent[p] THEN Released(p, maps[q]) ELSE maps[q]]
    /\ total' = [total EXCEPT ![p] = 0]
    /\ parent' = [q \in Procs |-> IF parent[q] = p THEN NULL ELSE parent[q]]
    /\ st' = [st EXCEPT ![p] = "ZOMBIE"]
    /\ UNCHANGED <<last, calls>>

\* wait, by the parent of q (initproc if it is NULL).
Wait(q) ==
    /\ st[q] = "ZOMBIE" /\ parent[q] \in Running \cup {NULL}
    /\ KFree(FramesOf(q, PageAddrs))
    /\ pt' = Unmapped(q, PageAddrs)
    /\ st' = [st EXCEPT ![q] = "UNUSED"]
    /\ parent' = [parent EXCEPT ![q] = NULL]
    /\ UNCHANGED <<maps, total, ofile, ref, disk, last, calls>>

\* exec: a new page table, and freevm of the old one; the list stays.
Exec(p) ==
    /\ Makes(p, "exec")
    /\ KFree(FramesOf(p, PageAddrs))
    /\ pt' = Unmapped(p, PageAddrs)
    /\ UNCHANGED <<st, parent, maps, total, ofile, ref, disk, last>>

-----------------------------------------------------------------------------
(* The file table, as far as mappings depend on it. *)

Open(p, fd, f) ==
    /\ Makes(p, "open")
    /\ ofile[p][fd] = NULL /\ ref[f] = 0
    /\ ofile' = [ofile EXCEPT ![p][fd] = f]
    /\ ref' = [ref EXCEPT ![f] = 1]
    /\ UNCHANGED <<st, parent, maps, total, pt, disk, free, mem, last>>

Close(p, fd) ==
    /\ Makes(p, "open") /\ ofile[p][fd] # NULL
    /\ ref' = [ref EXCEPT ![ofile[p][fd]] = @ - 1]
    /\ ofile' = [ofile EXCEPT ![p][fd] = NULL]
    /\ UNCHANGED <<st, parent, maps, total, pt, disk, free, mem, last>>

Init ==
    /\ st = [p \in Procs |-> IF p = First THEN "RUNNING" ELSE "UNUSED"]
    /\ parent = [p \in Procs |-> NULL]
    /\ maps = [p \in Procs |-> <<>>] /\ total = [p \in Procs |-> 0]
    /\ pt = [p \in Procs |-> [va \in PageAddrs |-> NULL]]
    /\ ofile = [p \in Procs |-> [fd \in Fds |-> NULL]]
    /\ ref = [f \in Files |-> 0]
    /\ disk = [f \in Files |-> [o \in 0..(FilePages - 1) |-> 0]] /\ last = disk
    /\ free = Frames /\ mem = [f \in Frames |-> Junk]
    /\ calls = 0
    /\ client \in Clients

Unmaps(p) == \/ \E a \in client.addrs : sys_wunmap(p, a)
             \/ \E a \in client.addrs, len \in client.lengths : Wpunmap(p, a, len)

Maps(p) == \E a \in client.addrs, len \in client.lengths, flags \in client.flags :
              \/ \E fd \in Fds \cup {NULL} : Wmap(p, a, len, flags, fd)
              \/ \E fd \in Fds : WmapInvalid(p, a, len, flags, fd)

Next ==
    /\ UNCHANGED client
    /\ \E p \in Procs :
        \/ Maps(p) \/ Unmaps(p)
        \/ \E va \in PageAddrs : handle_page_fault(p, va)
        \/ \E va \in PageAddrs, v \in Vals : Store(p, va, v)
        \/ \E q \in Procs : Fork(p, q)
        \/ \E q \in Procs, n \in DOMAIN maps[p], va \in PageAddrs : ForkFails(p, q, n, va)
        \/ Exit(p) \/ Wait(p) \/ Exec(p)
        \/ \E fd \in Fds : Close(p, fd) \/ \E f \in Files : Open(p, fd, f)

Spec == Init /\ [][Next]_vars

-----------------------------------------------------------------------------
(* Properties *)

Region == [addr : Int, length : Int, flags : SUBSET MapFlags,
           file : Files \cup {NULL}, refcnt : {0, 1}, n_loaded_pages : Int]
Contents == [0..(FilePages - 1) -> Vals \cup {Junk}]

\* Every variable keeps its type; refcnt is never more than 1, total_mmaps is
\* the length of the list and at most MAX_NMMAP, and a process that does not
\* run has no mappings.
TypeOK ==
    /\ client \in Clients
    /\ st \in [Procs -> {"UNUSED", "RUNNING", "ZOMBIE"}]
    /\ parent \in [Procs -> Procs \cup {NULL}]
    /\ maps \in [Procs -> Seq(Region)] /\ total \in [Procs -> 0..MAX_NMMAP]
    /\ \A p \in Procs : total[p] = Len(maps[p]) /\ (p \notin Running => maps[p] = <<>>)
    /\ pt \in [Procs -> [PageAddrs -> Frames \cup {NULL}]]
    /\ ofile \in [Procs -> [Fds -> Files \cup {NULL}]] /\ ref \in [Files -> Int]
    /\ disk \in [Files -> Contents] /\ last \in [Files -> Contents]
    /\ free \subseteq Frames /\ mem \in [Frames -> Vals \cup {Junk}]

\* No region is cut to nothing, no range wraps around.
Proper == {"proper", "in_range"} \subseteq client.rules

\* After any sequence of wmap, wunmap, wpunmap, fork and exec a list is sorted,
\* its regions are disjoint, page aligned and between MMAPBASE and KERNBASE
\* (README), and total_mmaps is its length.  An address starts at most one of
\* them: wunmap, which takes the first region at its address, cannot take the
\* wrong one.
ListOK == \A p \in Procs :
    /\ total[p] = Len(maps[p]) /\ total[p] <= MAX_NMMAP
    /\ \A i \in DOMAIN maps[p] : LET r == maps[p][i] IN
          r.addr % PGSIZE = 0 /\ MMAPBASE <= r.addr /\ EndOf(r) <= KERNBASE
    /\ \A i, j \in DOMAIN maps[p] : i < j =>
          /\ EndOf(maps[p][i]) <= maps[p][j].addr
          /\ maps[p][i].addr # maps[p][j].addr

\* Placing, cutting, splitting and inheriting mappings keeps the lists so.
ListsOK == Proper => ListOK

\* find_addr_place_mmap finds the lowest free address whenever there is one.
LowestGap == \A p \in Running, len \in client.lengths :
    LET fits == {a \in PageAddrs : /\ len > 0 /\ a + len <= KERNBASE
                                  /\ \A i \in DOMAIN maps[p] : LET r == maps[p][i] IN
                                        EndOf(r) <= a \/ a + len <= r.addr}
    IN  IF fits = {} THEN len > 0 => FindAddr(maps[p], len) + len > KERNBASE
        ELSE FindAddr(maps[p], len) = FirstIdx(fits)

\* It does whatever calls have made the list, a gap that fits exactly included.
LowestGapFound == Proper => LowestGap

Holders(f) == Cardinality({pd \in Running \X Fds : ofile[pd[1]][pd[2]] = f})
    + Cardinality({pi \in Running \X (1..MAX_NMMAP) :
                     pi[2] \in DOMAIN maps[pi[1]] /\ maps[pi[1]][pi[2]].file = f})

\* A file is not closed while a descriptor or a mapping of any process needs it
\* (sys_wmap: "if the file is closed before pgfault handler reads the file, xv6
\* will panic").
FilesKept == \A f \in Files : ref[f] >= Holders(f)

\* Parents and children that leave each other's shared mappings alone, touch
\* them before a fork, map a file once and have memory enough to fork.
Orderly == /\ {"touched", "child_keeps", "parent_keeps", "parent_last", "one_generation",
                "partial_private", "in_range", "one_map"} \subseteq client.rules
           /\ "exec" \notin client.calls /\ ~client.mayfail

\* n_loaded_pages counts the pages of the region that are loaded, and every
\* loaded page lies in a region.
LoadedExact == \A p \in Procs :
    /\ \A i \in DOMAIN maps[p] :
          maps[p][i].n_loaded_pages = Cardinality(Present(p, Pages(maps[p][i])))
    /\ Present(p, PageAddrs) \subseteq PagesWhere(p, LAMBDA r : TRUE)

Mappers(f) == {pv \in Procs \X PageAddrs : pt[pv[1]][pv[2]] = f}

\* Only a frame nobody maps is free (wmap.c: "Only free if refcnt == 0 (no
\* children sharing)").
NoFreeWhileMapped == \A f \in free : Mappers(f) = {}

\* Exits, unmaps and faults of a family free no frame that one of it maps.
FramesKept == Orderly => NoFreeWhileMapped

\* No frame is lost; a frame that is mapped twice belongs to a shared mapping,
\* at one address in both processes.
FramesOwned ==
    /\ \A f \in Frames \ free : Mappers(f) # {}
    /\ \A f \in Frames : \A x, y \in Mappers(f) : x # y =>
          x[2] = y[2] /\ x[2] \in PagesWhere(x[1], Shared) \cap PagesWhere(y[1], Shared)

\* getwmapinfo's counts are right and no frame is lost or shared by mistake,
\* however regions are cut, split, inherited and left by exit.
FramesExact == Orderly => LoadedExact /\ FramesOwned

\* As long as both live, a child sees the frames of its parent in a shared
\* mapping it has inherited.
SharedSame == \A q \in Running : parent[q] # NULL =>
    \A i \in DOMAIN maps[q] : maps[q][i].refcnt = 1 =>
        \A va \in Pages(maps[q][i]) : pt[q][va] # NULL /\ pt[q][va] = pt[parent[q]][va]

\* What any process of a family stored in a shared mapping of a file is in the
\* file once nobody maps it.
StoresReachFile == \A f \in Files :
    (\A p \in Procs : \A i \in DOMAIN maps[p] : maps[p][i].file # f) => disk[f] = last[f]

\* A store into a shared mapping is seen by the family while it maps the page
\* and by the file afterwards, whoever of them unmaps or exits last.
StoresSeen == Orderly => SharedSame /\ StoresReachFile
=============================================================================
