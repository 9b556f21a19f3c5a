------------------------------ MODULE XvNames -------------------------------
(* Inodes, the inode cache and directories of xv6 (fs.c) under concurrent    *)
(* system calls that work on names (sysfile.c): link, unlink, open, mkdir,   *)
(* mknod, chdir and close.                                                   *)
(*                                                                           *)
(* A step reaches from the acquisition of one inode's sleep lock to the      *)
(* next: what lies between touches inodes that are locked, the reference     *)
(* counts and, in ialloc, one free inode.  Locks that stay held from one     *)
(* step to another are in lock.  A path is the sequence of its elements      *)
(* (skipelem).                                                               *)
EXTENDS Integers, FiniteSets, SequencesExt

CONSTANTS Procs,
          NInodes,       \* inode numbers are 1..NInodes, 0 is none
          NINODE, NFILE,
          Calls,         \* the system calls that processes make
          MaxCalls,      \* bound on their number
          None

ROOTINO == 1
Inums == 1..NInodes
Slots == 1..NINODE

\* What the code assumes of its parameters.
NamesAssumption == /\ NInodes \in Nat \ {0} /\ NFILE \in Nat /\ NINODE \in Nat \ {0} /\ MaxCalls \in Nat
                          /\ IsFiniteSet(Procs) /\ None \notin Procs

VARIABLES
    di,      \* inodes on disk: type and nlink
    dir,     \* contents of directories: sequences of [name, inum]
    ic,      \* inode cache: inum, ref, valid, type, nlink
    lock,    \* who holds the sleep lock of a cache entry
    cwd, fd, \* per process: the entries of its current directory and open file
    th,      \* per process: the system call it is in
    calls,
    lost     \* history: how many names of an inode went with their directory

vars == <<di, dir, ic, lock, cwd, fd, th, calls, lost>>

Min0(S) == IF S = {} THEN 0 ELSE CHOOSE i \in S : \A j \in S : i <= j

-----------------------------------------------------------------------------
(* fs.c: the inode cache, as functions on its state c *)

\* The entry that iget returns: the inode's, else the first that is unused.
SlotOf(c, i) == LET S == {e \in Slots : c[e].ref > 0 /\ c[e].inum = i} IN
                Min0(IF S # {} THEN S ELSE {e \in Slots : c[e].ref = 0})

Taken(e, i) == [e EXCEPT !.inum = i, !.ref = 1, !.valid = FALSE]

iget(c, i) == [c EXCEPT ![SlotOf(c, i)] = IF @.ref > 0 THEN [@ EXCEPT !.ref = @ + 1]
                                          ELSE Taken(@, i)]
idup(c, e) == [c EXCEPT ![e].ref = @ + 1]

\* What ilock reads from the disk.
ilock(c, e) == IF c[e].valid THEN c
               ELSE [c EXCEPT ![e] = [@ EXCEPT !.valid = TRUE, !.type = di[c[e].inum].type,
                                                !.nlink = di[c[e].inum].nlink]]

\* iupdate: the disk gets what the cache has.
iupdate(d, c, e) == [d EXCEPT ![c[e].inum] = [type |-> c[e].type, nlink |-> c[e].nlink]]

Free(e) == lock[e] = None

-----------------------------------------------------------------------------
(* fs.c: directories *)

\* What the directory with cache entry e holds.
In(e) == dir[ic[e].inum]

Found(e, name) == {k \in DOMAIN In(e) : In(e)[k].inum # 0 /\ In(e)[k].name = name}
dirlookup(e, name) == LET k == Min0(Found(e, name)) IN IF k = 0 THEN 0 ELSE In(e)[k].inum

\* dirlink of a name that is not there: the first empty entry, or a new one.
WithEntry(es, name, i) ==
    LET k == Min0({k \in DOMAIN es : es[k].inum = 0})
        e == [name |-> name, inum |-> i]
    IN  IF k = 0 THEN Append(es, e) ELSE [es EXCEPT ![k] = e]
Cleared(es, k) == [es EXCEPT ![k] = [name |-> None, inum |-> 0]]

\* isdirempty skips the first two entries.
isdirempty(e) == \A k \in 3..Len(In(e)) : In(e)[k].inum = 0

-----------------------------------------------------------------------------
(* Control of a system call.  w, ip, dp and x are the references it has: to  *)
(* where namex is, to the inode and its directory, to what iput drops.       *)

Idle == [pc |-> "idle", op |-> None, w |-> 0, ip |-> 0, dp |-> 0, x |-> 0,
         rest |-> <<>>, then |-> "idle"]

Becomes(p, t) == th' = [th EXCEPT ![p] = t]
Panic(p) == Becomes(p, [th[p] EXCEPT !.pc = "panic"]) /\ UNCHANGED <<di, dir, ic, lock, cwd, fd, calls>>

\* The call goes on with iput(i), and after it at pc.
Putting(t, i, pc) == [t EXCEPT !.pc = "iput", !.x = i, !.then = pc]

\* Where a path begins.
Start(p, path) == IF path.abs THEN SlotOf(ic, ROOTINO) ELSE cwd[p]
Refer(c, p, path) == IF path.abs THEN iget(c, ROOTINO) ELSE idup(c, cwd[p])

\* nameiparent, not namei.
Parent(t) == t.op.kind \in {"unlink", "create", "mkdir", "mknod"} \/ t.ip # 0

\* namex begins.  A path without elements has no parent.
Walking(t, p, path) ==
    LET w == Start(p, path) IN
    IF path.elems # <<>> THEN [t EXCEPT !.w = w, !.rest = path.elems, !.pc = "namex"]
    ELSE IF Parent(t) THEN Putting([t EXCEPT !.w = 0], w, "failed")
    ELSE [t EXCEPT !.w = w, !.pc = "found"]

Call(p, op) ==
    /\ th[p].pc = "idle" /\ calls < MaxCalls /\ calls' = calls + 1
    /\ ic' = Refer(ic, p, op.path)
    /\ Becomes(p, Walking([Idle EXCEPT !.op = op], p, op.path))
    /\ UNCHANGED <<di, dir, lock, cwd, fd>>

\* One round of namex: lock, look up, unlock; iput follows.
namex(p) ==
    LET t == th[p]
        w == t.w
        c == ilock(ic, w)
        stop == Parent(t) /\ Len(t.rest) = 1
        next == dirlookup(w, Head(t.rest))
        e == SlotOf(c, next) IN
    /\ t.pc = "namex" /\ Free(w)
    /\ IF c[w].type = "none" \/ (~stop /\ next # 0 /\ e = 0) THEN Panic(p)
       ELSE /\ \/ /\ c[w].type # "dir" \/ (~stop /\ next = 0)
                  /\ ic' = c /\ Becomes(p, Putting([t EXCEPT !.w = 0], w, "failed"))
               \/ /\ c[w].type = "dir" /\ stop
                  /\ ic' = c /\ Becomes(p, [t EXCEPT !.pc = "found"])
               \/ /\ c[w].type = "dir" /\ ~stop /\ next # 0
                  /\ ic' = iget(c, next)
                  /\ Becomes(p, Putting([t EXCEPT !.w = e, !.rest = Tail(@)], w,
                                        IF Len(t.rest) = 1 THEN "found" ELSE "namex"))
            /\ UNCHANGED <<di, dir, lock, cwd, fd, calls>>

\* iput frees an inode that has no links and no other reference.  Mutant: it
\* does not look at the links.
LastReference(e) == e.valid /\ e.ref = 1
Unneeded(e) == e.valid /\ e.nlink = 0 /\ e.ref = 1

\* iput with the inode's lock: itrunc, and type 0 on the disk.
iput(p) ==
    LET x == th[p].x IN
    /\ th[p].pc = "iput" /\ Free(x)
    /\ IF Unneeded(ic[x])
       THEN /\ ic' = [ic EXCEPT ![x] = [@ EXCEPT !.type = "none", !.valid = FALSE]]
            /\ di' = iupdate(di, ic', x)
            /\ dir' = [dir EXCEPT ![ic[x].inum] = <<>>]
            /\ lost' = [i \in Inums |-> lost[i] + Cardinality({k \in 3..Len(In(x)) : In(x)[k].inum = i})]
       ELSE UNCHANGED <<ic, di, dir, lost>>
    /\ Becomes(p, [th[p] EXCEPT !.pc = "unref"])
    /\ UNCHANGED <<lock, cwd, fd, calls>>

\* The end of iput, under icache.lock alone.
unref(p) ==
    LET t == th[p] IN
    /\ t.pc = "unref"
    /\ ic' = [ic EXCEPT ![t.x].ref = @ - 1]
    /\ Becomes(p, IF t.then = "idle" THEN Idle ELSE [t EXCEPT !.pc = t.then, !.x = 0])
    /\ UNCHANGED <<di, dir, lock, cwd, fd, calls>>

\* namex found nothing: only link has something to undo.
failed(p) ==
    /\ th[p].pc = "failed"
    /\ Becomes(p, IF th[p].ip = 0 THEN Idle ELSE [th[p] EXCEPT !.pc = "bad"])
    /\ UNCHANGED <<di, dir, ic, lock, cwd, fd, calls>>

-----------------------------------------------------------------------------
(* sysfile.c *)

Is(p, kinds) == th[p].pc = "found" /\ th[p].op.kind \in kinds /\ Free(th[p].w)

\* The first inode without a type on the disk.
FreeInode == Min0({i \in Inums : di[i].type = "none"})

OpenFiles == Cardinality({p \in Procs : fd[p] # 0})

\* filealloc, fdalloc and the end of open, with inode i locked in cache c.
OpenFile(p, c, i) ==
    LET t == [th[p] EXCEPT !.w = 0, !.ip = 0] IN
    /\ ic' = c /\ lock' = [lock EXCEPT ![i] = None]
    /\ IF OpenFiles < NFILE /\ fd[p] = 0
       THEN fd' = [fd EXCEPT ![p] = i] /\ Becomes(p, Idle)
       ELSE Becomes(p, Putting(t, i, "idle")) /\ UNCHANGED fd
    /\ UNCHANGED <<di, dir, cwd, calls>>

sys_open(p) ==
    LET t == th[p]
        c == ilock(ic, t.w) IN
    /\ Is(p, {"open", "openw"})
    /\ IF c[t.w].type = "none" THEN Panic(p)
       ELSE IF c[t.w].type = "dir" /\ t.op.kind = "openw"
       THEN /\ ic' = c /\ Becomes(p, Putting([t EXCEPT !.w = 0], t.w, "idle"))
            /\ UNCHANGED <<di, dir, lock, cwd, fd, calls>>
       ELSE OpenFile(p, c, t.w)

sys_chdir(p) ==
    LET t == th[p]
        c == ilock(ic, t.w)
        rest == [t EXCEPT !.w = 0] IN
    /\ Is(p, {"chdir"})
    /\ IF c[t.w].type = "none" THEN Panic(p)
       ELSE /\ ic' = c
            /\ IF c[t.w].type # "dir"
               THEN Becomes(p, Putting(rest, t.w, "idle")) /\ UNCHANGED cwd
               ELSE /\ Becomes(p, Putting(rest, cwd[p], "idle"))
                    /\ cwd' = [cwd EXCEPT ![p] = t.w]
            /\ UNCHANGED <<di, dir, lock, fd, calls>>

\* close of an open file: fileclose drops the reference in a transaction.
sys_close(p) ==
    /\ th[p].pc = "idle" /\ fd[p] # 0
    /\ fd' = [fd EXCEPT ![p] = 0] /\ Becomes(p, Putting(Idle, fd[p], "idle"))
    /\ UNCHANGED <<di, dir, ic, lock, cwd, calls>>

\* link: the old name is found and its inode gets a link, then namex of the
\* new name begins.
sys_link(p) ==
    LET t == th[p]
        c == ilock(ic, t.w)
        linked == [c EXCEPT ![t.w].nlink = @ + 1] IN
    /\ Is(p, {"link"}) /\ t.ip = 0
    /\ IF c[t.w].type = "none" THEN Panic(p)
       ELSE /\ IF c[t.w].type = "dir"
               THEN /\ ic' = c /\ UNCHANGED di
                    /\ Becomes(p, Putting([t EXCEPT !.w = 0], t.w, "idle"))
               ELSE /\ ic' = Refer(linked, p, t.op.new) /\ di' = iupdate(di, linked, t.w)
                    /\ Becomes(p, Walking([t EXCEPT !.ip = t.w], p, t.op.new))
            /\ UNCHANGED <<dir, lock, cwd, fd, calls>>

\* The directory of the new name: dirlink, which keeps it locked while it
\* drops an inode that already has the name.
link_entry(p) ==
    LET t == th[p]
        d == t.w
        name == Head(t.rest)
        c == ilock(ic, d)
        old == dirlookup(d, name)
        e == SlotOf(c, old) IN
    /\ Is(p, {"link"}) /\ t.ip # 0
    /\ IF c[d].type # "dir" \/ (old # 0 /\ e = 0) THEN Panic(p)
       ELSE /\ IF old # 0
               THEN /\ ic' = iget(c, old) /\ lock' = [lock EXCEPT ![d] = p]
                    /\ Becomes(p, Putting([t EXCEPT !.w = 0, !.dp = d], e, "exists"))
                    /\ UNCHANGED dir
               ELSE /\ ic' = c /\ dir' = [dir EXCEPT ![c[d].inum] = WithEntry(@, name, c[t.ip].inum)]
                    /\ Becomes(p, Putting([t EXCEPT !.w = 0], d, "put_ip"))
                    /\ UNCHANGED lock
            /\ UNCHANGED <<di, cwd, fd, calls>>

\* Unlock the directory and drop it.
put_dp(p) ==
    LET t == th[p] IN
    /\ t.pc \in {"exists", "refused"}
    /\ lock' = [lock EXCEPT ![t.dp] = None]
    /\ Becomes(p, Putting([t EXCEPT !.dp = 0], t.dp, IF t.pc = "exists" THEN "bad" ELSE "idle"))
    /\ UNCHANGED <<di, dir, ic, cwd, fd, calls>>

put_ip(p) == /\ th[p].pc = "put_ip"
             /\ Becomes(p, Putting([th[p] EXCEPT !.ip = 0], th[p].ip, "idle"))
             /\ UNCHANGED <<di, dir, ic, lock, cwd, fd, calls>>

\* Mutant: a link that fails keeps the count.
StillLinked(n) == n
Undone(n) == n - 1

\* link fails: the link count goes back.
link_bad(p) ==
    LET i == th[p].ip
        c == [ilock(ic, i) EXCEPT ![i].nlink = Undone(@)] IN
    /\ th[p].pc = "bad" /\ Free(i)
    /\ ic' = c /\ di' = iupdate(di, c, i)
    /\ Becomes(p, Putting([th[p] EXCEPT !.ip = 0], i, "idle"))
    /\ UNCHANGED <<dir, lock, cwd, fd, calls>>

\* unlink: the directory stays locked, the inode is looked up.
sys_unlink(p) ==
    LET t == th[p]
        d == t.w
        c == ilock(ic, d)
        i == dirlookup(d, Head(t.rest))
        e == SlotOf(c, i) IN
    /\ Is(p, {"unlink"})
    /\ IF c[d].type # "dir" \/ (i # 0 /\ e = 0) THEN Panic(p)
       ELSE /\ IF Head(t.rest) \in {".", ".."} \/ i = 0
               THEN /\ ic' = c /\ UNCHANGED lock
                    /\ Becomes(p, Putting([t EXCEPT !.w = 0], d, "idle"))
               ELSE /\ ic' = iget(c, i) /\ lock' = [lock EXCEPT ![d] = p]
                    /\ Becomes(p, [t EXCEPT !.w = 0, !.dp = d, !.ip = e, !.pc = "unlink"])
            /\ UNCHANGED <<di, dir, cwd, fd, calls>>

\* With directory and inode locked the entry is cleared, and iput of the
\* directory follows, with the inode still locked.
unlink_entry(p) ==
    LET t == th[p]
        i == t.ip
        d == t.dp
        c == ilock(ic, i)
        down == IF c[i].type = "dir" THEN [c EXCEPT ![d].nlink = @ - 1] ELSE c IN
    /\ t.pc = "unlink" /\ Free(i)
    /\ IF c[i].type = "none" \/ c[i].nlink < 1 THEN Panic(p)
       ELSE /\ \/ /\ c[i].type = "dir" /\ ~isdirempty(i)
                  /\ ic' = c
                  /\ Becomes(p, Putting([t EXCEPT !.ip = 0], i, "refused"))
                  /\ UNCHANGED <<di, dir, lock>>
               \/ /\ c[i].type = "dir" => isdirempty(i)
                  /\ ic' = down /\ di' = iupdate(di, down, d)
                  /\ dir' = [dir EXCEPT ![c[d].inum] = Cleared(@, Min0(Found(d, Head(t.rest))))]
                  /\ lock' = [lock EXCEPT ![d] = None, ![i] = p]
                  /\ Becomes(p, Putting([t EXCEPT !.dp = 0], d, "unlinked"))
            /\ UNCHANGED <<cwd, fd, calls>>

unlinked(p) ==
    LET i == th[p].ip
        c == [ic EXCEPT ![i].nlink = @ - 1] IN
    /\ th[p].pc = "unlinked"
    /\ ic' = c /\ di' = iupdate(di, c, i) /\ lock' = [lock EXCEPT ![i] = None]
    /\ Becomes(p, Putting([th[p] EXCEPT !.ip = 0], i, "idle"))
    /\ UNCHANGED <<dir, cwd, fd, calls>>

TypeOf(kind) == CASE kind = "create" -> "file" [] kind = "mkdir" -> "dir" [] kind = "mknod" -> "dev"

\* create: the name is there, or ialloc takes an inode for it.
create(p) ==
    LET t == th[p]
        d == t.w
        c == ilock(ic, d)
        old == dirlookup(d, Head(t.rest))
        new == FreeInode
        e == SlotOf(c, IF old # 0 THEN old ELSE new) IN
    /\ Is(p, {"create", "mkdir", "mknod"})
    /\ IF c[d].type # "dir" \/ (old = 0 /\ new = 0) \/ e = 0 THEN Panic(p)
       ELSE /\ \/ /\ old # 0 /\ ic' = iget(c, old)
                  /\ Becomes(p, Putting([t EXCEPT !.w = 0, !.ip = e], d, "created_before"))
                  /\ UNCHANGED <<di, dir, lock>>
               \/ /\ old = 0 /\ ic' = iget(c, new)
                  /\ di' = [di EXCEPT ![new] = [type |-> TypeOf(t.op.kind), nlink |-> 0]]
                  /\ dir' = [dir EXCEPT ![new] = <<>>]
                  /\ lock' = [lock EXCEPT ![d] = p]
                  /\ Becomes(p, [t EXCEPT !.w = 0, !.dp = d, !.ip = e, !.pc = "create"])
            /\ UNCHANGED <<cwd, fd, calls>>

\* Mutant: a new directory's ".." is not counted.
UpUncounted(c, d, type) == c
CountUp(c, d, type) == IF type = "dir" THEN [c EXCEPT ![d].nlink = @ + 1] ELSE c

\* The new inode is locked too: its links, "." and "..", its entry; then iput
\* of the directory, with the new inode still locked.
create_entry(p) ==
    LET t == th[p]
        i == t.ip
        d == t.dp
        c == [ilock(ic, i) EXCEPT ![i].nlink = 1]
        up == CountUp(c, d, c[i].type)
        dots == IF TypeOf(t.op.kind) = "dir"
                THEN <<[name |-> ".", inum |-> c[i].inum], [name |-> "..", inum |-> c[d].inum]>> ELSE <<>> IN
    /\ t.pc = "create" /\ Free(i)
    /\ IF c[i].type = "none" THEN Panic(p)
       ELSE /\ ic' = up /\ di' = iupdate(iupdate(di, up, i), up, d)
            /\ dir' = [dir EXCEPT ![c[i].inum] = dots,
                                ![c[d].inum] = WithEntry(@, Head(t.rest), c[i].inum)]
            /\ lock' = [lock EXCEPT ![d] = None, ![i] = p]
            /\ Becomes(p, Putting([t EXCEPT !.dp = 0], d, "created"))
            /\ UNCHANGED <<cwd, fd, calls>>

\* What open, mkdir and mknod do with what create returns.
created(p) ==
    LET t == th[p] IN
    /\ t.pc = "created"
    /\ \/ t.op.kind = "create" /\ OpenFile(p, ic, t.ip)
       \/ /\ t.op.kind # "create" /\ lock' = [lock EXCEPT ![t.ip] = None]
          /\ Becomes(p, Putting([t EXCEPT !.ip = 0], t.ip, "idle"))
          /\ UNCHANGED <<di, dir, ic, cwd, fd, calls>>

created_before(p) ==
    LET t == th[p]
        c == ilock(ic, t.ip) IN
    /\ t.pc = "created_before" /\ Free(t.ip)
    /\ IF c[t.ip].type = "none" THEN Panic(p)
       ELSE \/ /\ t.op.kind = "create" /\ c[t.ip].type = "file"
               /\ OpenFile(p, c, t.ip)
            \/ /\ t.op.kind # "create" \/ c[t.ip].type # "file"
               /\ ic' = c /\ Becomes(p, Putting([t EXCEPT !.ip = 0], t.ip, "idle"))
               /\ UNCHANGED <<di, dir, lock, cwd, fd, calls>>

-----------------------------------------------------------------------------
\* A disk as mkfs makes it: the root directory with one file in it.
Init ==
    /\ di = [i \in Inums |-> [type |-> CASE i = 1 -> "dir" [] i = 2 -> "file" [] OTHER -> "none",
                              nlink |-> IF i <= 2 THEN 1 ELSE 0]]
    /\ dir = [i \in Inums |-> IF i = 1 THEN <<[name |-> ".", inum |-> 1], [name |-> "..", inum |-> 1],
                                              [name |-> "a", inum |-> 2]>> ELSE <<>>]
    /\ ic = [e \in Slots |-> [inum |-> IF e = 1 THEN ROOTINO ELSE 0,
                              ref |-> IF e = 1 THEN Cardinality(Procs) ELSE 0, valid |-> FALSE,
                              type |-> "none", nlink |-> 0]]
    /\ lock = [e \in Slots |-> None]
    /\ cwd = [p \in Procs |-> 1] /\ fd = [p \in Procs |-> 0]
    /\ th = [p \in Procs |-> Idle] /\ calls = 0 /\ lost = [i \in Inums |-> 0]

Lookup(p) == namex(p) \/ unref(p) \/ failed(p)
Linking(p) == sys_link(p) \/ link_entry(p) \/ link_bad(p) \/ put_dp(p) \/ put_ip(p)
Unlinking(p) == sys_unlink(p) \/ unlink_entry(p) \/ unlinked(p)
Creating(p) == create(p) \/ create_entry(p) \/ created(p) \/ created_before(p)

Next == \E p \in Procs :
            \/ iput(p)
            \/ /\ \/ \E op \in Calls : Call(p, op)
                  \/ Lookup(p) \/ Linking(p) \/ Unlinking(p) \/ Creating(p)
                  \/ sys_open(p) \/ sys_chdir(p) \/ sys_close(p)
               /\ UNCHANGED lost

Spec == Init /\ [][Next]_vars

-----------------------------------------------------------------------------
Types == {"none", "file", "dir", "dev"}

TypeOK ==
    /\ di \in [Inums -> [type : Types, nlink : Nat]]
    /\ ic \in [Slots -> [inum : {0} \cup Inums, ref : Nat, valid : BOOLEAN, type : Types, nlink : Nat]]
    /\ lock \in [Slots -> Procs \cup {None}]
    /\ cwd \in [Procs -> Slots] /\ fd \in [Procs -> {0} \cup Slots]

One(b) == IF b THEN 1 ELSE 0
SumOver(S, f(_)) == FoldSet(LAMBDA e, n : f(e) + n, 0, S)

RefsOf(e) == SumOver(Procs, LAMBDA p :
                 One(cwd[p] = e) + One(fd[p] = e) + One(th[p].w = e) + One(th[p].ip = e)
                 + One(th[p].dp = e) + One(th[p].x = e))

(* The reference count of a cache entry is the number of pointers to it that *)
(* processes have, an inode has at most one entry in use, and what an entry  *)
(* holds equals the inode on disk, whoever reuses entry or inode in between  *)
(* (fs.c:220-272, 331-352).                                                  *)
RefsExact ==
    /\ TypeOK
    /\ \A e \in Slots : ic[e].ref = RefsOf(e)
    /\ \A e, g \in Slots : ic[e].ref > 0 /\ ic[g].ref > 0 /\ e # g => ic[e].inum # ic[g].inum
    /\ \A e \in Slots : LET d == di[ic[e].inum] IN
           ic[e].ref > 0 /\ ic[e].valid => ic[e].type = d.type /\ ic[e].nlink = d.nlink

LinksIn(d, i) == {k \in DOMAIN dir[d] : dir[d][k].inum = i /\ dir[d][k].name # "."}
Names(d, i) == {k \in LinksIn(d, i) : dir[d][k].name # ".."}
Named(d) == d = ROOTINO \/ \E e \in Inums : Names(e, d) # {}

\* Names count as links, and the ".." of a directory that has a name.
EntriesTo(i) == SumOver(Inums, LAMBDA d :
                    Cardinality(IF Named(d) THEN LinksIn(d, i) ELSE Names(d, i)))

\* Links that are counted before their entry is there, or still.
InFlight(i) == Cardinality({p \in Procs : /\ th[p].ip # 0 /\ ic[th[p].ip].inum = i
                  /\ \/ th[p].op.kind = "link" /\ th[p].pc # "put_ip" /\ th[p].then # "put_ip"
                     \/ "unlinked" \in {th[p].pc, th[p].then}})

(* An inode's nlink is the number of entries that name it, but for the links *)
(* and unlinks that are half done and for the names that went with a removed *)
(* directory that was still in use, and a directory's entries lead to inodes *)
(* that exist: nothing that has a name is ever freed (sysfile.c:118-283).    *)
LinksExact ==
    /\ \A i \in Inums : di[i].nlink = EntriesTo(i) + InFlight(i) + lost[i]
    /\ \A d \in Inums : \A k \in DOMAIN dir[d] :
           dir[d][k].inum # 0 => di[dir[d][k].inum].type # "none"

(* No interleaving of system calls reaches one of the panics of ilock,       *)
(* dirlookup, ialloc and unlink (fs.c:213, 310, 529, sysfile.c:212).         *)
NoPanic == \A p \in Procs : th[p].pc # "panic"

(* fs.c:327-328 says of iput: "If that was the last reference and the inode  *)
(* has no links to it, free the inode (and its content) on disk."  An inode  *)
(* that no directory names and nobody refers to is free.  It fails in two    *)
(* ways: a file is created in a directory that was removed while it was      *)
(* somebody's current one, and goes out of sight with it; and two processes  *)
(* that drop the last references at once each leave the inode to the other.  *)
NoOrphans == \A i \in Inums : di[i].type # "none" =>
                 Named(i) \/ \E e \in Slots : ic[e].inum = i /\ ic[e].ref > 0

\* The lock that a process cannot go on without.
WaitsFor(p) ==
    LET t == th[p]
        i == CASE t.pc = "iput" -> t.x
               [] t.pc \in {"namex", "found"} -> t.w
               [] t.pc \in {"unlink", "create", "created_before", "bad"} -> t.ip
               [] OTHER -> 0
    IN  IF i = 0 THEN None ELSE lock[i]

(* No two processes wait for each other's inode locks.                       *)
NoDeadlock == ~ \E p, q \in Procs : WaitsFor(p) = q /\ WaitsFor(q) = p
=============================================================================
