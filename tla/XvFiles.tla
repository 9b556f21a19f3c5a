------------------------------ MODULE XvFiles -------------------------------
(* File contents in xv6: blocks and the bitmap, the direct and indirect      *)
(* blocks of an inode (fs.c), open files and descriptors that share a        *)
(* position, reads, and writes cut into transactions (file.c, sysfile.c).    *)
(*                                                                           *)
(* The unit of data is a word: a block has BSIZE of them, an indirect block  *)
(* as many block numbers.  A step is what happens while an inode is locked:  *)
(* readi, writei of one piece, itrunc.  Of what they use only the bitmap is  *)
(* shared with operations on other inodes, and these take blocks one by one. *)
(* The log makes a piece atomic (XvLog).                                     *)
EXTENDS Integers, FiniteSets, SequencesExt

CONSTANTS Procs, NInodes, NFILE, NOFILE,
          NBlocks, BSIZE, NDIRECT,
          MaxPiece,          \* filewrite's max
          Lengths,           \* of reads and writes
          MaxCalls

\* What the code assumes of its parameters.
FilesAssumption ==
    /\ NInodes \in Nat \ {0} /\ NFILE \in Nat \ {0} /\ NOFILE \in Nat \ {0}
    /\ NBlocks \in Nat /\ BSIZE \in Nat \ {0} /\ NDIRECT \in Nat \ {0}
    /\ MaxPiece \in Nat \ {0} /\ Lengths \subseteq Nat /\ MaxCalls \in Nat
    /\ Procs \subseteq Nat \ {0}   \* a process writes words that tell who it is

Inodes == 1..NInodes
Files == 1..NFILE
Blocks == 1..NBlocks
MAXFILE == NDIRECT + BSIZE

VARIABLES
    bitmap, data,     \* blocks in use, what all blocks hold
    inode,            \* nlink, size and addrs of each inode
    file, ofile,      \* ftable: ref, ip, off; descriptors of each process
    todo,             \* per process: the write it is in: file, words left
    got,              \* per process: what it read last
    panic, calls

vars == <<bitmap, data, inode, file, ofile, todo, got, panic, calls>>

Least(S) == CHOOSE i \in S : \A j \in S : i <= j

-----------------------------------------------------------------------------
(* fs.c: blocks, as functions on [bitmap, data, addrs, ok]; ok is FALSE once *)
(* a panic was reached                                                       *)

\* Mutant: the new block keeps what the last owner left in it.
Kept(d, b) == d
Zeroed(d, b) == [d EXCEPT ![b] = [k \in 0..BSIZE - 1 |-> 0]]

\* balloc: the first free block, zeroed (bzero).
FirstFree(s) == Least(Blocks \ s.bitmap)
balloc(s) == IF s.bitmap = Blocks THEN [s EXCEPT !.ok = FALSE]
             ELSE [s EXCEPT !.bitmap = @ \cup {FirstFree(s)}, !.data = Zeroed(@, FirstFree(s))]

\* The address of block bn of the file, 0 when it has none.
Mapped(s, bn) == IF bn < NDIRECT THEN s.addrs[bn]
                 ELSE IF s.addrs[NDIRECT] = 0 THEN 0
                 ELSE s.data[s.addrs[NDIRECT]][bn - NDIRECT]

\* bmap allocates the indirect block and the block as needed.
NewDirect(s, n) ==
    LET a == balloc(s) IN
    IF s.addrs[n] # 0 THEN s ELSE IF a.ok THEN [a EXCEPT !.addrs[n] = FirstFree(s)] ELSE a
NewIndirect(s, n) ==
    LET a == balloc(s)
        ib == s.addrs[NDIRECT] IN
    IF s.data[ib][n] # 0 THEN s ELSE IF a.ok THEN [a EXCEPT !.data[ib][n] = FirstFree(s)] ELSE a
bmap(s, bn) ==
    IF bn < NDIRECT THEN NewDirect(s, bn)
    ELSE LET t == NewDirect(s, NDIRECT) IN
         IF t.ok THEN NewIndirect(t, bn - NDIRECT) ELSE t

Disk(i) == [bitmap |-> bitmap, data |-> data, addrs |-> inode[i].addrs, ok |-> TRUE]

\* readi of n words from off on, already cut at the size: a block that is
\* missing would be allocated outside a transaction, which log_write refuses.
Readable(s, off, n) == \A k \in off..off + n - 1 : Mapped(s, k \div BSIZE) # 0
Words(s, off, n) == [k \in 1..n |->
    s.data[Mapped(s, (off + k - 1) \div BSIZE)][(off + k - 1) % BSIZE]]

\* The copying of writei, block by block: the disk after k words of byte v.
Written(s, off, n, v) ==
    LET W[k \in 0..n] ==
            IF k = 0 THEN s
            ELSE LET o == off + k - 1
                     t == bmap(W[k - 1], o \div BSIZE)
                 IN  IF t.ok THEN [t EXCEPT !.data[Mapped(t, o \div BSIZE)][o % BSIZE] = v]
                     ELSE t
    IN  W[n]

\* Mutant: a write that ends at the size, or before it, cuts the file.
SizeAtEnd(size, end) == end
SizeAfter(size, end) == IF end > size THEN end ELSE size

\* The blocks that itrunc frees.
Owned(s) == ({s.addrs[k] : k \in 0..NDIRECT}
             \cup (IF s.addrs[NDIRECT] = 0 THEN {}
                   ELSE {s.data[s.addrs[NDIRECT]][k] : k \in 0..BSIZE - 1})) \ {0}

Unused == [nlink |-> 0, size |-> 0, addrs |-> [k \in 0..NDIRECT |-> 0]]

-----------------------------------------------------------------------------
(* sysfile.c and file.c *)

Free(p) == todo[p] = <<>> /\ ~panic
Counted == calls < MaxCalls /\ calls' = calls + 1
OpenOf(i) == {f \in Files : file[f].ref > 0 /\ file[f].ip = i}

NoFd(p) == \A k \in 1..NOFILE : ofile[p][k] # 0
fdalloc(p, f) == [ofile EXCEPT ![p][Least({k \in 1..NOFILE : ofile[p][k] = 0})] = f]

\* open creates the inode if it is free (O_CREATE), then takes the first free
\* file and descriptor; when it finds none it leaves all but the inode alone.
sys_open(p, i) ==
    /\ Free(p) /\ Counted
    /\ inode[i].nlink = 0 => OpenOf(i) = {}
    /\ inode' = [inode EXCEPT ![i].nlink = 1]
    /\ LET F == {f \in Files : file[f].ref = 0} IN
       IF F = {} \/ NoFd(p) THEN UNCHANGED <<file, ofile>>
       ELSE /\ file' = [file EXCEPT ![Least(F)] = [ref |-> 1, ip |-> i, off |-> 0]]
            /\ ofile' = fdalloc(p, Least(F))
    /\ UNCHANGED <<bitmap, data, todo, got, panic>>

sys_dup(p, k) ==
    /\ Free(p) /\ Counted /\ ofile[p][k] # 0 /\ ~NoFd(p)
    /\ ofile' = fdalloc(p, ofile[p][k])
    /\ file' = [file EXCEPT ![ofile[p][k]].ref = @ + 1]
    /\ UNCHANGED <<bitmap, data, inode, todo, got, panic>>

\* fork: the child's free descriptors stand for those of its parent.
fork(p, q) ==
    /\ Free(p) /\ Counted /\ p # q /\ \A k \in 1..NOFILE : ofile[q][k] = 0
    /\ ofile' = [ofile EXCEPT ![q] = ofile[p]]
    /\ file' = [f \in Files |-> [file[f] EXCEPT !.ref =
                   @ + Cardinality({k \in 1..NOFILE : ofile[p][k] = f})]]
    /\ UNCHANGED <<bitmap, data, inode, todo, got, panic>>

\* iput of the last reference without links: itrunc.
Truncates(i) ==
    IF Owned(Disk(i)) \subseteq bitmap
    THEN /\ bitmap' = bitmap \ Owned(Disk(i))
         /\ inode' = [inode EXCEPT ![i] = Unused] /\ UNCHANGED panic
    ELSE panic' = TRUE /\ UNCHANGED <<bitmap, inode>>

sys_close(p, k) ==
    LET f == ofile[p][k]
        i == file[f].ip IN
    /\ Free(p) /\ f # 0
    /\ ofile' = [ofile EXCEPT ![p][k] = 0]
    /\ IF file[f].ref > 1
       THEN file' = [file EXCEPT ![f].ref = @ - 1] /\ UNCHANGED <<bitmap, inode, panic>>
       ELSE /\ file' = [file EXCEPT ![f] = [ref |-> 0, ip |-> 0, off |-> 0]]
            /\ IF inode[i].nlink = 0 /\ OpenOf(i) = {f} THEN Truncates(i)
               ELSE UNCHANGED <<bitmap, inode, panic>>
    /\ UNCHANGED <<data, todo, got, calls>>

\* The last name of an inode goes.
unlink(p, i) ==
    /\ Free(p) /\ Counted /\ inode[i].nlink = 1
    /\ IF OpenOf(i) = {} THEN Truncates(i)
       ELSE inode' = [inode EXCEPT ![i].nlink = 0] /\ UNCHANGED <<bitmap, panic>>
    /\ UNCHANGED <<data, file, ofile, todo, got>>

Smaller(m, n) == IF m < n THEN m ELSE n

\* fileread: readi at the file's position, which moves.
fileread(p, k, n) ==
    LET f == ofile[p][k]
        i == file[f].ip
        off == file[f].off
        m == Smaller(n, inode[i].size - off) IN
    /\ Free(p) /\ Counted /\ f # 0
    /\ IF off > inode[i].size THEN UNCHANGED <<file, got, panic>>
       ELSE IF Readable(Disk(i), off, m)
       THEN /\ got' = [got EXCEPT ![p] = Words(Disk(i), off, m)]
            /\ file' = [file EXCEPT ![f].off = @ + m] /\ UNCHANGED panic
       ELSE panic' = TRUE /\ UNCHANGED <<file, got>>
    /\ UNCHANGED <<bitmap, data, inode, ofile, todo>>

\* filewrite starts with n words to write.
filewrite(p, k, n) ==
    /\ Free(p) /\ Counted /\ ofile[p][k] # 0
    /\ todo' = [todo EXCEPT ![p] = IF n = 0 THEN <<>> ELSE <<ofile[p][k], n>>]
    /\ UNCHANGED <<bitmap, data, inode, file, ofile, got, panic>>

\* One piece of it, in a transaction of its own: writei at the position of the
\* file as it is now.
write_piece(p) ==
    LET f == todo[p][1]
        n == Smaller(todo[p][2], MaxPiece)
        i == file[f].ip
        off == file[f].off
        s == Written(Disk(i), off, n, p) IN
    /\ todo[p] # <<>> /\ ~panic
    /\ IF off > inode[i].size \/ off + n > MAXFILE * BSIZE   \* writei returns -1
       THEN /\ todo' = [todo EXCEPT ![p] = <<>>]
            /\ UNCHANGED <<bitmap, data, inode, file, panic>>
       ELSE IF s.ok
       THEN /\ bitmap' = s.bitmap /\ data' = s.data /\ UNCHANGED panic
            /\ inode' = [inode EXCEPT ![i] = [@ EXCEPT !.addrs = s.addrs,
                                                 !.size = SizeAfter(@, off + n)]]
            /\ file' = [file EXCEPT ![f].off = @ + n]
            /\ todo' = [todo EXCEPT ![p] = IF todo[p][2] = n THEN <<>>
                                           ELSE <<f, todo[p][2] - n>>]
       ELSE panic' = TRUE /\ UNCHANGED <<bitmap, data, inode, file, todo>>
    /\ UNCHANGED <<ofile, got, calls>>

-----------------------------------------------------------------------------
Init ==
    /\ bitmap = {} /\ data = [b \in Blocks |-> [k \in 0..BSIZE - 1 |-> 0]]
    /\ inode = [i \in Inodes |-> Unused]
    /\ file = [f \in Files |-> [ref |-> 0, ip |-> 0, off |-> 0]]
    /\ ofile = [p \in Procs |-> [k \in 1..NOFILE |-> 0]]
    /\ todo = [p \in Procs |-> <<>>] /\ got = [p \in Procs |-> <<>>]
    /\ panic = FALSE /\ calls = 0

Next == \E p \in Procs :
    \/ \E i \in Inodes : sys_open(p, i) \/ unlink(p, i)
    \/ \E k \in 1..NOFILE : \/ sys_dup(p, k) \/ sys_close(p, k)
                            \/ \E n \in Lengths : fileread(p, k, n) \/ filewrite(p, k, n)
    \/ write_piece(p)
    \/ \E q \in Procs : fork(p, q)

Spec == Init /\ [][Next]_vars

-----------------------------------------------------------------------------
TypeOK ==
    /\ bitmap \subseteq Blocks /\ data \in [Blocks -> [0..BSIZE - 1 -> Nat]]
    /\ \A i \in Inodes : inode[i].size \in 0..MAXFILE * BSIZE
    /\ \A f \in Files : file[f].ref = Cardinality({<<p, k>> \in Procs \X (1..NOFILE) : ofile[p][k] = f})

\* All block addresses of inode i, each as often as it occurs.
AddrsOf(i) ==
    LET s == Disk(i)
        direct == [k \in 1..NDIRECT + 1 |-> s.addrs[k - 1]]
        inner == IF s.addrs[NDIRECT] = 0 THEN <<>>
                 ELSE [k \in 1..BSIZE |-> s.data[s.addrs[NDIRECT]][k - 1]]
    IN  SelectSeq(direct \o inner, LAMBDA b : b # 0)
AllAddrs == FoldFunctionOnSet(LAMBDA x, y : x \o y, <<>>, [i \in Inodes |-> AddrsOf(i)], Inodes)

(* The bitmap marks exactly the blocks that inodes have, no block is in two  *)
(* places, no file position lies behind the end of its file, file references *)
(* are exact, and neither a disk with enough blocks nor any order of writes, *)
(* removals and closes reaches a panic of balloc, bfree or readi             *)
(* (fs.c:56-95, 372-435).                                                    *)
BlocksExact ==
    /\ TypeOK
    /\ IsInjective(AllAddrs) /\ ToSet(AllAddrs) = bitmap
    /\ \A f \in Files : file[f].ref > 0 => file[f].off <= inode[file[f].ip].size
    /\ ~panic

Abstract == INSTANCE ByteFiles WITH
    Bytes <- Procs, MaxSize <- MAXFILE * BSIZE,
    content <- [i \in Inodes |-> IF panic THEN <<>> ELSE Words(Disk(i), 0, inode[i].size)],
    named <- {i \in Inodes : inode[i].nlink = 1},
    inode <- [f \in Files |-> file[f].ip],
    pos <- [f \in Files |-> file[f].off]

(* Reads and writes through shared positions, direct and indirect blocks and *)
(* reused blocks implement files of bytes: what is read is what was written  *)
(* last, nothing of a removed file shows up in a new one, and pieces written *)
(* through one shared position follow each other (file.c:96-156).            *)
ImplementsByteFiles == Abstract!Spec
=============================================================================
