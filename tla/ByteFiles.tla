----------------------------- MODULE ByteFiles ------------------------------
(* What the file layer promises: a file is a sequence of bytes, an open file *)
(* a position in one; a piece of a write overwrites and extends the bytes at *)
(* the position and moves it, a read returns the bytes there and moves it.   *)
EXTENDS Integers, Sequences

CONSTANTS Procs, Inodes, Files, Bytes,
          MaxPiece,    \* longest piece of a write
          MaxSize      \* longest file

VARIABLES content,    \* the bytes of each inode
          named,      \* the inodes that have a name
          inode, pos, \* of each open file; inode 0 when it is not open
          got         \* what each process read last

fvars == <<content, named, inode, pos, got>>

\* Bytes bs laid over s from position k on.
Over(s, k, bs) == [j \in 1..(IF k + Len(bs) > Len(s) THEN k + Len(bs) ELSE Len(s)) |->
                      IF j \in k + 1..k + Len(bs) THEN bs[j - k] ELSE s[j]]

Init == /\ content = [i \in Inodes |-> <<>>] /\ named = {}
        /\ inode = [f \in Files |-> 0] /\ pos = [f \in Files |-> 0]
        /\ got = [p \in Procs |-> <<>>]

InUse(i) == i \in named \/ \E f \in Files : inode[f] = i

\* A new file is empty.
Create(i) == /\ ~InUse(i) /\ named' = named \cup {i}
             /\ UNCHANGED <<content, inode, pos, got>>

Open(f, i) == /\ inode[f] = 0 /\ (i \in named \/ ~InUse(i))
              /\ inode' = [inode EXCEPT ![f] = i] /\ pos' = [pos EXCEPT ![f] = 0]
              /\ named' = named \cup {i}
              /\ UNCHANGED <<content, got>>

\* The bytes go with the last of an inode's name and its open files.
Kept == [i \in Inodes |-> IF InUse(i)' THEN content[i] ELSE <<>>]

Close(f, i) == /\ inode[f] = i
               /\ inode' = [inode EXCEPT ![f] = 0] /\ pos' = [pos EXCEPT ![f] = 0]
               /\ named' = named /\ content' = Kept
               /\ UNCHANGED got

Remove(i) == /\ i \in named
             /\ named' = named \ {i} /\ inode' = inode /\ content' = Kept
             /\ UNCHANGED <<pos, got>>

Write(f, bs) ==
    LET i == inode[f] IN
    /\ i # 0 /\ pos[f] + Len(bs) <= MaxSize
    /\ content' = [content EXCEPT ![i] = Over(@, pos[f], bs)]
    /\ pos' = [pos EXCEPT ![f] = @ + Len(bs)]
    /\ UNCHANGED <<named, inode, got>>

Read(p, f, n) ==
    LET s == content[inode[f]]
        end == IF pos[f] + n > Len(s) THEN Len(s) ELSE pos[f] + n
        bs == SubSeq(s, pos[f] + 1, end) IN
    /\ inode[f] # 0
    /\ got' = [got EXCEPT ![p] = bs]
    /\ pos' = [pos EXCEPT ![f] = @ + Len(bs)]
    /\ UNCHANGED <<content, named, inode>>

Next ==
    \/ \E i \in Inodes : Create(i) \/ Remove(i) \/ \E f \in Files : Open(f, i) \/ Close(f, i)
    \/ \E f \in Files, n \in 1..MaxPiece, b \in Bytes : Write(f, [j \in 1..n |-> b])
    \/ \E p \in Procs, f \in Files, n \in 0..MaxSize : Read(p, f, n)

Spec == Init /\ [][Next]_fvars
=============================================================================
