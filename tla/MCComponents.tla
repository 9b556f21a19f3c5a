---------------------------- MODULE MCComponents ----------------------------
(* The parts of the system that are checked one by one, for TLC: names and   *)
(* files of the file system, memory, console and spin locks of the kernel,   *)
(* and the programs.  A behaviour is one of the component that part names.   *)
(* The spin locks have their own variables, which stay as they begin in the  *)
(* other behaviours; v1 to v9 are the variables of any other component.      *)
EXTENDS XvSpinlock

CONSTANTS p1, p2

VARIABLES part, v1, v2, v3, v4, v5, v6, v7, v8, v9

all == <<vars, part, v1, v2, v3, v4, v5, v6, v7, v8, v9>>

-----------------------------------------------------------------------------
(* The kernel *)

Abs(s) == [abs |-> TRUE, elems |-> s]
Rel(s) == [abs |-> FALSE, elems |-> s]
Do(kind, path) == [kind |-> kind, path |-> path, new |-> Abs(<<>>)]
Link(path, new) == [kind |-> "link", path |-> path, new |-> new]

\* What two programs do to a file, a directory and its entries.
NameCalls ==
    {Do("open", Abs(<<"a">>)), Do("create", Rel(<<"b">>)), Do("unlink", Abs(<<"a">>)), Do("unlink", Rel(<<"b">>)),
     Do("mkdir", Abs(<<"d">>)), Do("chdir", Abs(<<"d">>)), Do("unlink", Abs(<<"d">>)),
     Do("mknod", Abs(<<"d", "b">>)), Do("openw", Rel(<<"..">>)),
     Link(Abs(<<"a">>), Rel(<<"b">>)), Link(Abs(<<"a">>), Abs(<<"d", "b">>))}

Names == INSTANCE XvNames WITH
    Procs <- {1, 2}, NInodes <- 5, NINODE <- 5, NFILE <- 1, Calls <- NameCalls, MaxCalls <- 3,
    di <- v1, dir <- v2, ic <- v3, lock <- v4, cwd <- v5, fd <- v6, th <- v7, calls <- v8, lost <- v9

\* Files that reach into the indirect block.
Files == INSTANCE XvFiles WITH
    Procs <- {1, 2}, NInodes <- 2, NFILE <- 2, NOFILE <- 2, NBlocks <- 8, BSIZE <- 2, NDIRECT <- 1,
    MaxPiece <- 2, Lengths <- {1, 5}, MaxCalls <- 5,
    bitmap <- v1, data <- v2, inode <- v3, file <- v4, ofile <- v5, todo <- v6, got <- v7, panic <- v8, calls <- v9

Seg(v, m, f, w) == [vaddr |-> v, memsz |-> m, filesz |-> f, whole |-> w]
\* Two good programs, then ones with a header or a file that exec must refuse;
\* 12 is MMAPBASE there, 48 is WORD.
ElfFiles == {<<Seg(0, 2, 1, TRUE)>>, <<Seg(0, 1, 1, TRUE), Seg(4, 2, 2, TRUE)>>,
             <<Seg(0, 3, 2, FALSE)>>, <<Seg(1, 2, 1, TRUE)>>, <<Seg(0, 1, 2, TRUE)>>,
             <<Seg(2, 47, 1, TRUE)>>, <<Seg(0, 12, 1, TRUE)>>, <<>>}

\* Memory for two processes and a half.
Vm == INSTANCE XvVm WITH
    Procs <- {p1, p2}, NFrames <- 14, PGSIZE <- 2, PTES <- 2, NTables <- 3, Programs <- ElfFiles,
    Sizes <- {1, 2, 5, 12, -1, -2, -45}, ArgSizes <- {1, 2, 3}, MaxCalls <- 4,
    free <- v1, proc <- v2, new <- v3, panic <- v4, calls <- v5

\* Two readers, a ring of three, a screen of two by three.
Console == INSTANCE XvConsole WITH
    Readers <- {"p", "q"}, INPUT_BUF <- 3, WORD <- 6, COLS <- 2, ROWS <- 3,
    Keys <- {"x", "cr", "D", "U", "H", "0"}, Counts <- {2},
    buf <- v1, r <- v2, w <- v3, e <- v4, lock <- v5, rd <- v6, pos <- v7

-----------------------------------------------------------------------------
(* The programs *)

\* All lines of up to five tokens are parsed, some longer ones run.
ShellLines == {<<"a", "|", "a", "|", "a">>, <<"a", "&", ";", "a", "|", "a">>,
               <<"(", "a", "|", "a", ")", ">", "a">>, <<"a", "<", "a", ">", "a", "+", "a">>,
               <<"(", "a", ";", "a", ")", "|", "a", "&">>, <<"a", "|", ")">>, <<";">>}

Shell == INSTANCE XvShell WITH
    Tokens <- {"a", "|", "&", ";", "(", ")", ">"}, MaxLine <- 5, Lines <- ShellLines,
    MAXARGS <- 3, NOFILE <- 8, NPROC <- 7,
    line <- v1, mode <- v2, sh <- v3, pipes <- v4

\* A heap of four double words.
P3Heap == INSTANCE Heap WITH
    PageSize <- 40, RegionArgs <- {0, 30}, Requests <- {0, 4, 12, 13}, BadPtrs <- {0, 6, 400},
    Garbage <- {1, 25}, NULL <- None,
    mem <- v1, alloc_size <- v2, ret <- v3, asked <- v4, data <- v5, stale <- v6

\* A heap that grows three times, once past a program's own sbrk.
Malloc == INSTANCE UMalloc WITH
    NALLOC <- 4, Requests <- {2, 3, 5}, HeapEnd <- 15, Gaps <- {1},
    hdr <- v1, freep <- v2, brk <- v3, used <- v4

\* Traces of five lines on caches of one to four sets.
Csim == INSTANCE CacheSim WITH
    ArgS <- {0, 1, 2}, ArgE <- {0, 1, 2}, ArgB <- {1}, Addrs <- {0, 1, 4, 6, 8}, MaxTrace <- 5,
    s <- v1, E <- v2, b <- v3, pc <- v4, cache <- v5, global_counter <- v6, count <- v7, addr <- v8, trace <- v9

Magic == INSTANCE MagicSquare WITH
    Inputs <- {0, 2, 3, 4, 5, 7, 9},
    pc <- v1, n <- v2, square <- v3, row <- v4, col <- v5, num <- v6, rows <- v7

Check == INSTANCE Sudoku WITH
    Sizes <- {0, 1, 2, 3, 10},
    Rows <- {<<0, 0, 0>>, <<1, 2, 3>>, <<2, 0, 1>>, <<0, 1, 0>>, <<2, 3, 2>>, <<0, 3, 0>>, <<1, 1>>, <<0, 2>>, <<1>>},
    pc <- v1, size <- v2, board <- v3, i <- v4, answer <- v5

-----------------------------------------------------------------------------
ASSUME ComponentAssumptions ==
    /\ Names!NamesAssumption /\ Files!FilesAssumption /\ Vm!VmAssumption
    /\ SpinAssumption /\ Shell!ShellAssumption /\ P3Heap!HeapAssumption /\ Csim!CsimAssumption

\* Variables that a component does not have.
From5 == <<v5, v6, v7, v8, v9>>
From6 == <<v6, v7, v8, v9>>
From7 == <<v7, v8, v9>>
From8 == <<v8, v9>>
No8 == v8 = 0 /\ v9 = 0
No6 == v6 = 0 /\ v7 = 0 /\ No8
No5 == v5 = 0 /\ No6

MCInit ==
    /\ Init
    /\ \/ part = "spin"    /\ v1 = 0 /\ v2 = 0 /\ v3 = 0 /\ v4 = 0 /\ No5
       \/ part = "names"   /\ Names!Init
       \/ part = "files"   /\ Files!Init
       \/ part = "vm"      /\ Vm!Init      /\ No6
       \/ part = "console" /\ Console!Init /\ No8
       \/ part = "shell"   /\ Shell!Init   /\ No5
       \/ part = "heap"    /\ P3Heap!Init  /\ v7 = 0 /\ No8
       \/ part = "malloc"  /\ Malloc!Init  /\ No5
       \/ part = "csim"    /\ Csim!Init
       \/ part = "magic"   /\ Magic!Init   /\ No8
       \/ part = "sudoku"  /\ Check!Init   /\ No6

\* A step of the component that is not the spin locks.
Others ==
    \/ part = "names"   /\ Names!Next
    \/ part = "files"   /\ Files!Next
    \/ part = "vm"      /\ Vm!Next      /\ UNCHANGED From6
    \/ part = "console" /\ Console!Next /\ UNCHANGED From8
    \/ part = "shell"   /\ Shell!Next   /\ UNCHANGED From5
    \/ part = "heap"    /\ P3Heap!Next  /\ UNCHANGED From7
    \/ part = "malloc"  /\ Malloc!Next  /\ UNCHANGED From5
    \/ part = "csim"    /\ Csim!Next
    \/ part = "magic"   /\ Magic!Next   /\ UNCHANGED From8
    \/ part = "sudoku"  /\ Check!Next   /\ UNCHANGED From6

MCNext ==
    /\ \/ part = "spin" /\ Next /\ UNCHANGED <<v1, v2, v3, v4, From5>>
       \/ Others /\ UNCHANGED vars
    /\ UNCHANGED part

MCSpec == MCInit /\ [][MCNext]_all

-----------------------------------------------------------------------------
(* The properties of the components, which their modules state in full; that *)
(* of XvSpinlock is InterruptsRight itself.                                  *)


\* XvFiles: the bitmap marks exactly the blocks that inodes have, no block is
\* in two places, and no panic of balloc or bfree is reached (fs.c:56-95).
BlocksExact == part = "files" => Files!BlocksExact

\* XvFiles: reads return what was written last, through shared positions,
\* indirect and reused blocks (file.c:96-156).
ImplementsByteFiles ==
    /\ part = "files" => Files!Abstract!Init
    /\ [][part = "files" => [Files!Abstract!Next]_(Files!Abstract!fvars)]_all

\* XvVm: sbrk, fork, exec and exit, failing anywhere, neither lose a frame nor
\* give one to two, and leave every process all the pages of its size and its
\* arguments inside its stack (vm.c:221-386, exec.c:10-114, proc.c:160-178).
MemoryWhole == part = "vm" => Vm!FramesExact /\ Vm!ImagesWhole

\* XvConsole: no reader sleeps beside entered characters, a full buffer can
\* drain, the cursor cannot leave the screen (console.c:131-271).
ConsoleSound == part = "console" => Console!ConsoleSound

\* XvConsole: what is read was entered, once and in order, and editing never
\* reaches back into an entered line (console.c:191-271).
ImplementsTypedLines ==
    /\ part = "console" => Console!Typed!Init
    /\ [][part = "console" => [Console!Typed!Next]_(Console!Typed!vars)]_all

\* XvShell: parsecmd accepts exactly the lines of the grammar and builds their
\* one reading (sh.c:327-493).
ParsesGrammar == part = "shell" => Shell!ParsesGrammar

\* XvShell: each program of a line has the input and output that it asks for
\* and no other end of a pipe, and no process of a line, nor the shell, waits
\* for ever, whatever forks and opens fail (sh.c:57-172).
JobsRun == part = "shell" => Shell!StdioRight /\ Shell!NobodyStuck

\* Heap and UMalloc: after any calls headers, footers, p-bits and the circular
\* free list describe the heap, blocks do not overlap, and payloads are left
\* alone (p3Heap.c:156-339, umalloc.c:24-90).
AllocatorsSound == /\ part = "heap" => P3Heap!Wellformed /\ P3Heap!PayloadsIntact
                   /\ part = "malloc" => Malloc!FreeListSound

\* Heap: requests are served as Regions does: best fit, none refused that fits
\* a gap, a second free refused (p3Heap.c:156-339).
ImplementsRegions ==
    /\ part = "heap" => P3Heap!Promise!Init
    /\ [][part = "heap" => [P3Heap!Promise!Next]_(P3Heap!Promise!rvars)]_all

\* CacheSim: hits, misses and evictions are those of a least-recently-used
\* cache, by stack distance (csim.c:170-228).
CountsLRU == part = "csim" => Csim!CountsLRU

\* MagicSquare and Sudoku: the square written out is magic; a board with a
\* repeated digit is called invalid and one of blanks and digits up to its
\* size without one valid (my_magic_square.c:74-137, check_sudoku_board.c:35-64).
PuzzlesRight == /\ part = "magic" => Magic!SquareMagic
                /\ part = "sudoku" => Check!BoardsJudged
=============================================================================
