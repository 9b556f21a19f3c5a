------------------------------ MODULE XvShell ------------------------------
(* The shell (sh.c): the recursive-descent parser on the tokens of a line,   *)
(* and runcmd, whose processes fork, wire descriptors to pipes and wait.     *)
(*                                                                           *)
(* The characters of a line are its tokens (gettoken): "a" stands for a      *)
(* word, "+" for >>.  A word is told by its place in the line.               *)
EXTENDS Integers, Sequences, FiniteSets, SequencesExt

CONSTANTS Tokens,     \* the tokens that a typed line is made of
          MaxLine,    \* bound: tokens of a typed line
          Lines,      \* lines that main runs
          MAXARGS,
          NPROC,      \* processes of a line, at most
          NOFILE      \* descriptors of a process

\* What the code assumes of its parameters.
ShellAssumption ==
    /\ Tokens \subseteq {"a", "|", "&", ";", "(", ")", "<", ">", "+"}
    /\ MaxLine \in Nat /\ MAXARGS \in Nat \ {0} /\ NPROC \in Nat /\ NOFILE >= 6
    /\ \A l \in Lines : Len(l) > 0

VARIABLES
    line,     \* the line typed so far, and then the one that main runs
    mode,     \* "typing", or "running" one of Lines
    sh,       \* processes: what each runs, its descriptors, and whom it waits for
    pipes     \* number of pipes made

vars == <<line, mode, sh, pipes>>

-----------------------------------------------------------------------------
(* Parsing.  A parser takes a line s and a place i and gives [cmd, at, ok];  *)
(* panic makes ok FALSE, and what comes after it does not matter.            *)

\* peek looks at the token at i.
peek(s, i, toks) == i <= Len(s) /\ s[i] \in toks

Parsed(c, i) == [cmd |-> c, at |-> i, ok |-> TRUE]
Panic(i) == [cmd |-> [type |-> "none"], at |-> i, ok |-> FALSE]
Then(r, next(_)) == IF r.ok THEN next(r) ELSE r

\* Constructors.
execcmd(argv) == [type |-> "EXEC", argv |-> argv]
redircmd(c, f, fd) == [type |-> "REDIR", cmd |-> c, file |-> f, fd |-> fd]
pipecmd(l, r) == [type |-> "PIPE", left |-> l, right |-> r]
listcmd(l, r) == [type |-> "LIST", left |-> l, right |-> r]
backcmd(c) == [type |-> "BACK", cmd |-> c]

\* The descriptor that a redirection replaces.
FdOf(tok) == IF tok = "<" THEN 0 ELSE 1

RECURSIVE parseredirs(_, _, _)
parseredirs(c, s, i) ==
    IF ~peek(s, i, {"<", ">", "+"}) THEN Parsed(c, i)
    ELSE IF ~peek(s, i + 1, {"a"}) THEN Panic(i)     \* missing file for redirection
    ELSE parseredirs(redircmd(c, i + 1, FdOf(s[i])), s, i + 2)

\* The loop of parseexec: ret is the command with its redirections around it,
\* argv goes into the execcmd at its core, which cmd points to.
RECURSIVE SetArgv(_, _)
SetArgv(c, argv) == IF c.type = "EXEC" THEN execcmd(argv)
                    ELSE [c EXCEPT !.cmd = SetArgv(c.cmd, argv)]

RECURSIVE parseargs(_, _, _, _)
parseargs(ret, argv, s, i) ==
    IF i > Len(s) \/ peek(s, i, {"|", ")", "&", ";"}) THEN Parsed(SetArgv(ret, argv), i)
    ELSE IF s[i] # "a" \/ Len(argv) + 1 >= MAXARGS THEN Panic(i)  \* syntax, too many args
    ELSE Then(parseredirs(ret, s, i + 1), LAMBDA r : parseargs(r.cmd, Append(argv, i), s, r.at))

\* Mutant: the file of a redirection before the first word is forgotten.
LooseRedirs(c, s, i) == Then(parseredirs(c, s, i), LAMBDA r : Parsed(c, r.at))
FirstRedirs(c, s, i) == parseredirs(c, s, i)

RECURSIVE parseline(_, _), parsepipe(_, _), parseexec(_, _), parseblock(_, _), Backs(_, _, _)
parseexec(s, i) ==
    IF peek(s, i, {"("}) THEN parseblock(s, i)
    ELSE Then(FirstRedirs(execcmd(<<>>), s, i), LAMBDA r : parseargs(r.cmd, <<>>, s, r.at))

parseblock(s, i) ==
    Then(parseline(s, i + 1), LAMBDA r :
         IF peek(s, r.at, {")"}) THEN parseredirs(r.cmd, s, r.at + 1)
         ELSE Panic(r.at))                           \* syntax - missing )

parsepipe(s, i) ==
    Then(parseexec(s, i), LAMBDA r :
         IF ~peek(s, r.at, {"|"}) THEN r
         ELSE Then(parsepipe(s, r.at + 1), LAMBDA q : Parsed(pipecmd(r.cmd, q.cmd), q.at)))

\* The while loop of parseline.
Backs(c, s, i) == IF peek(s, i, {"&"}) THEN Backs(backcmd(c), s, i + 1) ELSE Parsed(c, i)

parseline(s, i) ==
    Then(Then(parsepipe(s, i), LAMBDA r : Backs(r.cmd, s, r.at)), LAMBDA b :
         IF ~peek(s, b.at, {";"}) THEN b
         ELSE Then(parseline(s, b.at + 1), LAMBDA q : Parsed(listcmd(b.cmd, q.cmd), q.at)))

parsecmd(s) == Then(parseline(s, 1), LAMBDA r :
                    IF r.at <= Len(s) THEN Panic(r.at) ELSE r)            \* leftovers

\* nulterminate: the words that get their NUL.
RECURSIVE nulterminate(_)
nulterminate(c) ==
    CASE c.type = "EXEC" -> Range(c.argv)
      [] c.type = "REDIR" -> nulterminate(c.cmd) \cup {c.file}
      [] c.type \in {"PIPE", "LIST"} -> nulterminate(c.left) \cup nulterminate(c.right)
      [] c.type = "BACK" -> nulterminate(c.cmd)

-----------------------------------------------------------------------------
(* runcmd.  A descriptor is closed, the console, a file <<"file", word>> or  *)
(* an end of a pipe, <<"r", n>> or <<"w", n>>.  Calls between two forks      *)
(* touch only the caller's own descriptors and are one step.                 *)

closed == <<"closed", 0>>
console == <<"console", 0>>
Closed(fds, F) == [d \in DOMAIN fds |-> IF d \in F THEN closed ELSE fds[d]]

\* A file gets the lowest descriptor that is closed (fdalloc).
LowestOf(fds) == CHOOSE d \in DOMAIN fds :
    fds[d] = closed /\ \A c \in DOMAIN fds : fds[c] = closed => d <= c
Opened(fds, f) == [fds EXCEPT ![LowestOf(fds)] = f]

\* close(fd); open(file)
RedirFds(fds, fd, f) == Opened(Closed(fds, {fd}), <<"file", f>>)

\* pipe(p): both ends.
PipeFds(fds, n) == Opened(Opened(fds, <<"r", n>>), <<"w", n>>)
EndsOf(fds, E) == {d \in DOMAIN fds : fds[d] \in E}

\* The child on side fd of pipe n: close(fd); dup(p[..]); close(p[0]); close(p[1]).
\* Mutant: the write end stays open.
ChildKeeps(fds, fd, n) ==
    LET e == IF fd = 1 THEN <<"w", n>> ELSE <<"r", n>>
    IN  Closed(Opened(Closed(fds, {fd}), e), EndsOf(fds, {<<"r", n>>}))
ChildFds(fds, fd, n) ==
    LET e == IF fd = 1 THEN <<"w", n>> ELSE <<"r", n>>
    IN  Closed(Opened(Closed(fds, {fd}), e), EndsOf(fds, {<<"r", n>>, <<"w", n>>}))

\* Mutant: the parent of a pipeline waits with the pipe open.
ParentKeeps(fds, n) == fds
ParentFds(fds, n) == Closed(fds, EndsOf(fds, {<<"r", n>>, <<"w", n>>}))

\* std is what the line asks to be on 0 and 1 (used by StdioRight only), kids the
\* children to wait for, n the pipe in the making.
Console == [d \in 0..NOFILE - 1 |-> IF d < 3 THEN console ELSE closed]
Runs(c, fds, std) == [pc |-> "run", cmd |-> c, fds |-> fds, n |-> 0, kids |-> {}, std |-> std]
Exits == [Runs([type |-> "none"], Closed(Console, DOMAIN Console), <<console, console>>) EXCEPT !.pc = "dead"]

At(p, t) == p \in DOMAIN sh /\ sh[p].pc = "run" /\ sh[p].cmd.type = t
Step(p, x) == sh' = [sh EXCEPT ![p] = x] /\ UNCHANGED pipes
\* p becomes x and forks a child running y, or fork1 fails and p exits.
Forks(p, x, y) ==
    LET q == Cardinality(DOMAIN sh) IN
    \/ /\ q <= NPROC
       /\ sh' = [r \in DOMAIN sh \cup {q} |->
                    IF r = q THEN y ELSE IF r = p THEN [x EXCEPT !.kids = @ \cup {q}] ELSE sh[r]]
    \/ sh' = [sh EXCEPT ![p] = Exits]
\* wait for all of them.
Waited(p) == \A q \in sh[p].kids : sh[q].pc = "dead"

RunExec(p) == /\ At(p, "EXEC")
              /\ Step(p, IF sh[p].cmd.argv = <<>> THEN Exits ELSE [sh[p] EXCEPT !.pc = "program"])

\* The redirection written first is innermost, is made last, and wins.
RunRedir(p) ==
    LET c == sh[p].cmd IN
    /\ At(p, "REDIR")
    /\ \/ Step(p, [sh[p] EXCEPT !.cmd = c.cmd, !.fds = RedirFds(@, c.fd, c.file),
                                !.std[c.fd + 1] = <<"file", c.file>>])
       \/ Step(p, Exits)       \* open fails

\* The left part in a child, wait, then the right part in this process.
RunList(p) ==
    LET x == sh[p] IN
    /\ At(p, "LIST")
    /\ \/ /\ x.kids = {} /\ UNCHANGED pipes
          /\ Forks(p, x, Runs(x.cmd.left, x.fds, x.std))
       \/ x.kids # {} /\ Waited(p) /\ Step(p, Runs(x.cmd.right, x.fds, x.std))

RunPipe(p) ==
    LET x == sh[p]
        m == pipes + 1
        fds == PipeFds(x.fds, m) IN
    /\ At(p, "PIPE")
    /\ \/ /\ x.n = 0 /\ pipes' = m
          /\ Forks(p, [x EXCEPT !.n = m, !.fds = fds],
                   Runs(x.cmd.left, ChildFds(fds, 1, m), <<x.std[1], <<"w", m>>>>))
       \/ /\ x.n > 0 /\ UNCHANGED pipes
          /\ Forks(p, [x EXCEPT !.pc = "waits", !.fds = ParentFds(@, x.n)],
                   Runs(x.cmd.right, ChildFds(x.fds, 0, x.n), <<<<"r", x.n>>, x.std[2]>>))

\* wait(); wait(); exit()
RunWaits(p) == /\ p \in DOMAIN sh /\ sh[p].pc = "waits" /\ Waited(p)
               /\ Step(p, Exits)

\* The child goes on by itself; its parent exits.
RunBack(p) == /\ At(p, "BACK") /\ UNCHANGED pipes
              /\ Forks(p, Exits, Runs(sh[p].cmd.cmd, sh[p].fds, sh[p].std))

\* A program (external) reads its standard input to the end, if that is a pipe,
\* and exits; so does a process whose exec failed.
Written(n) == \E p \in DOMAIN sh : EndsOf(sh[p].fds, {<<"w", n>>}) # {}
Finish(p) == /\ p \in DOMAIN sh /\ sh[p].pc = "program"
             /\ ~(sh[p].fds[0][1] = "r" /\ Written(sh[p].fds[0][2]))
             /\ Step(p, Exits)

-----------------------------------------------------------------------------
(* main, process 0 *)
Prompt == [Exits EXCEPT !.pc = "prompt", !.fds = Console]

Type == /\ mode = "typing" /\ Len(line) < MaxLine
        /\ \E t \in Tokens : line' = Append(line, t)
        /\ UNCHANGED <<mode, sh, pipes>>

\* fork1; the child parses, and exits on a syntax error.
RunLine == /\ mode = "running" /\ sh[0].pc = "prompt" /\ UNCHANGED pipes
           /\ Forks(0, [sh[0] EXCEPT !.pc = "wait"],
                    LET r == parsecmd(line)
                    IN  IF r.ok THEN Runs(r.cmd, Console, <<console, console>>) ELSE Exits)

\* wait() and back to getcmd; the jobs in the background go on.
Returns == /\ mode = "running" /\ sh[0].pc = "wait" /\ Waited(0)
           /\ Step(0, [Prompt EXCEPT !.pc = "returned"])

\* The next line is run when the jobs of the last are done (a bound).
Forget == /\ mode = "running" /\ sh[0].pc = "returned"
          /\ \A p \in DOMAIN sh \ {0} : sh[p].pc = "dead"
          /\ sh' = (0 :> Prompt) /\ pipes' = 0

Init == /\ mode \in {"typing", "running"}
        /\ line \in IF mode = "typing" THEN {<<>>} ELSE Lines
        /\ sh = (0 :> Prompt) /\ pipes = 0

Run(p) == RunExec(p) \/ RunRedir(p) \/ RunList(p) \/ RunPipe(p) \/ RunWaits(p) \/ RunBack(p) \/ Finish(p)
Next == \/ Type
        \/ /\ UNCHANGED <<line, mode>>
           /\ RunLine \/ Returns \/ Forget \/ \E p \in DOMAIN sh : Run(p)

Spec == Init /\ [][Next]_vars

-----------------------------------------------------------------------------
(* The grammar, declaratively: the trees that tokens lo..hi of a line can be *)
(* read as, by the ways to split them.                                       *)

RedirsIn(s, lo, hi) == {i \in lo..hi : s[i] \in {"<", ">", "+"}}
IsArgs(s, lo, hi) ==
    /\ \A i \in lo..hi : s[i] = "a" \/ i \in RedirsIn(s, lo, hi)
    /\ \A i \in RedirsIn(s, lo, hi) : i < hi /\ s[i + 1] = "a"
    /\ Cardinality({i \in lo..hi : s[i] = "a"}) - Cardinality(RedirsIn(s, lo, hi)) < MAXARGS

\* The redirections of s, the first innermost, around c.
Redirected(c, s, R) == FoldLeft(LAMBDA d, i : redircmd(d, i + 1, FdOf(s[i])), c,
                                SetToSortSeq(R, LAMBDA i, j : i < j))

RECURSIVE LineTrees(_, _, _), PipeTrees(_, _, _)
ExecTrees(s, lo, hi) ==
    (IF IsArgs(s, lo, hi)
     THEN LET R == RedirsIn(s, lo, hi)
              W == {i \in lo..hi : s[i] = "a" /\ i - 1 \notin R}
          IN  {Redirected(execcmd(SetToSortSeq(W, LAMBDA i, j : i < j)), s, R)}
     ELSE {})
    \cup UNION {{Redirected(c, s, RedirsIn(s, k + 1, hi)) : c \in LineTrees(s, lo + 1, k - 1)} :
                k \in {k \in lo + 1..hi : /\ s[lo] = "(" /\ s[k] = ")"
                                          /\ IsArgs(s, k + 1, hi)
                                          /\ 2 * Cardinality(RedirsIn(s, k + 1, hi)) = hi - k}}
PipeTrees(s, lo, hi) ==
    ExecTrees(s, lo, hi)
    \cup UNION {{pipecmd(l, r) : l \in ExecTrees(s, lo, k - 1), r \in PipeTrees(s, k + 1, hi)} :
                k \in {k \in lo..hi : s[k] = "|"}}
RECURSIVE BackN(_, _)
BackN(c, n) == IF n = 0 THEN c ELSE backcmd(BackN(c, n - 1))
JobTrees(s, lo, hi) ==
    UNION {{BackN(c, hi - k) : c \in PipeTrees(s, lo, k)} :
           k \in {k \in lo - 1..hi : \A i \in k + 1..hi : s[i] = "&"}}
LineTrees(s, lo, hi) ==
    JobTrees(s, lo, hi)
    \cup UNION {{listcmd(l, r) : l \in JobTrees(s, lo, k - 1), r \in LineTrees(s, k + 1, hi)} :
                k \in {k \in lo..hi : s[k] = ";"}}

(* parsecmd accepts a line exactly when the grammar has a reading of it,     *)
(* there is one reading only, that is the tree it builds, and nulterminate   *)
(* ends every word of the line (sh.c:327-493).                               *)
ParsesGrammar ==
    mode = "typing" =>
        LET r == parsecmd(line) IN
        /\ LineTrees(line, 1, Len(line)) = IF r.ok THEN {r.cmd} ELSE {}
        /\ r.ok => nulterminate(r.cmd) = {i \in 1..Len(line) : line[i] = "a"}

(* A program has on 0 and 1 what the line asks for and holds no other end of *)
(* a pipe, whatever forks and opens failed around it (sh.c:82-122).          *)
StdioRight ==
    \A p \in DOMAIN sh : sh[p].pc = "program" =>
        /\ sh[p].fds[0] = sh[p].std[1] /\ sh[p].fds[1] = sh[p].std[2]
        /\ \A d \in 2..NOFILE - 1 : sh[p].fds[d] \in {closed, console}

(* While main waits for the line or a process of it is left, in the          *)
(* background too, one of them can go on: whatever forks and opens fail,     *)
(* none waits for the end of a pipe that it or its parent holds open, or for *)
(* a child that waits for it (sh.c:94-122, 167-169).  A line has finitely    *)
(* many steps, so main returns and all its processes end.                    *)
NobodyStuck ==
    sh[0].pc = "wait" \/ (\E p \in DOMAIN sh \ {0} : sh[p].pc # "dead") => ENABLED (UNCHANGED <<line, mode>> /\ (Returns \/ \E p \in DOMAIN sh : Run(p)))
=============================================================================
