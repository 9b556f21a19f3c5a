------------------------------ MODULE XvConsole ------------------------------
(* The console (console.c): consoleintr puts typed characters into a ring,   *)
(* consoleread takes them out and sleeps, consolewrite moves the cursor of   *)
(* the screen.  cons.lock is held from the start of a handler to its end,    *)
(* but for sleep.                                                            *)
(*                                                                           *)
(* Characters: "x" for any that has no meaning, "nl", "cr", "D" (^D), "U"    *)
(* (^U), "H" (^H and delete), "0" (a key without a character).               *)
EXTENDS Integers, Sequences

CONSTANTS Readers,
          INPUT_BUF,
          WORD,           \* r, w and e are unsigned: modulo WORD
          COLS, ROWS,     \* of the screen (80 and 25)
          Keys,           \* characters typed
          Counts          \* sizes of reads

VARIABLES
    buf, r, w, e,         \* input
    lock,                 \* holder of cons.lock, or "none"
    rd,                   \* readers: pc, n, target, killed
    pos                   \* cursor

vars == <<buf, r, w, e, lock, rd, pos>>

Ring == 0..INPUT_BUF - 1
\* i - j in unsigned arithmetic.
Minus(i, j) == (i - j) % WORD

-----------------------------------------------------------------------------
(* Output *)

\* cgaputc: one character further, down to the next line, or back; the screen
\* scrolls before the last line is used.
\* Mutant: only beyond the last line.
ScrollsLate(q) == q \div COLS >= ROWS
Scrolls(q) == q \div COLS >= ROWS - 1
cgaputc(p, c) ==
    LET q == CASE c = "nl" -> p + COLS - (p % COLS)
               [] c = "BACKSPACE" -> IF p > 0 THEN p - 1 ELSE p
               [] OTHER -> p + 1
    IN  IF Scrolls(q) THEN q - COLS ELSE q

consolewrite(c) == lock = "none" /\ pos' = cgaputc(pos, c) /\ UNCHANGED <<buf, r, w, e, lock, rd>>

-----------------------------------------------------------------------------
(* Input *)

Woken(on) == [p \in Readers |-> IF on /\ rd[p].pc = "sleeping" THEN [rd[p] EXCEPT !.pc = "woken"] ELSE rd[p]]

\* ^U: back to the start of the line, one character at a time.
RECURSIVE KillLine(_, _)
KillLine(x, p) == IF x # w /\ buf[Minus(x, 1) % INPUT_BUF] # "nl"
                  THEN KillLine(Minus(x, 1), cgaputc(p, "BACKSPACE")) ELSE <<x, p>>

\* Mutant: one more than there is room for.
RoomForOne == Minus(e, r) <= INPUT_BUF
HasRoom == Minus(e, r) < INPUT_BUF

\* Mutant: a full buffer does not end the line.
LineEnds(c, x) == c \in {"nl", "D"}
Ends(c, x) == c \in {"nl", "D"} \/ x = (r + INPUT_BUF) % WORD

\* consoleintr, for one character.
consoleintr(k) ==
    LET c == IF k = "cr" THEN "nl" ELSE k
        x == (e + 1) % WORD
        u == KillLine(e, pos) IN
    /\ lock = "none"
    /\ \/ /\ k = "U" /\ e' = u[1] /\ pos' = u[2]
          /\ UNCHANGED <<buf, r, w, rd>>
       \/ /\ k = "H" /\ e # w /\ e' = Minus(e, 1) /\ pos' = cgaputc(pos, "BACKSPACE")
          /\ UNCHANGED <<buf, r, w, rd>>
       \/ /\ k \notin {"U", "H", "0"} /\ HasRoom
          /\ buf' = [buf EXCEPT ![e % INPUT_BUF] = c]
          /\ e' = x /\ pos' = cgaputc(pos, c)
          /\ w' = IF Ends(c, x) THEN x ELSE w
          /\ rd' = Woken(Ends(c, x))
          /\ UNCHANGED r
    /\ UNCHANGED lock

\* consoleread by p of n characters, from the call and from sleep.
CallRead(p, n) == /\ rd[p].pc = "idle" /\ lock = "none" /\ lock' = p
                  /\ rd' = [rd EXCEPT ![p] = [@ EXCEPT !.pc = "loop", !.n = n, !.target = n]]
                  /\ UNCHANGED <<buf, r, w, e, pos>>
Wakes(p) == /\ rd[p].pc = "woken" /\ lock = "none" /\ lock' = p
            /\ rd' = [rd EXCEPT ![p].pc = "loop"]
            /\ UNCHANGED <<buf, r, w, e, pos>>

Leave(p) == lock' = "none" /\ rd' = [rd EXCEPT ![p] = [@ EXCEPT !.pc = "idle", !.n = 0, !.target = 0]]

\* ^D after other characters is kept for the next read.
Saved(p) == rd[p].n < rd[p].target

\* One turn of the loop.
TakeChar(p) ==
    LET c == buf[r % INPUT_BUF] IN
    /\ rd[p].pc = "loop" /\ lock = p /\ rd[p].n > 0 /\ r # w
    /\ r' = IF c = "D" /\ Saved(p) THEN r ELSE (r + 1) % WORD
    /\ IF c \in {"D", "nl"} \/ rd[p].n = 1 THEN Leave(p)
       ELSE rd' = [rd EXCEPT ![p].n = @ - 1] /\ UNCHANGED lock
    /\ UNCHANGED <<buf, w, e, pos>>

\* Nothing to take: killed is looked at, then sleep gives up the lock.
Empty(p) == /\ rd[p].pc = "loop" /\ lock = p /\ r = w
            /\ IF rd[p].killed THEN Leave(p) ELSE rd' = [rd EXCEPT ![p].pc = "tosleep"] /\ UNCHANGED lock
            /\ UNCHANGED <<buf, r, w, e, pos>>
Sleep(p) == /\ rd[p].pc = "tosleep" /\ lock' = "none" /\ rd' = [rd EXCEPT ![p].pc = "sleeping"]
            /\ UNCHANGED <<buf, r, w, e, pos>>

\* kill marks, and makes a sleeper runnable; it needs no lock of the console.
kill(p) == /\ ~rd[p].killed
           /\ rd' = [rd EXCEPT ![p].killed = TRUE, ![p].pc = IF @ = "sleeping" THEN "woken" ELSE @]
           /\ UNCHANGED <<buf, r, w, e, lock, pos>>

Init == /\ buf = [i \in Ring |-> "0"] /\ r = 0 /\ w = 0 /\ e = 0
        /\ lock = "none" /\ pos = 0
        /\ rd = [p \in Readers |-> [pc |-> "idle", n |-> 0, target |-> 0, killed |-> FALSE]]

Next == \/ \E k \in Keys : consoleintr(k)
        \/ \E c \in {"x", "nl"} : consolewrite(c)
        \/ \E p \in Readers : \/ \E n \in Counts : CallRead(p, n)
                              \/ Wakes(p) \/ TakeChar(p) \/ Empty(p) \/ Sleep(p) \/ kill(p)
Spec == Init /\ [][Next]_vars

-----------------------------------------------------------------------------
(* No reader sleeps, or is about to, while there are characters to read; a   *)
(* full buffer always has some, so that it drains; the cursor stays above    *)
(* the last line, where cgaputc cannot panic (console.c:131-163, 217-224,    *)
(* 245-252).                                                                 *)
ConsoleSound ==
    /\ \A p \in Readers : rd[p].pc \in {"sleeping", "tosleep"} => r = w
    /\ Minus(e, r) <= INPUT_BUF /\ Minus(w, r) <= Minus(e, r)
    /\ Minus(e, r) = INPUT_BUF => w = e
    /\ pos \in 0..(ROWS - 1) * COLS - 1

Slice(i, j) == [k \in 1..Minus(j, i) |-> buf[(i + k - 1) % INPUT_BUF]]
Typed == INSTANCE TypedLines WITH Keys <- {"x", "nl", "D"}, Size <- INPUT_BUF,
                                  editing <- Slice(w, e), entered <- Slice(r, w)
(* The ring with its wrapping indices is the store of TypedLines: what is    *)
(* read was entered, once and in order, and editing never reaches back into  *)
(* an entered line (console.c:191-271).                                      *)
ImplementsTypedLines == Typed!Spec
=============================================================================
