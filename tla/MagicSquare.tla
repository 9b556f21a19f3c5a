---------------------------- MODULE MagicSquare ----------------------------
(* my_magic_square.c: the size is read, the rows are allocated one by one,   *)
(* the Siamese method fills them, and the square is written out.             *)
EXTENDS Integers, FiniteSets, FiniteSetsExt

CONSTANT Inputs        \* sizes that the user types

VARIABLES pc, n, square, row, col, num,
          rows         \* rows on the heap

vars == <<pc, n, square, row, col, num, rows>>

\* getSize: an odd number that is at least 3.
getSize == /\ pc = "getSize"
           /\ pc' = IF n < 3 \/ n % 2 = 0 THEN "exit" ELSE "alloc"
           /\ UNCHANGED <<n, square, row, col, num, rows>>

\* A row of zeros; when malloc fails the earlier ones are freed.
AllocRow == /\ pc = "alloc"
            /\ \/ /\ rows' = rows + 1
                  /\ pc' = IF rows' = n THEN "fill" ELSE pc
                  /\ square' = IF rows' = n THEN [i \in 0..n - 1 |-> [j \in 0..n - 1 |-> 0]] ELSE square
               \/ rows' = 0 /\ pc' = "exit" /\ UNCHANGED square
            /\ row' = 0 /\ col' = n \div 2 /\ num' = 1 /\ UNCHANGED n

\* Mutant: the column does not wrap to the left edge but stays at the right.
Clamped(c) == IF c + 1 = n THEN c ELSE c + 1
NextCol(c) == (c + 1) % n

\* One number, and the place of the next: up and right, or down if that is taken.
generateMagicSquare ==
    LET up == (row - 1 + n) % n
        right == NextCol(col)
        sq == [square EXCEPT ![row][col] = num] IN
    /\ pc = "fill" /\ square' = sq
    /\ IF sq[up][right] # 0 THEN row' = (row + 1) % n /\ col' = col ELSE row' = up /\ col' = right
    /\ num' = num + 1
    /\ pc' = IF num' > n * n THEN "output" ELSE "fill"
    /\ UNCHANGED <<n, rows>>

\* fileOutputMagicSquare, which may fail to open the file, and free.
main == /\ pc = "output" /\ pc' = "exit"
        /\ \/ rows' = 0
           \/ UNCHANGED rows      \* exit(1) in fileOutputMagicSquare
        /\ UNCHANGED <<n, square, row, col, num>>

Init == /\ pc = "getSize" /\ n \in Inputs /\ square = <<>> /\ row = 0 /\ col = 0 /\ num = 1 /\ rows = 0
Next == getSize \/ AllocRow \/ generateMagicSquare \/ main
Spec == Init /\ [][Next]_vars

-----------------------------------------------------------------------------
Index == 0..n - 1
SumOver(f(_)) == MapThenSumSet(f, Index)
Sums == {SumOver(LAMBDA j : square[i][j]) : i \in Index} \cup {SumOver(LAMBDA i : square[i][j]) : j \in Index}
        \cup {SumOver(LAMBDA i : square[i][i]), SumOver(LAMBDA i : square[i][n - 1 - i])}

(* No number overwrites another, and the square that is written out is magic:*)
(* 1 to n*n once each, and equal sums over rows, columns and both diagonals  *)
(* (my_magic_square.c:111-134).                                              *)
SquareMagic ==
    /\ pc = "fill" => square[row][col] = 0
    /\ pc = "output" => /\ {square[i][j] : i, j \in Index} = 1..n * n
                        /\ Cardinality(Sums) = 1
=============================================================================
