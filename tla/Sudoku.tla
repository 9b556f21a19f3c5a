------------------------------- MODULE Sudoku -------------------------------
(* check_sudoku_board.c: the size and the rows of a board are read from a    *)
(* file, and rows and columns are searched for a digit that comes twice.     *)
EXTENDS Integers, Sequences

CONSTANTS Sizes,       \* first lines of a file
          Rows         \* rows in a file; entry j of a row is its j-th number

VARIABLES pc, size, board, i, answer

vars == <<pc, size, board, i, answer>>

\* One scan of valid_sudoku_board, over the cells at(1), ..., at(size): seen is
\* the set of digits met; the result is whether none of them comes twice.
\* Mutant: blanks count as digits.
CountBlanks(v) == TRUE
Filled(v) == v # 0
Scan(at) ==
    LET seen[j \in 0..size] == IF j = 0 THEN {} ELSE seen[j - 1] \cup {at[j]}
    IN  \A j \in 1..size : Filled(at[j]) => at[j] \notin seen[j - 1]

valid_sudoku_board ==
    /\ \A a \in 1..size : Scan(board[a])
    /\ \A b \in 1..size : Scan([a \in 1..size |-> board[a][b]])

\* main: a size outside 1..9 is answered at once.
get_board_size == /\ pc = "size"
                  /\ IF size < 1 \/ size > 9 THEN pc' = "done" /\ answer' = "invalid"
                     ELSE pc' = "read" /\ UNCHANGED answer
                  /\ UNCHANGED <<size, board, i>>

\* The next line, atoi of no token if it is too short, or the end: of the file
\* before the board is complete, or of memory for the board.
ReadRow == /\ pc = "read" /\ i <= size
           /\ \/ \E l \in Rows : /\ Len(l) >= size
                                 /\ board' = Append(board, l) /\ i' = i + 1 /\ UNCHANGED <<pc, answer>>
              \/ /\ \E l \in Rows : Len(l) < size
                 /\ pc' = "done" /\ answer' = "crash" /\ UNCHANGED <<board, i>>
              \/ pc' = "done" /\ answer' = "error" /\ UNCHANGED <<board, i>>
           /\ UNCHANGED size

Check == /\ pc = "read" /\ i > size /\ pc' = "done"
         /\ answer' = IF valid_sudoku_board THEN "valid" ELSE "invalid"
         /\ UNCHANGED <<size, board, i>>

Init == pc = "size" /\ size \in Sizes /\ board = <<>> /\ i = 1 /\ answer = "none"
Next == get_board_size \/ ReadRow \/ Check
Spec == Init /\ [][Next]_vars

-----------------------------------------------------------------------------
Judged == pc = "done" /\ size \in 1..9 /\ i > size
Cells == {board[a][b] : a, b \in 1..size}
NoneTwice == \A a, b, c \in 1..size : b # c =>
                 /\ board[a][b] # board[a][c] \/ board[a][b] = 0
                 /\ board[b][a] # board[c][a] \/ board[b][a] = 0

(* A board that was read to its end is called invalid if some number other   *)
(* than 0, the blank, comes twice in a row or in a column, and valid if none *)
(* does and all numbers are blanks or digits up to size                      *)
(* (check_sudoku_board.c:35-64).  Of other boards nothing is said: the code  *)
(* compares no number with size, and one with a number above size that does  *)
(* not come twice is called valid, against check_sudoku_board.c:27, "A valid *)
(* row or column contains only blanks or the digits 1-size".                 *)
BoardsJudged == Judged =>
    /\ answer = "valid" => NoneTwice
    /\ NoneTwice /\ Cells \subseteq 0..size => answer = "valid"
=============================================================================
