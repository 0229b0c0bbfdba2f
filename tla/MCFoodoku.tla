------------------------------ MODULE MCFoodoku ------------------------------
EXTENDS Foodoku, TLC

\* Block 2 has a 5 in its first row, block 6 a 5 in its middle column.
OnePuzzle ==
  {[b \in 0 .. 8 |-> CASE b = 2 -> 1 :> 5 [] b = 6 -> 4 :> 5 [] OTHER -> Empty]}

\* A full board that fits: the pattern of a sudoku with two columns exchanged.
Line(b, c)   == 3 * (b \div 3) + c \div 3
Column(b, c) == LET j == 3 * (b % 3) + (c % 3) IN CASE j = 1 -> 2 [] j = 2 -> 1 [] OTHER -> j
Completed ==
  [P \in OnePuzzle |-> [b \in 0 .. 8 |-> [c \in 0 .. 8 |->
     (((3 * (Line(b, c) % 3)) + (Line(b, c) \div 3) + Column(b, c) + 6) % 9) + 1]]]

\* A five for block 0 in the row of the one, one for block 0 in the column of
\* the other, and one for block 1 that meets neither; and a one for block 1, which
\* the puzzle allows but its solution does not.
InTheRow    == <<0, 2, 5>>
InTheColumn == <<0, 4, 5>>
Free        == <<1, 4, 5>>
Mistaken    == <<1, 4, 1>>
FiveMoves   == {InTheRow, InTheColumn, Free}

HastyUser == {[program |-> "own", commands |-> 2, moves |-> FiveMoves, hurries |-> {"p"}]}

\* A user who waits, one who types the next digit at once, one who leaves
\* while a digit is being put, and one who then starts a new game;
\* and one who plays the solution's game, and waits.
FiveUsers ==
  HastyUser \cup {[program |-> "own", commands |-> 2, moves |-> FiveMoves, hurries |-> {}],
                  [program |-> "own", commands |-> 1, moves |-> {InTheRow, Free}, hurries |-> {"q"}],
                  [program |-> "own", commands |-> 2, moves |-> {InTheRow, Free}, hurries |-> {"n"}],
                  [program |-> "sol", commands |-> 2, moves |-> {InTheRow, InTheColumn, Mistaken}, hurries |-> {}]}
=============================================================================
