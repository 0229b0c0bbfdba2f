------------------------------- MODULE Foodoku -------------------------------
(***************************************************************************)
(* The game of LA4: a coordinator that reads the user's commands           *)
(* (coordinator.c) and nine block processes (block.c), each with one pipe. *)
(* A block that is to put a digit asks its two neighbours in the row, then *)
(* the two in the column; it reads their answers from the pipe on which it *)
(* also gets commands and questions.  The program in sol_LA4 plays the     *)
(* same game, but asks its neighbours one after the other.                 *)
(*                                                                         *)
(* Every write is one message, for it is flushed at once and short; every  *)
(* read of a block is one step.  scanf("%d") on a message that begins with *)
(* a letter takes nothing and leaves its variable as it was.  Left out:    *)
(* the windows, the help, the rejection of invalid input, failing calls.   *)
(***************************************************************************)
EXTENDS Integers, Sequences, FiniteSets, Functions

CONSTANTS
  Puzzles,      \* what newboard may make: for each block, the cells with a digit
  SolutionOf,   \* the completed board of each puzzle
  Users         \* which program is played, and bounds: how many commands a user gives,
                \* what it may put where, and which commands it gives without waiting
                \* until every block is quiet

DIM == 3
N   == 9
Blocks == 0 .. N - 1
Cells  == 0 .. N - 1
Values == 1 .. N
IsGrid(g)  == DOMAIN g \subseteq Cells /\ \A c \in DOMAIN g : g[c] \in Values
IsBoard(g) == DOMAIN g = Blocks /\ \A b \in Blocks : IsGrid(g[b])

Row(c) == c \div DIM
Col(c) == c % DIM

get_row_adj(b) == <<((b + 1) % DIM) + DIM * Row(b), ((b + 2) % DIM) + DIM * Row(b)>>
get_col_adj(b) == <<(b + DIM) % N, (b + 2 * DIM) % N>>

\* The cells that hold a digit, and two of them that hold one digit in one
\* block, row or column.
Filled(board) == UNION {{b} \X DOMAIN board[b] : b \in Blocks}
Conflict(board, x, y) ==
  /\ x # y /\ board[x[1]][x[2]] = board[y[1]][y[2]]
  /\ \/ x[1] = y[1]
     \/ Row(x[1]) = Row(y[1]) /\ Row(x[2]) = Row(y[2])
     \/ Col(x[1]) = Col(y[1]) /\ Col(x[2]) = Col(y[2])
NoConflict(board) == \A x, y \in Filled(board) : ~Conflict(board, x, y)

ASSUME PuzzleAssumption ==
  \A P \in Puzzles : /\ IsBoard(P) /\ IsBoard(SolutionOf[P]) /\ NoConflict(SolutionOf[P])
                    /\ \A x \in Filled(P) : /\ x \in Filled(SolutionOf[P])
                                             /\ SolutionOf[P][x[1]][x[2]] = P[x[1]][x[2]]
ASSUME UserAssumption ==
  Users \subseteq [program : {"own", "sol"}, commands : Nat, hurries : SUBSET {"n", "p", "s", "q"},
                  moves : SUBSET (Blocks \X Cells \X Values)]

Answers   == {"0", "1"}

\* A message is a question [op |-> "r" or "c", line, value, from], a put
\* [op |-> "p", cell, value], or just an op: "n", "s", "q" or an answer.

VARIABLES
  user,              \* who plays, and with which program
  grid,              \* the coordinator's puzzle
  sending,           \* the command the coordinator is sending to all, and to whom next
  left,              \* how many commands the user may still give, besides q
  pipe,              \* what is in each block's pipe
  initial, current,  \* the boards of the blocks
  pc, put, response  \* where a block is, the digit it is to put, its variable

coordinator == <<grid, sending, left>>
boards      == <<initial, current>>
vars        == <<user, coordinator, pipe, boards, pc, put, response>>

Prompt == [op |-> "prompt", next |-> 0]
Empty  == [c \in {} |-> 0]
NoPut  == [cell |-> 0, value |-> 1]

Init ==
  /\ user \in Users
  /\ grid \in Puzzles
  /\ sending = [op |-> "n", next |-> 0] /\ left = user.commands
  /\ pipe = [b \in Blocks |-> <<>>]
  /\ initial = [b \in Blocks |-> Empty] /\ current = [b \in Blocks |-> Empty]
  /\ pc = [b \in Blocks |-> "loop"]
  /\ put = [b \in Blocks |-> NoPut]
  /\ response = [b \in Blocks |-> "0"]

-----------------------------------------------------------------------------
(* The coordinator and its user, who begins with a new game.               *)

Drawn == \A b \in Blocks : \A i \in DOMAIN pipe[b] : pipe[b][i].op \notin {"n", "s"}
Quiet == \A b \in Blocks : pipe[b] = <<>> /\ pc[b] = "loop"

\* The user looks at the boards before every command.
Ready(op) == sending = Prompt /\ Drawn /\ (op \in user.hurries \/ Quiet)

Command(op) ==
  /\ Ready(op)
  /\ left > 0 /\ left' = left - 1

NewGame ==
  /\ Command("n")
  /\ grid' \in Puzzles
  /\ sending' = [op |-> "n", next |-> 0]
  /\ UNCHANGED <<user, pipe, boards, pc, put, response>>

Solution ==
  /\ Command("s")
  /\ sending' = [op |-> "s", next |-> 0]
  /\ UNCHANGED <<user, grid, pipe, boards, pc, put, response>>

Put(b, c, v) ==
  /\ Command("p")
  /\ pipe' = [pipe EXCEPT ![b] = Append(@, [op |-> "p", cell |-> c, value |-> v])]
  /\ UNCHANGED <<user, grid, sending, boards, pc, put, response>>

Quit ==
  /\ Ready("q")
  /\ sending' = [op |-> "q", next |-> 0]
  /\ UNCHANGED <<user, grid, left, pipe, boards, pc, put, response>>

\* One turn of a loop over the blocks; the coordinator waits for them after q.
Send ==
  /\ sending.op \in {"n", "s", "q"} /\ sending.next \in Blocks
  /\ pipe' = [pipe EXCEPT ![sending.next] = Append(@, [op |-> sending.op])]
  /\ sending' = IF sending.next < N - 1 \/ sending.op = "q"
                THEN [sending EXCEPT !.next = @ + 1] ELSE Prompt
  /\ UNCHANGED <<user, grid, left, boards, pc, put, response>>

-----------------------------------------------------------------------------
(* A block.                                                                *)

Receive(b, op) ==
  /\ pc[b] = "loop" /\ pipe[b] # <<>> /\ Head(pipe[b]).op = op

Goto(b, label) == pc' = [pc EXCEPT ![b] = label]

TakeBoard(b) ==
  /\ Receive(b, "n")
  /\ pipe' = [pipe EXCEPT ![b] = Tail(@)]
  /\ initial' = [initial EXCEPT ![b] = grid[b]]
  /\ current' = [current EXCEPT ![b] = grid[b]]
  /\ UNCHANGED <<user, coordinator, pc, put, response>>

\* The solution is shown, but only the puzzle is kept.
ShowSolution(b) ==
  /\ user.program = "own" /\ Receive(b, "s")
  /\ pipe' = [pipe EXCEPT ![b] = Tail(@)]
  /\ initial' = [initial EXCEPT ![b] = grid[b]]
  /\ UNCHANGED <<user, coordinator, current, pc, put, response>>

\* Mutant: the block's own cells are not looked at.
Refused_GivenOnly(b, c, v) == c \in DOMAIN initial[b]

\* A read-only cell, or a conflict in the block.
Refused(b, c, v) == c \in DOMAIN initial[b] \/ v \in Range(current[b])

TakePut(b) ==
  /\ user.program = "own" /\ Receive(b, "p")
  /\ LET p == Head(pipe[b])
     IN  /\ put' = [put EXCEPT ![b] = [cell |-> p.cell, value |-> p.value]]
         /\ Goto(b, IF Refused(b, p.cell, p.value) THEN "message" ELSE "row1")
  \* response is declared here and not initialised
  /\ \E any \in Answers : response' = [response EXCEPT ![b] = any]
  /\ pipe' = [pipe EXCEPT ![b] = Tail(@)]
  /\ UNCHANGED <<user, coordinator, boards>>

\* Back to the loop, where the variables of the last command are out of scope.
Return(b) ==
  /\ Goto(b, "loop")
  /\ put' = [put EXCEPT ![b] = NoPut] /\ response' = [response EXCEPT ![b] = "0"]

\* A message stays on the window for two seconds.
Message(b) ==
  /\ pc[b] = "message"
  /\ Return(b)
  /\ UNCHANGED <<user, coordinator, pipe, boards>>

\* Mutant: a row is asked about the digit's column.
Question_WrongLine(b, op) ==
  [op |-> op, line |-> Col(put[b].cell), value |-> put[b].value, from |-> b]

Question(b, op) ==
  [op |-> op, line |-> IF op = "r" THEN Row(put[b].cell) ELSE Col(put[b].cell),
   value |-> put[b].value, from |-> b]

Ask(b, label, to, op, then) ==
  /\ pc[b] = label
  /\ pipe' = [pipe EXCEPT ![to] = Append(@, Question(b, op))]
  /\ Goto(b, then)
  /\ UNCHANGED <<user, coordinator, boards, put, response>>

AskRow(b) == \/ Ask(b, "row1", get_row_adj(b)[1], "r", "row2")
             \/ Ask(b, "row2", get_row_adj(b)[2], "r", "row_answer1")
AskCol(b) == \/ Ask(b, "col1", get_col_adj(b)[1], "c", "col2")
             \/ Ask(b, "col2", get_col_adj(b)[2], "c", "col_answer1")

\* What scanf("%d", &response) leaves in response, and in the pipe.
Read(b)   == IF Head(pipe[b]).op \in Answers THEN Head(pipe[b]).op ELSE response[b]
Unread(b) == IF Head(pipe[b]).op \in Answers THEN Tail(pipe[b]) ELSE pipe[b]

AnswerAt(b, label) ==
  /\ pc[b] = label /\ pipe[b] # <<>>
  /\ pipe' = [pipe EXCEPT ![b] = Unread(b)]

Answer(b, label, then) ==
  /\ AnswerAt(b, label)
  /\ response' = [response EXCEPT ![b] = Read(b)]
  /\ Goto(b, IF Read(b) = "0" THEN then ELSE "message")
  /\ UNCHANGED <<user, coordinator, boards, put>>

WithDigit(board, p) ==
  [c \in DOMAIN board \cup {p.cell} |-> IF c = p.cell THEN p.value ELSE board[c]]

LastAnswer(b) ==
  /\ AnswerAt(b, "col_answer2") /\ Read(b) = "0"
  /\ current' = [current EXCEPT ![b] = WithDigit(@, put[b])]
  /\ Return(b)
  /\ UNCHANGED <<user, coordinator, initial>>

LastConflict(b) ==
  /\ AnswerAt(b, "col_answer2") /\ Read(b) # "0"
  /\ response' = [response EXCEPT ![b] = Read(b)]
  /\ Goto(b, "message")
  /\ UNCHANGED <<user, coordinator, boards, put>>

TakeAnswers(b) ==
  \/ Answer(b, "row_answer1", "row_answer2") \/ Answer(b, "row_answer2", "col1")
  \/ Answer(b, "col_answer1", "col_answer2")
  \/ LastAnswer(b) \/ LastConflict(b)

\* Does the line that is asked about hold the digit?
has_conflict(b, q) ==
  \E i \in DOMAIN current[b] : /\ current[b][i] = q.value
                              /\ IF q.op = "r" THEN Row(i) = q.line ELSE Col(i) = q.line

\* Mutant: only a conflict is answered.
Reply_OnlyConflict(b) ==
  /\ Receive(b, "r") \/ Receive(b, "c")
  /\ LET q    == Head(pipe[b])
         rest == [pipe EXCEPT ![b] = Tail(@)]
     IN  pipe' = IF has_conflict(b, q) THEN [rest EXCEPT ![q.from] = Append(@, [op |-> "1"])]
                 ELSE rest
  /\ UNCHANGED <<user, coordinator, boards, pc, put, response>>

Reply(b) ==
  /\ Receive(b, "r") \/ Receive(b, "c")
  /\ LET q      == Head(pipe[b])
         rest   == [pipe EXCEPT ![b] = Tail(@)]
         answer == [op |-> IF has_conflict(b, q) THEN "1" ELSE "0"]
     IN  pipe' = [rest EXCEPT ![q.from] = Append(@, answer)]
  /\ UNCHANGED <<user, coordinator, boards, pc, put, response>>

\* An answer nobody waits for is no instruction.
Ignore(b) ==
  /\ Receive(b, "0") \/ Receive(b, "1")
  /\ pipe' = [pipe EXCEPT ![b] = Tail(@)]
  /\ UNCHANGED <<user, coordinator, boards, pc, put, response>>

Leave(b) ==
  /\ Receive(b, "q")
  /\ pipe' = [pipe EXCEPT ![b] = Tail(@)]
  /\ Goto(b, "gone")
  /\ UNCHANGED <<user, coordinator, boards, put, response>>

-----------------------------------------------------------------------------
(* What a block of sol_LA4 does otherwise.                                 *)

\* The solution comes as a new board, and is kept.
readblock(b) ==
  /\ user.program = "sol" /\ Receive(b, "s")
  /\ pipe' = [pipe EXCEPT ![b] = Tail(@)]
  /\ initial' = [initial EXCEPT ![b] = SolutionOf[grid][b]]
  /\ current' = [current EXCEPT ![b] = SolutionOf[grid][b]]
  /\ UNCHANGED <<user, coordinator, pc, put, response>>

\* The other two of three rows or columns.
Others(i) == CASE i = 0 -> <<1, 2>> [] i = 1 -> <<0, 2>> [] i = 2 -> <<0, 1>>

\* The pipes r1fd, r2fd, c1fd and c2fd.
genblocks(b) ==
  LET row(k) == DIM * Row(b) + Others(Col(b))[k]
      col(k) == DIM * Others(Row(b))[k] + Col(b)
  IN  <<row(1), row(2), col(1), col(2)>>

Asks  == <<"ask1", "ask2", "ask3", "ask4">>
Reads == <<"read1", "read2", "read3", "read4">>

\* tryset up to its first question.
tryset(b) ==
  /\ user.program = "sol" /\ Receive(b, "p")
  /\ LET p == Head(pipe[b])
         error == \/ p.cell \in DOMAIN initial[b]
                  \/ \E c \in DOMAIN current[b] \ {p.cell} : current[b][c] = p.value
     IN  /\ put' = [put EXCEPT ![b] = [cell |-> p.cell, value |-> p.value]]
         /\ Goto(b, IF error THEN "message" ELSE "ask1")
  /\ pipe' = [pipe EXCEPT ![b] = Tail(@)]
  /\ UNCHANGED <<user, coordinator, boards, response>>

AskOne(b) == \E k \in 1 .. 4 :
  Ask(b, Asks[k], genblocks(b)[k], IF k <= 2 THEN "r" ELSE "c", Reads[k])

ReadOne(b) == \E k \in 1 .. 3 : Answer(b, Reads[k], Asks[k + 1])

\* After the last answer what is left of the line is skipped (sol_LA4/block.c l. 163):
\* the whole next message, when scanf took nothing.
PlaceDigit(b) ==
  /\ pc[b] = "read4" /\ pipe[b] # <<>> /\ Read(b) = "0"
  /\ pipe' = [pipe EXCEPT ![b] = Tail(@)]
  /\ current' = [current EXCEPT ![b] = WithDigit(@, put[b])]
  /\ Return(b)
  /\ UNCHANGED <<user, coordinator, initial>>

ColumnConflict(b) ==
  /\ AnswerAt(b, "read4") /\ Read(b) # "0"
  /\ response' = [response EXCEPT ![b] = Read(b)]
  /\ Goto(b, "message")
  /\ UNCHANGED <<user, coordinator, boards, put>>

SolStep(b) ==
  readblock(b) \/ tryset(b) \/ AskOne(b) \/ ReadOne(b) \/ PlaceDigit(b) \/ ColumnConflict(b)

-----------------------------------------------------------------------------

BlockStep(b) ==
  \/ SolStep(b)
  \/ TakeBoard(b) \/ ShowSolution(b) \/ TakePut(b) \/ Message(b)
  \/ AskRow(b) \/ AskCol(b) \/ TakeAnswers(b) \/ Reply(b) \/ Ignore(b) \/ Leave(b)

GameOver ==
  /\ sending = [op |-> "q", next |-> N] /\ \A b \in Blocks : pc[b] = "gone"
  /\ UNCHANGED vars

Next ==
  \/ NewGame \/ Solution \/ Quit \/ Send \/ GameOver
  \/ \E move \in user.moves : Put(move[1], move[2], move[3])
  \/ \E b \in Blocks : BlockStep(b)

Spec == Init /\ [][Next]_vars

-----------------------------------------------------------------------------
(* Properties.                                                             *)

\* When the user waits until all is quiet before each command, no row, column
\* or block ever holds a digit twice once the boards are drawn, although no
\* process sees more than its own block (block.c l. 165-262).
PatientPlayIsConsistent ==
  user.hurries = {} /\ Drawn /\ sending.op \notin {"n", "s"} => NoConflict(current)

\* However hasty the user is, a block never holds a digit twice, and the digits
\* of the puzzle stay where they are (block.c l. 180-188, 235).
BlocksIntact ==
  \A b \in Blocks :
    /\ IsInjective(current[b])
    /\ \A c \in DOMAIN initial[b] : c \in DOMAIN current[b] /\ current[b][c] = initial[b][c]

\* What block b expects, and the answers and questions that are under way.
Expected(b) == CASE pc[b] \in {"row_answer1", "col_answer1"} -> 2
                 [] pc[b] \in {"row_answer2", "col_answer2"} \cup Range(Reads) -> 1
                 [] OTHER -> 0
Under(b) == UNION {{<<to, i>> : i \in {j \in DOMAIN pipe[to] :
              \/ to = b /\ pipe[to][j].op \in Answers
              \/ pipe[to][j].op \in {"r", "c"} /\ pipe[to][j].from = b}} : to \in Blocks}

\* However many questions and answers cross, and although a block may take a
\* question for an answer, nobody waits in vain: a block that waits has as many
\* answers coming as it waits for, or the game is being ended (block.c l. 192-234).
NobodyWaitsInVain ==
  sending.op # "q" /\ (user.program = "own" \/ user.hurries = {}) =>
    \A b \in Blocks : Cardinality(Under(b)) >= Expected(b)

\* LA4.pdf p. 1-2: digits are filled in "such that no block or no row or no
\* column contains repetitions", and a digit is placed "if there is no error so
\* far", whenever the commands are given.
PlayIsConsistent == Drawn /\ sending.op \notin {"n", "s"} => NoConflict(current)

=============================================================================
