--------------------------- MODULE Foodoku_proofs ---------------------------
(***************************************************************************)
(* LA4's boards stay what they should be, for any puzzles, any users and   *)
(* both programs.                                                          *)
(***************************************************************************)
EXTENDS Foodoku, SequenceTheorems, FiniteSetTheorems, TLAPS

\* The messages that pass through the pipes.
Questions == [op : {"r", "c"}, line : 0 .. 2, value : Values, from : Blocks]
Messages  == [op : {"n", "s", "q", "0", "1"}] \cup [op : {"p"}, cell : Cells, value : Values] \cup Questions

\* Where a block is while it asks its neighbours, and elsewhere.
Asking == {"row1", "row2", "row_answer1", "row_answer2", "col1", "col2", "col_answer1", "col_answer2",
           "ask1", "ask2", "ask3", "ask4", "read1", "read2", "read3", "read4"}
Labels == Asking \cup {"loop", "message", "gone"}

\* What values the variables take.
Types ==
  /\ user \in Users /\ grid \in Puzzles /\ left \in Nat
  /\ sending \in [op : {"prompt", "n", "s", "q"}, next : 0 .. N]
  /\ pipe \in [Blocks -> Seq(Messages)]
  /\ DOMAIN initial = Blocks /\ DOMAIN current = Blocks
  /\ \A b \in Blocks : IsGrid(initial[b]) /\ IsGrid(current[b])
  /\ pc \in [Blocks -> Labels]
  /\ put \in [Blocks -> [cell : Cells, value : Values]]
  /\ response \in [Blocks -> Answers]

-----------------------------------------------------------------------------
(* Messages, pipes and blocks.                                               *)

\* The kinds of messages have fields of their own.
LEMMA MessageKinds ==
  ASSUME NEW q \in Messages
  PROVE  /\ q.op \in {"n", "s", "q", "0", "1", "p", "r", "c"}
         /\ q.op = "p" => q.cell \in Cells /\ q.value \in Values
         /\ q.op \in {"r", "c"} => q \in Questions
<1>1. CASE q \in [op : {"n", "s", "q", "0", "1"}]
  BY <1>1
<1>2. CASE q \in [op : {"p"}, cell : Cells, value : Values]
  BY <1>2
<1>3. CASE q \in Questions
  BY <1>3 DEF Questions
<1>4. QED
  BY <1>1, <1>2, <1>3 DEF Messages

\* A question is from a block.
LEMMA QuestionFields ==
  ASSUME NEW q \in Questions
  PROVE  q.op \in {"r", "c"} /\ q.line \in 0 .. 2 /\ q.value \in Values /\ q.from \in Blocks
BY DEF Questions

\* What is left of a pipe when its first message is taken.
LEMMA Taking ==
  ASSUME NEW p \in Seq(Messages), p # <<>>
  PROVE  /\ Len(p) \in Nat /\ Len(p) >= 1
         /\ Head(p) = p[1] /\ Head(p) \in Messages
         /\ Tail(p) \in Seq(Messages) /\ Len(Tail(p)) = Len(p) - 1
         /\ \A i \in 1 .. Len(p) - 1 : Tail(p)[i] = p[i + 1]
<1>1. Head(p) \in Messages /\ Tail(p) \in Seq(Messages)
  BY HeadTailProperties
<1>2. Len(Tail(p)) = Len(p) - 1 /\ \A i \in 1 .. Len(Tail(p)) : Tail(p)[i] = p[i + 1]
  BY HeadTailProperties
<1>3. Len(p) \in Nat /\ Len(p) # 0
  BY EmptySeq, LenProperties
<1>4. QED
  BY <1>1, <1>2, <1>3

\* What a pipe holds when a message is written to it.
LEMMA Writing ==
  ASSUME NEW p \in Seq(Messages), NEW q \in Messages
  PROVE  /\ Append(p, q) \in Seq(Messages) /\ Len(Append(p, q)) = Len(p) + 1
         /\ \A i \in 1 .. Len(p) : Append(p, q)[i] = p[i]
         /\ Append(p, q)[Len(p) + 1] = q
         /\ Append(p, q) # <<>>
         /\ Len(p) \in Nat
BY AppendProperties

\* The neighbours of a block are the others of its row and of its column.
LEMMA Neighbours ==
  ASSUME NEW b \in Blocks
  PROVE  /\ get_row_adj(b)[1] \in Blocks /\ get_row_adj(b)[2] \in Blocks
         /\ get_col_adj(b)[1] \in Blocks /\ get_col_adj(b)[2] \in Blocks
         /\ \A k \in 1 .. 4 : genblocks(b)[k] \in Blocks
         /\ {b, get_row_adj(b)[1], get_row_adj(b)[2]} = {x \in Blocks : Row(x) = Row(b)}
         /\ {b, get_col_adj(b)[1], get_col_adj(b)[2]} = {x \in Blocks : Col(x) = Col(b)}
         /\ {b, genblocks(b)[1], genblocks(b)[2]} = {x \in Blocks : Row(x) = Row(b)}
         /\ {b, genblocks(b)[3], genblocks(b)[4]} = {x \in Blocks : Col(x) = Col(b)}
<1>1. Blocks = 0 .. 8
  BY DEF Blocks, N
<1>2. \A x \in Blocks : /\ Row(x) = IF x \in {0, 1, 2} THEN 0 ELSE IF x \in {3, 4, 5} THEN 1 ELSE 2
                        /\ Col(x) = IF x \in {0, 3, 6} THEN 0 ELSE IF x \in {1, 4, 7} THEN 1 ELSE 2
  BY <1>1 DEF Row, Col, DIM
<1>3. /\ get_row_adj(b)[1] = ((b + 1) % 3) + 3 * Row(b)
      /\ get_row_adj(b)[2] = ((b + 2) % 3) + 3 * Row(b)
      /\ get_col_adj(b)[1] = (b + 3) % 9
      /\ get_col_adj(b)[2] = (b + 6) % 9
  BY DEF get_row_adj, get_col_adj, DIM, N
<1>4. /\ genblocks(b)[1] = 3 * Row(b) + Others(Col(b))[1]
      /\ genblocks(b)[2] = 3 * Row(b) + Others(Col(b))[2]
      /\ genblocks(b)[3] = 3 * Others(Row(b))[1] + Col(b)
      /\ genblocks(b)[4] = 3 * Others(Row(b))[2] + Col(b)
  BY DEF genblocks, DIM
<1>5. Others(0) = <<1, 2>> /\ Others(1) = <<0, 2>> /\ Others(2) = <<0, 1>>
  BY DEF Others
<1>6. b = 0 \/ b = 1 \/ b = 2 \/ b = 3 \/ b = 4 \/ b = 5 \/ b = 6 \/ b = 7 \/ b = 8
  BY <1>1
<1>7. ASSUME NEW r1, NEW r2, NEW c1, NEW c2, NEW g1, NEW g2, NEW g3, NEW g4,
             r1 = get_row_adj(b)[1], r2 = get_row_adj(b)[2], c1 = get_col_adj(b)[1], c2 = get_col_adj(b)[2],
             g1 = genblocks(b)[1], g2 = genblocks(b)[2], g3 = genblocks(b)[3], g4 = genblocks(b)[4]
      PROVE  /\ r1 \in Blocks /\ r2 \in Blocks /\ c1 \in Blocks /\ c2 \in Blocks
             /\ g1 \in Blocks /\ g2 \in Blocks /\ g3 \in Blocks /\ g4 \in Blocks
             /\ \A x \in Blocks : Row(x) = Row(b) <=> x = b \/ x = r1 \/ x = r2
             /\ \A x \in Blocks : Col(x) = Col(b) <=> x = b \/ x = c1 \/ x = c2
             /\ \A x \in Blocks : Row(x) = Row(b) <=> x = b \/ x = g1 \/ x = g2
             /\ \A x \in Blocks : Col(x) = Col(b) <=> x = b \/ x = g3 \/ x = g4
  BY <1>1, <1>2, <1>3, <1>4, <1>5, <1>6, <1>7
<1>8. QED
  BY <1>7

\* A block is not its own neighbour.
LEMMA NeighboursDiffer ==
  ASSUME NEW b \in Blocks
  PROVE  /\ get_row_adj(b)[1] # b /\ get_row_adj(b)[2] # b /\ get_col_adj(b)[1] # b /\ get_col_adj(b)[2] # b
         /\ \A k \in 1 .. 4 : genblocks(b)[k] # b
<1>1. Blocks = 0 .. 8
  BY DEF Blocks, N
<1>2. \A x \in Blocks : /\ Row(x) = IF x \in {0, 1, 2} THEN 0 ELSE IF x \in {3, 4, 5} THEN 1 ELSE 2
                        /\ Col(x) = IF x \in {0, 3, 6} THEN 0 ELSE IF x \in {1, 4, 7} THEN 1 ELSE 2
  BY <1>1 DEF Row, Col, DIM
<1>3. /\ get_row_adj(b)[1] = ((b + 1) % 3) + 3 * Row(b)
      /\ get_row_adj(b)[2] = ((b + 2) % 3) + 3 * Row(b)
      /\ get_col_adj(b)[1] = (b + 3) % 9
      /\ get_col_adj(b)[2] = (b + 6) % 9
  BY DEF get_row_adj, get_col_adj, DIM, N
<1>4. /\ genblocks(b)[1] = 3 * Row(b) + Others(Col(b))[1]
      /\ genblocks(b)[2] = 3 * Row(b) + Others(Col(b))[2]
      /\ genblocks(b)[3] = 3 * Others(Row(b))[1] + Col(b)
      /\ genblocks(b)[4] = 3 * Others(Row(b))[2] + Col(b)
  BY DEF genblocks, DIM
<1>5. Others(0) = <<1, 2>> /\ Others(1) = <<0, 2>> /\ Others(2) = <<0, 1>>
  BY DEF Others
<1>6. b = 0 \/ b = 1 \/ b = 2 \/ b = 3 \/ b = 4 \/ b = 5 \/ b = 6 \/ b = 7 \/ b = 8
  BY <1>1
<1>7. ASSUME NEW r1, NEW r2, NEW c1, NEW c2, NEW g1, NEW g2, NEW g3, NEW g4,
             r1 = get_row_adj(b)[1], r2 = get_row_adj(b)[2], c1 = get_col_adj(b)[1], c2 = get_col_adj(b)[2],
             g1 = genblocks(b)[1], g2 = genblocks(b)[2], g3 = genblocks(b)[3], g4 = genblocks(b)[4]
      PROVE  r1 # b /\ r2 # b /\ c1 # b /\ c2 # b /\ g1 # b /\ g2 # b /\ g3 # b /\ g4 # b
  <2>1. r1 # b /\ r2 # b /\ c1 # b /\ c2 # b
    <3>1. r1 = ((b + 1) % 3) + 3 * Row(b) /\ r2 = ((b + 2) % 3) + 3 * Row(b)
      BY <1>3, <1>7
    <3>2. r1 # b
      <4>1. 3 * Row(b) = 3 * (b \div 3) /\ (b + 1) % 3 # b % 3
        BY <1>1 DEF Row, DIM
      <4>2. b = 3 * (b \div 3) + (b % 3)
        BY <1>1
      <4>3. QED
        BY <3>1, <4>1, <4>2
    <3>3. r2 # b
      <4>1. 3 * Row(b) = 3 * (b \div 3) /\ (b + 2) % 3 # b % 3
        BY <1>1 DEF Row, DIM
      <4>2. b = 3 * (b \div 3) + (b % 3)
        BY <1>1
      <4>3. QED
        BY <3>1, <4>1, <4>2
    <3>4. c1 # b /\ c2 # b
      BY <1>3, <1>6, <1>7
    <3>5. QED
      BY <3>2, <3>3, <3>4
  <2>2. g1 # b /\ g2 # b
    BY <1>1, <1>2, <1>4, <1>5, <1>6, <1>7
  <2>3. g3 # b /\ g4 # b
    BY <1>1, <1>2, <1>4, <1>5, <1>6, <1>7
  <2>4. QED
    BY <2>1, <2>2, <2>3
<1>8. QED
  BY <1>7

\* The puzzles and their solutions are boards without conflicts.
LEMMA PuzzleFacts ==
  ASSUME NEW P \in Puzzles
  PROVE  /\ DOMAIN P = Blocks /\ DOMAIN SolutionOf[P] = Blocks
         /\ NoConflict(P) /\ NoConflict(SolutionOf[P])
         /\ \A b \in Blocks : /\ IsGrid(P[b]) /\ IsGrid(SolutionOf[P][b])
                              /\ IsInjective(P[b]) /\ IsInjective(SolutionOf[P][b])
<1>1. /\ IsBoard(P) /\ IsBoard(SolutionOf[P]) /\ NoConflict(SolutionOf[P])
      /\ \A x \in Filled(P) : /\ x \in Filled(SolutionOf[P])
                               /\ SolutionOf[P][x[1]][x[2]] = P[x[1]][x[2]]
  BY PuzzleAssumption
<1>2. /\ DOMAIN P = Blocks /\ DOMAIN SolutionOf[P] = Blocks
      /\ \A b \in Blocks : IsGrid(P[b]) /\ IsGrid(SolutionOf[P][b])
  BY <1>1 DEF IsBoard
<1>4. NoConflict(P)
  BY <1>1 DEF NoConflict, Conflict
<1>5. ASSUME NEW board, NoConflict(board), NEW b \in Blocks
      PROVE  IsInjective(board[b])
  <2>1. SUFFICES ASSUME NEW c \in DOMAIN board[b], NEW d \in DOMAIN board[b],
                        board[b][c] = board[b][d]
                 PROVE  c = d
    BY DEF IsInjective
  <2>2. <<b, c>> \in Filled(board) /\ <<b, d>> \in Filled(board)
    BY DEF Filled
  <2>3. ~ Conflict(board, <<b, c>>, <<b, d>>)
    BY <1>5, <2>2 DEF NoConflict
  <2>4. QED
    BY <2>1, <2>3 DEF Conflict
<1>6. QED
  BY <1>1, <1>2, <1>4, <1>5

\* Pipes from which a message is taken, and to which one is written.
LEMMA PipeTypes ==
  ASSUME NEW p \in [Blocks -> Seq(Messages)], NEW b \in Blocks
  PROVE  /\ p[b] # <<>> => [p EXCEPT ![b] = Tail(@)] \in [Blocks -> Seq(Messages)]
         /\ \A q \in Messages : [p EXCEPT ![b] = Append(@, q)] \in [Blocks -> Seq(Messages)]
<1>1. p[b] \in Seq(Messages)
  OBVIOUS
<1>2. p[b] # <<>> => Tail(p[b]) \in Seq(Messages)
  BY <1>1, Taking
<1>3. \A s \in Seq(Messages), q \in Messages : Append(s, q) \in Seq(Messages)
  BY Writing
<1>4. p[b] # <<>> => [p EXCEPT ![b] = Tail(@)] \in [Blocks -> Seq(Messages)]
  BY <1>2
<1>5. \A q \in Messages : [p EXCEPT ![b] = Append(@, q)] \in [Blocks -> Seq(Messages)]
  BY <1>1, <1>3
<1>6. QED
  BY <1>4, <1>5

\* A block's question is a message about a line of its board.
LEMMA QuestionTypes ==
  ASSUME Types, NEW b \in Blocks, NEW op \in {"r", "c"}
  PROVE  Question(b, op) \in Questions /\ Question(b, op) \in Messages
<1>1. put[b].cell \in 0 .. 8 /\ put[b].value \in Values
  BY DEF Types, Cells, N
<1>2. Row(put[b].cell) \in 0 .. 2 /\ Col(put[b].cell) \in 0 .. 2
  BY <1>1 DEF Row, Col, DIM
<1>3. Question(b, op) \in Questions
  BY <1>1, <1>2 DEF Question, Questions
<1>4. QED
  BY <1>3 DEF Messages

\* A board with one more digit is a board.
LEMMA DigitTypes ==
  ASSUME NEW g, IsGrid(g), NEW p \in [cell : Cells, value : Values]
  PROVE  /\ IsGrid(WithDigit(g, p)) /\ DOMAIN WithDigit(g, p) = DOMAIN g \cup {p.cell}
         /\ WithDigit(g, p)[p.cell] = p.value
         /\ \A c \in DOMAIN g : c # p.cell => WithDigit(g, p)[c] = g[c]
BY DEF IsGrid, WithDigit

\* The boards a block gets are boards.
LEMMA BoardTypes ==
  ASSUME Types, NEW b \in Blocks, NEW g, NEW h, IsGrid(g), IsGrid(h),
         initial' \in {initial, [initial EXCEPT ![b] = g]},
         current' \in {current, [current EXCEPT ![b] = h]}
  PROVE  /\ DOMAIN initial' = Blocks /\ DOMAIN current' = Blocks
         /\ \A x \in Blocks : IsGrid(initial'[x]) /\ IsGrid(current'[x])
<1>1. DOMAIN initial = Blocks /\ DOMAIN current = Blocks
  BY DEF Types
<1>2. DOMAIN initial' = Blocks /\ DOMAIN current' = Blocks
  BY <1>1
<1>3. \A x \in Blocks : initial'[x] \in {initial[x], g} /\ current'[x] \in {current[x], h}
  BY <1>1
<1>4. QED
  BY <1>2, <1>3 DEF Types

-----------------------------------------------------------------------------
(* Types.                                                                    *)

\* The types hold at the start.
LEMMA InitTypes == Init => Types
<1>. SUFFICES ASSUME Init PROVE Types
  OBVIOUS
<1>1. user \in Users /\ grid \in Puzzles /\ left \in Nat
  BY UserAssumption DEF Init
<1>2. sending \in [op : {"prompt", "n", "s", "q"}, next : 0 .. N]
  BY DEF Init, N
<1>3. pipe \in [Blocks -> Seq(Messages)]
  BY EmptySeq DEF Init
<1>4. IsGrid(Empty)
  BY DEF IsGrid, Empty
<1>5. NoPut \in [cell : Cells, value : Values]
  BY DEF NoPut, Cells, Values, N
<1>6. QED
  BY <1>1, <1>2, <1>3, <1>4, <1>5 DEF Init, Types, Labels, Answers

\* The coordinator's steps keep the types.
LEMMA CoordinatorTypes ==
  Types /\ (NewGame \/ Solution \/ Quit \/ Send \/ GameOver
            \/ \E move \in user.moves : Put(move[1], move[2], move[3])) => Types'
<1>. SUFFICES ASSUME Types, NewGame \/ Solution \/ Quit \/ Send \/ GameOver
                            \/ \E move \in user.moves : Put(move[1], move[2], move[3])
              PROVE  Types'
  OBVIOUS
<1>1. CASE NewGame \/ Solution \/ Quit \/ GameOver
  <2>1. UNCHANGED <<user, pipe, boards, pc, put, response>> /\ grid' \in Puzzles
    BY <1>1 DEF NewGame, Solution, Quit, GameOver, vars, coordinator, Types
  <2>2. left' \in Nat
    BY <1>1 DEF NewGame, Solution, Quit, GameOver, Command, vars, coordinator, Types
  <2>3. sending' \in [op : {"prompt", "n", "s", "q"}, next : 0 .. N]
    BY <1>1 DEF NewGame, Solution, Quit, GameOver, vars, coordinator, Types, N
  <2>4. QED
    BY <2>1, <2>2, <2>3 DEF Types, boards
<1>2. CASE Send
  <2>1. /\ sending.op \in {"n", "s", "q"} /\ sending.next \in Blocks
        /\ pipe' = [pipe EXCEPT ![sending.next] = Append(@, [op |-> sending.op])]
        /\ sending' = IF sending.next < N - 1 \/ sending.op = "q"
                      THEN [sending EXCEPT !.next = @ + 1] ELSE Prompt
        /\ UNCHANGED <<user, grid, left, boards, pc, put, response>>
    BY <1>2 DEF Send
  <2>2. [op |-> sending.op] \in Messages
    BY <2>1 DEF Messages
  <2>3. pipe' \in [Blocks -> Seq(Messages)]
    BY <2>1, <2>2, PipeTypes DEF Types
  <2>4. sending' \in [op : {"prompt", "n", "s", "q"}, next : 0 .. N]
    <3>1. PICK k \in 0 .. 8 : k = sending.next
      BY <2>1 DEF Blocks, N
    <3>2. [sending EXCEPT !.next = k + 1] = [op |-> sending.op, next |-> k + 1]
      BY DEF Types
    <3>3. k + 1 \in 0 .. 9 /\ 0 \in 0 .. 9
      OBVIOUS
    <3>4. sending' \in {[op |-> sending.op, next |-> k + 1], [op |-> "prompt", next |-> 0]}
      BY <2>1, <3>1, <3>2 DEF Prompt
    <3>5. QED
      BY <2>1, <3>3, <3>4 DEF N
  <2>5. QED
    BY <2>1, <2>3, <2>4 DEF Types, boards
<1>3. ASSUME NEW move \in user.moves, Put(move[1], move[2], move[3])
      PROVE  Types'
  <2>1. move[1] \in Blocks /\ move[2] \in Cells /\ move[3] \in Values
    BY UserAssumption DEF Types
  <2>2. [op |-> "p", cell |-> move[2], value |-> move[3]] \in Messages
    BY <2>1 DEF Messages
  <2>3. /\ pipe' = [pipe EXCEPT ![move[1]] = Append(@, [op |-> "p", cell |-> move[2], value |-> move[3]])]
        /\ left' \in Nat
        /\ UNCHANGED <<user, grid, sending, boards, pc, put, response>>
    BY <1>3 DEF Put, Command, Types
  <2>4. pipe' \in [Blocks -> Seq(Messages)]
    BY <2>1, <2>2, <2>3, PipeTypes DEF Types
  <2>5. QED
    BY <2>3, <2>4 DEF Types, boards
<1>4. QED
  BY <1>1, <1>2, <1>3

\* What every step of block b does: it takes a message or none, writes one or
\* none, and else changes only what is its own.
LEMMA BlockTypes ==
  ASSUME Types, NEW b \in Blocks, NEW g, NEW h, IsGrid(g), IsGrid(h),
         pipe' \in [Blocks -> Seq(Messages)],
         initial' \in {initial, [initial EXCEPT ![b] = g]},
         current' \in {current, [current EXCEPT ![b] = h]},
         \E l \in Labels : pc' \in {pc, [pc EXCEPT ![b] = l]},
         \E p \in [cell : Cells, value : Values] : put' \in {put, [put EXCEPT ![b] = p]},
         \E a \in Answers : response' \in {response, [response EXCEPT ![b] = a]},
         UNCHANGED <<user, coordinator>>
  PROVE  Types'
<1>1. /\ DOMAIN initial' = Blocks /\ DOMAIN current' = Blocks
      /\ \A x \in Blocks : IsGrid(initial'[x]) /\ IsGrid(current'[x])
  BY BoardTypes
<1>2. pc' \in [Blocks -> Labels]
  BY DEF Types
<1>3. put' \in [Blocks -> [cell : Cells, value : Values]]
  BY DEF Types
<1>4. response' \in [Blocks -> Answers]
  BY DEF Types
<1>5. QED
  BY <1>1, <1>2, <1>3, <1>4 DEF Types, coordinator

\* What is taken from a pipe when a number is expected: an answer or nothing.
LEMMA ReadTypes ==
  ASSUME Types, NEW b \in Blocks, pipe[b] # <<>>
  PROVE  /\ Read(b) \in Answers
         /\ [pipe EXCEPT ![b] = Unread(b)] \in [Blocks -> Seq(Messages)]
<1>1. pipe \in [Blocks -> Seq(Messages)] /\ response[b] \in Answers
  BY DEF Types
<1>2. Read(b) \in Answers
  BY <1>1 DEF Read
<1>3. Unread(b) \in {Tail(pipe[b]), pipe[b]}
  BY DEF Unread
<1>4. Unread(b) \in Seq(Messages)
  BY <1>1, <1>3, Taking
<1>5. QED
  BY <1>1, <1>2, <1>4

\* The steps of a block keep the types.
LEMMA BlockStepTypes ==
  ASSUME Types, NEW b \in Blocks, BlockStep(b)
  PROVE  Types'
<1>1. /\ pipe \in [Blocks -> Seq(Messages)] /\ pipe[b] \in Seq(Messages) /\ grid \in Puzzles
      /\ IsGrid(initial[b]) /\ IsGrid(current[b])
      /\ put[b] \in [cell : Cells, value : Values]
  BY DEF Types
<1>2. IsGrid(grid[b]) /\ IsGrid(SolutionOf[grid][b])
  BY <1>1, PuzzleFacts
<1>3. NoPut \in [cell : Cells, value : Values] /\ "0" \in Answers
  BY DEF NoPut, Cells, Values, N, Answers
<1>4. {"loop", "message", "gone"} \subseteq Labels /\ Asking \subseteq Labels
  BY DEF Labels
<1>5. pipe[b] # <<>> => [pipe EXCEPT ![b] = Tail(@)] \in [Blocks -> Seq(Messages)]
  BY <1>1, PipeTypes
<1>6. CASE TakeBoard(b)
  <2>1. /\ pipe' = [pipe EXCEPT ![b] = Tail(@)] /\ pipe[b] # <<>>
        /\ initial' = [initial EXCEPT ![b] = grid[b]] /\ current' = [current EXCEPT ![b] = grid[b]]
        /\ UNCHANGED <<user, coordinator, pc, put, response>>
    BY <1>6 DEF TakeBoard, Receive
  <2>2. QED
    BY <1>2, <1>3, <1>4, <1>5, <2>1, BlockTypes
<1>7. CASE ShowSolution(b)
  <2>1. /\ pipe' = [pipe EXCEPT ![b] = Tail(@)] /\ pipe[b] # <<>>
        /\ initial' = [initial EXCEPT ![b] = grid[b]]
        /\ UNCHANGED <<user, coordinator, current, pc, put, response>>
    BY <1>7 DEF ShowSolution, Receive
  <2>2. QED
    BY <1>2, <1>3, <1>4, <1>5, <2>1, BlockTypes
<1>8. CASE readblock(b)
  <2>1. /\ pipe' = [pipe EXCEPT ![b] = Tail(@)] /\ pipe[b] # <<>>
        /\ initial' = [initial EXCEPT ![b] = SolutionOf[grid][b]]
        /\ current' = [current EXCEPT ![b] = SolutionOf[grid][b]]
        /\ UNCHANGED <<user, coordinator, pc, put, response>>
    BY <1>8 DEF readblock, Receive
  <2>2. QED
    BY <1>2, <1>3, <1>4, <1>5, <2>1, BlockTypes
<1>9. CASE TakePut(b) \/ tryset(b)
  <2>1. PICK q \in Messages : q = Head(pipe[b]) /\ q.op = "p" /\ pipe[b] # <<>>
    BY <1>1, <1>9, Taking DEF TakePut, tryset, Receive
  <2>2. PICK p \in [cell : Cells, value : Values] : p = [cell |-> q.cell, value |-> q.value]
    BY <2>1, MessageKinds
  <2>3. /\ pipe' = [pipe EXCEPT ![b] = Tail(@)]
        /\ put' = [put EXCEPT ![b] = p]
        /\ \E l \in {"message", "row1", "ask1"} : pc' = [pc EXCEPT ![b] = l]
        /\ \E a \in Answers : response' \in {response, [response EXCEPT ![b] = a]}
        /\ UNCHANGED <<user, coordinator, boards>>
    BY <1>3, <1>9, <2>1, <2>2 DEF TakePut, tryset, Goto
  <2>4. {"message", "row1", "ask1"} \subseteq Labels
    BY DEF Labels, Asking
  <2>5. QED
    BY <1>1, <1>3, <1>4, <1>5, <2>1, <2>3, <2>4, BlockTypes DEF boards
<1>10. CASE Ignore(b) \/ Leave(b)
  <2>1. /\ pipe' = [pipe EXCEPT ![b] = Tail(@)] /\ pipe[b] # <<>>
        /\ \E l \in {"gone"} : pc' \in {pc, [pc EXCEPT ![b] = l]}
        /\ UNCHANGED <<user, coordinator, boards, put, response>>
    BY <1>10 DEF Ignore, Leave, Receive, Goto
  <2>2. QED
    BY <1>1, <1>3, <1>4, <1>5, <2>1, BlockTypes DEF boards
<1>11. CASE PlaceDigit(b) \/ LastAnswer(b)
  <2>1. /\ pipe[b] # <<>>
        /\ pipe' \in {[pipe EXCEPT ![b] = Tail(@)], [pipe EXCEPT ![b] = Unread(b)]}
        /\ current' = [current EXCEPT ![b] = WithDigit(current[b], put[b])]
        /\ pc' = [pc EXCEPT ![b] = "loop"] /\ put' = [put EXCEPT ![b] = NoPut]
        /\ response' = [response EXCEPT ![b] = "0"]
        /\ UNCHANGED <<user, coordinator, initial>>
    BY <1>11 DEF PlaceDigit, LastAnswer, AnswerAt, Return, Goto
  <2>2. IsGrid(WithDigit(current[b], put[b]))
    BY <1>1, DigitTypes
  <2>3. pipe' \in [Blocks -> Seq(Messages)]
    BY <1>5, <2>1, ReadTypes
  <2>4. QED
    BY <1>1, <1>3, <1>4, <2>1, <2>2, <2>3, BlockTypes
<1>12. CASE Message(b)
  <2>1. /\ pc' = [pc EXCEPT ![b] = "loop"] /\ put' = [put EXCEPT ![b] = NoPut]
        /\ response' = [response EXCEPT ![b] = "0"]
        /\ UNCHANGED <<user, coordinator, pipe, boards>>
    BY <1>12 DEF Message, Return, Goto
  <2>2. QED
    BY <1>1, <1>3, <1>4, <2>1, BlockTypes DEF boards
<1>13. ASSUME NEW label, NEW then \in Labels,
              Answer(b, label, then) \/ LastConflict(b) \/ ColumnConflict(b)
       PROVE  Types'
  <2>1. PICK l \in Labels : /\ pipe[b] # <<>> /\ pipe' = [pipe EXCEPT ![b] = Unread(b)]
                            /\ response' = [response EXCEPT ![b] = Read(b)]
                            /\ pc' = [pc EXCEPT ![b] = l]
                            /\ UNCHANGED <<user, coordinator, boards, put>>
    BY <1>4, <1>13 DEF Answer, LastConflict, ColumnConflict, AnswerAt, Goto
  <2>2. QED
    BY <1>1, <2>1, ReadTypes, BlockTypes DEF boards
<1>14. ASSUME NEW label, NEW to \in Blocks, NEW op \in {"r", "c"}, NEW then \in Labels,
              Ask(b, label, to, op, then)
       PROVE  Types'
  <2>1. /\ pipe' = [pipe EXCEPT ![to] = Append(@, Question(b, op))]
        /\ pc' = [pc EXCEPT ![b] = then]
        /\ UNCHANGED <<user, coordinator, boards, put, response>>
    BY <1>14 DEF Ask, Goto
  <2>2. pipe' \in [Blocks -> Seq(Messages)]
    BY <1>1, <2>1, PipeTypes, QuestionTypes
  <2>3. QED
    BY <1>1, <1>3, <2>1, <2>2, BlockTypes DEF boards
<1>15. CASE Reply(b)
  <2>1. PICK q \in Messages : q = Head(pipe[b]) /\ q.op \in {"r", "c"} /\ pipe[b] # <<>>
    BY <1>1, <1>15, Taking DEF Reply, Receive
  <2>2. q.from \in Blocks
    BY <2>1, MessageKinds, QuestionFields
  <2>3. PICK rest \in [Blocks -> Seq(Messages)] : rest = [pipe EXCEPT ![b] = Tail(@)]
    BY <1>5, <2>1
  <2>4. PICK a \in Messages : a = [op |-> IF has_conflict(b, q) THEN "1" ELSE "0"]
    BY DEF Messages
  <2>5. /\ pipe' = [rest EXCEPT ![q.from] = Append(@, a)]
        /\ UNCHANGED <<user, coordinator, boards, pc, put, response>>
    BY <1>15, <2>1, <2>3, <2>4 DEF Reply
  <2>6. pipe' \in [Blocks -> Seq(Messages)]
    BY <2>2, <2>5, PipeTypes
  <2>7. QED
    BY <1>1, <1>3, <1>4, <2>5, <2>6, BlockTypes DEF boards
<1>16. CASE AskOne(b)
  <2>1. PICK k \in 1 .. 4 : Ask(b, Asks[k], genblocks(b)[k], IF k <= 2 THEN "r" ELSE "c", Reads[k])
    BY <1>16 DEF AskOne
  <2>2. /\ genblocks(b)[k] \in Blocks /\ (IF k <= 2 THEN "r" ELSE "c") \in {"r", "c"}
        /\ Reads[k] \in Labels
    BY Neighbours DEF Reads, Labels, Asking
  <2>3. QED
    BY <1>14, <2>1, <2>2
<1>17. CASE AskRow(b) \/ AskCol(b)
  <2>1. {"row2", "row_answer1", "col2", "col_answer1"} \subseteq Labels
    BY DEF Labels, Asking
  <2>2. Ask(b, "row1", get_row_adj(b)[1], "r", "row2") => Types'
    BY <1>14, <2>1, Neighbours
  <2>3. Ask(b, "row2", get_row_adj(b)[2], "r", "row_answer1") => Types'
    BY <1>14, <2>1, Neighbours
  <2>4. Ask(b, "col1", get_col_adj(b)[1], "c", "col2") => Types'
    BY <1>14, <2>1, Neighbours
  <2>5. Ask(b, "col2", get_col_adj(b)[2], "c", "col_answer1") => Types'
    BY <1>14, <2>1, Neighbours
  <2>6. QED
    BY <1>17, <2>2, <2>3, <2>4, <2>5 DEF AskRow, AskCol
<1>18. CASE ReadOne(b)
  <2>1. PICK k \in 1 .. 3 : Answer(b, Reads[k], Asks[k + 1])
    BY <1>18 DEF ReadOne
  <2>2. Asks[k + 1] \in Labels
    BY DEF Asks, Labels, Asking
  <2>3. QED
    BY <1>13, <2>1, <2>2
<1>19. CASE \/ Answer(b, "row_answer1", "row_answer2") \/ Answer(b, "row_answer2", "col1")
            \/ Answer(b, "col_answer1", "col_answer2") \/ LastConflict(b) \/ ColumnConflict(b)
  <2>1. {"row_answer2", "col1", "col_answer2"} \subseteq Labels
    BY DEF Labels, Asking
  <2>2. QED
    BY <1>13, <1>19, <2>1
<1>20. QED
  BY <1>6, <1>7, <1>8, <1>9, <1>10, <1>11, <1>12, <1>15, <1>16, <1>17, <1>18, <1>19
     DEF BlockStep, SolStep, TakeAnswers

\* The values of the variables are what their types say.
LEMMA TypesAlways == Spec => []Types
<1>1. Types /\ [Next]_vars => Types'
  <2>. SUFFICES ASSUME Types, [Next]_vars PROVE Types'
    OBVIOUS
  <2>1. CASE Next
    BY <2>1, CoordinatorTypes, BlockStepTypes DEF Next
  <2>2. CASE UNCHANGED vars
    BY <2>2 DEF vars, coordinator, boards, Types
  <2>3. QED
    BY <2>1, <2>2
<1>2. QED
  BY <1>1, InitTypes, PTL DEF Spec

-----------------------------------------------------------------------------
(* What a block's step does to the pipes.                                    *)

\* Block b takes the first message.
Takes(b) == pipe[b] # <<>> /\ pipe' = [pipe EXCEPT ![b] = Tail(@)]

\* Block b asks another one.
Wonders(b) == \E to \in Blocks, q \in Questions :
  /\ q.from = b /\ pc[b] \in Asking
  /\ pipe' = [pipe EXCEPT ![to] = Append(@, q)]

\* Block b answers the question that is first in its pipe.
Responds(b) == \E q \in Questions, a \in Messages, rest \in [Blocks -> Seq(Messages)] :
  /\ pc[b] = "loop" /\ pipe[b] # <<>> /\ Head(pipe[b]) = q
  /\ a = [op |-> IF has_conflict(b, q) THEN "1" ELSE "0"]
  /\ rest = [pipe EXCEPT ![b] = Tail(@)]
  /\ pipe' = [rest EXCEPT ![q.from] = Append(@, a)]

\* A block that asks another one writes a question, one that is asked takes it and
\* writes an answer.
LEMMA AsksOrReplies ==
  ASSUME Types, NEW b \in Blocks
  PROVE  /\ AskOne(b) \/ AskRow(b) \/ AskCol(b) => Wonders(b)
         /\ Reply(b) => Responds(b)
<1>1. pipe \in [Blocks -> Seq(Messages)]
  BY DEF Types
<1>2. ASSUME NEW label \in Asking, NEW to \in Blocks, NEW op \in {"r", "c"}, NEW then,
             Ask(b, label, to, op, then)
      PROVE  Wonders(b)
  <2>1. PICK q \in Questions : q = Question(b, op)
    BY QuestionTypes
  <2>2. q.from = b
    BY <2>1 DEF Question
  <2>3. QED
    BY <1>2, <2>1, <2>2 DEF Ask, Wonders
<1>3. ASSUME AskOne(b)
      PROVE  Wonders(b)
  <2>1. PICK k \in 1 .. 4 : Ask(b, Asks[k], genblocks(b)[k], IF k <= 2 THEN "r" ELSE "c", Reads[k])
    BY <1>3 DEF AskOne
  <2>2. /\ genblocks(b)[k] \in Blocks /\ (IF k <= 2 THEN "r" ELSE "c") \in {"r", "c"}
        /\ Asks[k] \in Asking
    BY Neighbours DEF Asks, Asking
  <2>3. QED
    BY <1>2, <2>1, <2>2
<1>4. ASSUME AskRow(b) \/ AskCol(b)
      PROVE  Wonders(b)
  <2>1. {"row1", "row2", "col1", "col2"} \subseteq Asking
    BY DEF Asking
  <2>2. Ask(b, "row1", get_row_adj(b)[1], "r", "row2") => Wonders(b)
    BY <1>2, <2>1, Neighbours
  <2>3. Ask(b, "row2", get_row_adj(b)[2], "r", "row_answer1") => Wonders(b)
    BY <1>2, <2>1, Neighbours
  <2>4. Ask(b, "col1", get_col_adj(b)[1], "c", "col2") => Wonders(b)
    BY <1>2, <2>1, Neighbours
  <2>5. Ask(b, "col2", get_col_adj(b)[2], "c", "col_answer1") => Wonders(b)
    BY <1>2, <2>1, Neighbours
  <2>6. QED
    BY <1>4, <2>2, <2>3, <2>4, <2>5 DEF AskRow, AskCol
<1>5. ASSUME Reply(b)
      PROVE  Responds(b)
  <2>1. PICK q \in Questions : q = Head(pipe[b]) /\ pipe[b] # <<>> /\ pc[b] = "loop"
    <3>1. Head(pipe[b]) \in Messages /\ Head(pipe[b]).op \in {"r", "c"} /\ pipe[b] # <<>> /\ pc[b] = "loop"
      BY <1>1, <1>5, Taking DEF Reply, Receive
    <3>2. QED
      BY <3>1, MessageKinds
  <2>2. PICK rest \in [Blocks -> Seq(Messages)] : rest = [pipe EXCEPT ![b] = Tail(@)]
    BY <1>1, <2>1, PipeTypes
  <2>3. PICK a \in Messages : a = [op |-> IF has_conflict(b, q) THEN "1" ELSE "0"]
    BY DEF Messages
  <2>4. pipe' = [rest EXCEPT ![q.from] = Append(@, a)]
    BY <1>5, <2>1, <2>2, <2>3 DEF Reply
  <2>5. QED
    BY <2>1, <2>2, <2>3, <2>4 DEF Responds
<1>6. QED
  BY <1>3, <1>4, <1>5

\* A block takes a message, asks, answers, or leaves the pipes alone.
LEMMA PipeShapes ==
  ASSUME Types, NEW b \in Blocks, BlockStep(b)
  PROVE  /\ pipe' = pipe \/ Takes(b) \/ Wonders(b) \/ Responds(b)
         /\ UNCHANGED <<user, grid, sending, left>>
         /\ \A x \in Blocks : x # b => /\ pc'[x] = pc[x] /\ put'[x] = put[x]
                                       /\ initial'[x] = initial[x] /\ current'[x] = current[x]
<1>1. /\ pipe \in [Blocks -> Seq(Messages)] /\ DOMAIN initial = Blocks /\ DOMAIN current = Blocks
      /\ DOMAIN pc = Blocks /\ DOMAIN put = Blocks
  <2>1. pipe \in [Blocks -> Seq(Messages)]
    BY DEF Types
  <2>2. DOMAIN initial = Blocks /\ DOMAIN current = Blocks
    BY DEF Types
  <2>3. pc \in [Blocks -> Labels] /\ put \in [Blocks -> [cell : Cells, value : Values]]
    BY DEF Types
  <2>4. DOMAIN pc = Blocks /\ DOMAIN put = Blocks
    BY <2>3, Zenon
  <2>5. QED
    BY <2>1, <2>2, <2>4
<1>2. UNCHANGED <<user, grid, sending, left>>
  BY ZenonT(40) DEF BlockStep, SolStep, TakeBoard, ShowSolution, TakePut, Message, AskRow, AskCol, Ask, TakeAnswers, Answer,
         LastAnswer, LastConflict, Reply, Ignore, Leave, readblock, tryset, AskOne, ReadOne, PlaceDigit,
         ColumnConflict, coordinator
<1>3. \A x \in Blocks : x # b => pc'[x] = pc[x] /\ put'[x] = put[x]
  <2>1. \E l : pc' \in {pc, [pc EXCEPT ![b] = l]}
    BY ZenonT(60) DEF BlockStep, SolStep, TakeBoard, ShowSolution, TakePut, Message, AskRow, AskCol, Ask, TakeAnswers,
           Answer, LastAnswer, LastConflict, Reply, Ignore, Leave, readblock, tryset, AskOne, ReadOne, PlaceDigit,
           ColumnConflict, coordinator, Return, Goto
  <2>2. \E p : put' \in {put, [put EXCEPT ![b] = p]}
    BY ZenonT(60) DEF BlockStep, SolStep, TakeBoard, ShowSolution, TakePut, Message, AskRow, AskCol, Ask, TakeAnswers, Answer,
           LastAnswer, LastConflict, Reply, Ignore, Leave, readblock, tryset, AskOne, ReadOne, PlaceDigit,
           ColumnConflict, coordinator, Return, Goto
  <2>3. PICK l : pc' \in {pc, [pc EXCEPT ![b] = l]}
    BY <2>1
  <2>4. PICK p : put' \in {put, [put EXCEPT ![b] = p]}
    BY <2>2
  <2>5. \A x \in Blocks : x # b => pc'[x] = pc[x]
    BY <1>1, <2>3
  <2>6. \A x \in Blocks : x # b => put'[x] = put[x]
    BY <1>1, <2>4
  <2>7. QED
    BY <2>5, <2>6
<1>4. \A x \in Blocks : x # b => initial'[x] = initial[x] /\ current'[x] = current[x]
  <2>1. /\ \E g : initial' \in {initial, [initial EXCEPT ![b] = g]}
        /\ \E h : current' \in {current, [current EXCEPT ![b] = h]}
    BY ZenonT(40) DEF BlockStep, SolStep, TakeBoard, ShowSolution, TakePut, Message, AskRow, AskCol, Ask, TakeAnswers, Answer,
           LastAnswer, LastConflict, Reply, Ignore, Leave, readblock, tryset, AskOne, ReadOne, PlaceDigit,
           ColumnConflict, boards
  <2>2. PICK g : initial' \in {initial, [initial EXCEPT ![b] = g]}
    BY <2>1
  <2>3. PICK h : current' \in {current, [current EXCEPT ![b] = h]}
    BY <2>1
  <2>4. \A x \in Blocks : x # b => initial'[x] = initial[x]
    BY <1>1, <2>2
  <2>5. \A x \in Blocks : x # b => current'[x] = current[x]
    BY <1>1, <2>3
  <2>6. QED
    BY <2>4, <2>5
<1>5. pipe' = pipe \/ Takes(b) \/ Wonders(b) \/ Responds(b)
  <2>1. CASE TakeBoard(b) \/ ShowSolution(b) \/ readblock(b) \/ TakePut(b) \/ tryset(b) \/ Ignore(b) \/ Leave(b)
             \/ PlaceDigit(b)
    BY <2>1 DEF TakeBoard, ShowSolution, readblock, TakePut, tryset, Ignore, Leave, PlaceDigit, Receive, Takes
  <2>2. CASE Message(b)
    BY <2>2 DEF Message
  <2>3. ASSUME pipe[b] # <<>>, pipe' = [pipe EXCEPT ![b] = Unread(b)]
        PROVE  pipe' = pipe \/ Takes(b)
    <3>1. CASE Unread(b) = pipe[b]
      BY <1>1, <2>3, <3>1
    <3>2. CASE Unread(b) = Tail(pipe[b])
      BY <2>3, <3>2 DEF Takes
    <3>3. QED
      BY <3>1, <3>2 DEF Unread
  <2>4. CASE TakeAnswers(b) \/ ReadOne(b) \/ ColumnConflict(b)
    BY <2>3, <2>4 DEF TakeAnswers, ReadOne, Answer, LastAnswer, LastConflict, ColumnConflict, AnswerAt
  <2>5. CASE AskOne(b) \/ AskRow(b) \/ AskCol(b) \/ Reply(b)
    BY <2>5, AsksOrReplies
  <2>6. QED
    BY <2>1, <2>2, <2>4, <2>5 DEF BlockStep, SolStep
<1>6. QED
  BY <1>2, <1>3, <1>4, <1>5

\* The pipe of x after each kind of step of block b.
LEMMA PipeAfter ==
  ASSUME Types, NEW b \in Blocks, NEW x \in Blocks
  PROVE  /\ Takes(b) => pipe'[x] = IF x = b THEN Tail(pipe[x]) ELSE pipe[x]
         /\ \A to \in Blocks, q \in Messages :
              pipe' = [pipe EXCEPT ![to] = Append(@, q)] => pipe'[x] = IF x = to THEN Append(pipe[x], q) ELSE pipe[x]
<1>1. pipe \in [Blocks -> Seq(Messages)]
  BY DEF Types
<1>2. QED
  BY <1>1 DEF Takes

-----------------------------------------------------------------------------
(* Commands under way.                                                       *)

\* The coordinator's command has yet to reach block b, or waits in its pipe.
Pending(b, op) ==
  \/ sending.op = op /\ sending.next <= b
  \/ \E i \in 1 .. Len(pipe[b]) : pipe[b][i].op = op

\* Only answers and questions are written by blocks, so a command goes only when
\* its block takes it.
LEMMA PendingUntilTaken ==
  ASSUME Types, NEW b \in Blocks, BlockStep(b), NEW x \in Blocks, NEW op \in {"n", "s"}
  PROVE  /\ Pending(x, op)' => Pending(x, op)
         /\ Pending(x, op) => \/ Pending(x, op)'
                              \/ x = b /\ pipe[b] # <<>> /\ Head(pipe[b]).op = op
<1>1. pipe \in [Blocks -> Seq(Messages)] /\ pipe[x] \in Seq(Messages) /\ sending' = sending
  BY PipeShapes DEF Types
<1>. DEFINE In(p) == \E i \in 1 .. Len(p) : p[i].op = op
<1>2. /\ Pending(x, op) <=> (sending.op = op /\ sending.next <= x) \/ In(pipe[x])
      /\ Pending(x, op)' <=> (sending.op = op /\ sending.next <= x) \/ In(pipe'[x])
  BY <1>1 DEF Pending
<1>3. \A p \in Seq(Messages) : p # <<>> => (In(p) <=> Head(p).op = op \/ In(Tail(p)))
  <2>1. SUFFICES ASSUME NEW p \in Seq(Messages), p # <<>> PROVE In(p) <=> Head(p).op = op \/ In(Tail(p))
    OBVIOUS
  <2>2. /\ Len(p) \in Nat /\ Len(p) >= 1 /\ Head(p) = p[1] /\ Len(Tail(p)) = Len(p) - 1
        /\ \A i \in 1 .. Len(p) - 1 : Tail(p)[i] = p[i + 1]
    BY <2>1, Taking
  <2>3. ASSUME NEW i \in 1 .. Len(p), p[i].op = op PROVE Head(p).op = op \/ In(Tail(p))
    <3>1. i # 1 => i - 1 \in 1 .. Len(p) - 1 /\ Tail(p)[i - 1] = p[(i - 1) + 1] /\ (i - 1) + 1 = i
      BY <2>2
    <3>2. QED
      BY <2>2, <2>3, <3>1
  <2>4. ASSUME NEW i \in 1 .. Len(p) - 1, Tail(p)[i].op = op PROVE In(p)
    <3>1. i + 1 \in 1 .. Len(p) /\ p[i + 1].op = op
      BY <2>2, <2>4
    <3>2. QED
      BY <3>1
  <2>5. Head(p).op = op => In(p)
    <3>1. 1 \in 1 .. Len(p)
      BY <2>2
    <3>2. QED
      BY <2>2, <3>1
  <2>6. QED
    BY <2>2, <2>3, <2>4, <2>5
<1>4. \A p \in Seq(Messages), q \in Messages : q.op # op => (In(Append(p, q)) <=> In(p))
  <2>1. SUFFICES ASSUME NEW p \in Seq(Messages), NEW q \in Messages, q.op # op
                 PROVE  In(Append(p, q)) <=> In(p)
    OBVIOUS
  <2>2. /\ Len(p) \in Nat /\ Len(Append(p, q)) = Len(p) + 1
        /\ \A i \in 1 .. Len(p) : Append(p, q)[i] = p[i]
        /\ Append(p, q)[Len(p) + 1] = q
    BY Writing
  <2>3. \A i \in 1 .. Len(p) + 1 : i \in 1 .. Len(p) \/ i = Len(p) + 1
    BY <2>2
  <2>4. \A i \in 1 .. Len(p) : i \in 1 .. Len(p) + 1
    BY <2>2
  <2>5. QED
    BY <2>1, <2>2, <2>3, <2>4
<1>. HIDE DEF In
<1>5. CASE pipe' = pipe
  BY <1>2, <1>5
<1>6. CASE Takes(b)
  <2>1. pipe'[x] = IF x = b THEN Tail(pipe[x]) ELSE pipe[x]
    BY <1>6, PipeAfter
  <2>2. QED
    BY <1>1, <1>2, <1>3, <1>6, <2>1 DEF Takes
<1>7. CASE Wonders(b)
  <2>1. PICK to \in Blocks, q \in Questions : pipe' = [pipe EXCEPT ![to] = Append(@, q)]
    BY <1>7 DEF Wonders
  <2>2. q \in Messages /\ q.op # op
    BY QuestionFields DEF Messages
  <2>3. pipe'[x] \in {pipe[x], Append(pipe[x], q)}
    BY <1>1, <2>1
  <2>4. QED
    BY <1>1, <1>2, <1>4, <2>2, <2>3
<1>8. CASE Responds(b)
  <2>1. PICK q \in Questions, a \in Messages, rest \in [Blocks -> Seq(Messages)] :
          /\ pc[b] = "loop" /\ pipe[b] # <<>> /\ Head(pipe[b]) = q
          /\ a = [op |-> IF has_conflict(b, q) THEN "1" ELSE "0"]
          /\ rest = [pipe EXCEPT ![b] = Tail(@)]
          /\ pipe' = [rest EXCEPT ![q.from] = Append(@, a)]
    BY <1>8 DEF Responds
  <2>2. q.from \in Blocks /\ q.op # op /\ a.op # op
    BY <2>1, QuestionFields
  <2>3. pipe'[x] \in {rest[x], Append(rest[x], a)}
    BY <2>1
  <2>4. In(pipe'[x]) <=> In(rest[x])
    BY <1>4, <2>2, <2>3
  <2>5. rest[x] = IF x = b THEN Tail(pipe[x]) ELSE pipe[x]
    BY <1>1, <2>1
  <2>6. In(rest[x]) <=> In(pipe[x])
    BY <1>1, <1>3, <2>1, <2>2, <2>5
  <2>7. QED
    BY <1>2, <2>4, <2>6
<1>9. QED
  BY <1>5, <1>6, <1>7, <1>8, PipeShapes

\* The labels of sol_LA4's block.
SolLabels == {"ask1", "ask2", "ask3", "ask4", "read1", "read2", "read3", "read4"}

\* A command is sent to all and taken by all before the next one: a new board and
\* a solution are never under way at once, and a block of block.c that waits for
\* no new board has the puzzle.
DrawInv ==
  /\ sending.op \in {"n", "s"} => sending.next \in Blocks
  /\ \A x, y \in Blocks : ~ (Pending(x, "n") /\ Pending(y, "s"))
  /\ user.program = "own" => \A b \in Blocks : pc[b] \notin SolLabels /\ (Pending(b, "n") \/ initial[b] = grid[b])

\* Once the boards are drawn and the user is asked, no command is under way.
LEMMA DrawnMeansNothingPending ==
  ASSUME Types, Drawn, sending = Prompt, NEW x \in Blocks
  PROVE  ~ Pending(x, "n") /\ ~ Pending(x, "s")
<1>1. DOMAIN pipe[x] = 1 .. Len(pipe[x])
  BY DEF Types
<1>2. QED
  BY <1>1 DEF Drawn, Pending, Prompt

\* Commands under way after the coordinator's steps.
LEMMA PendingOfCoordinator ==
  ASSUME Types, NEW x \in Blocks, NEW op \in {"n", "s"}
  PROVE  /\ pipe' = pipe /\ sending' = sending => Pending(x, op)' = Pending(x, op)
         /\ NewGame => ((op = "n" => Pending(x, op)') /\ (op = "s" => ~ Pending(x, op)'))
         /\ Solution => ((op = "s" => Pending(x, op)') /\ (op = "n" => ~ Pending(x, op)'))
         /\ Quit => ~ Pending(x, op)'
         /\ Send /\ DrawInv => Pending(x, op)' = Pending(x, op)
         /\ \A b \in Blocks, c \in Cells, v \in Values : Put(b, c, v) => ~ Pending(x, op)'
<1>1. pipe \in [Blocks -> Seq(Messages)] /\ pipe[x] \in Seq(Messages)
  BY DEF Types
<1>2. pipe' = pipe /\ sending' = sending => Pending(x, op)' = Pending(x, op)
  BY DEF Pending
<1>3. Drawn => \A i \in 1 .. Len(pipe[x]) : pipe[x][i].op # op
  <2>1. DOMAIN pipe[x] = 1 .. Len(pipe[x])
    BY <1>1
  <2>2. QED
    BY <2>1 DEF Drawn
<1>4. x \in 0 .. 8
  BY DEF Blocks, N
<1>5. NewGame => ((op = "n" => Pending(x, op)') /\ (op = "s" => ~ Pending(x, op)'))
  BY <1>3, <1>4 DEF NewGame, Command, Ready, Pending
<1>6. Solution => ((op = "s" => Pending(x, op)') /\ (op = "n" => ~ Pending(x, op)'))
  BY <1>3, <1>4 DEF Solution, Command, Ready, Pending
<1>7. Quit => ~ Pending(x, op)'
  BY <1>3, <1>4 DEF Quit, Ready, Pending
<1>8. ASSUME NEW b \in Blocks, NEW c \in Cells, NEW v \in Values, Put(b, c, v)
      PROVE  ~ Pending(x, op)'
  <2>1. PICK q \in Messages : q = [op |-> "p", cell |-> c, value |-> v]
    BY DEF Messages
  <2>2. /\ pipe' = [pipe EXCEPT ![b] = Append(@, q)] /\ sending' = sending /\ sending = Prompt /\ Drawn
    BY <1>8, <2>1 DEF Put, Command, Ready
  <2>3. pipe'[x] \in {pipe[x], Append(pipe[x], q)}
    BY <1>1, <2>2
  <2>4. \A i \in 1 .. Len(Append(pipe[x], q)) : Append(pipe[x], q)[i].op # op
    <3>1. /\ Len(Append(pipe[x], q)) = Len(pipe[x]) + 1 /\ Len(pipe[x]) \in Nat
          /\ \A i \in 1 .. Len(pipe[x]) : Append(pipe[x], q)[i] = pipe[x][i]
          /\ Append(pipe[x], q)[Len(pipe[x]) + 1] = q
      BY <1>1, Writing
    <3>2. TAKE i \in 1 .. Len(Append(pipe[x], q))
    <3>3. i \in 1 .. Len(pipe[x]) \/ i = Len(pipe[x]) + 1
      BY <3>1
    <3>4. QED
      BY <1>3, <2>1, <2>2, <3>1, <3>3
  <2>5. QED
    BY <1>3, <2>2, <2>3, <2>4 DEF Pending, Prompt
<1>9. ASSUME Send, DrawInv
      PROVE  Pending(x, op)' = Pending(x, op)
  <2>1. PICK q \in Messages, to \in Blocks : q = [op |-> sending.op] /\ to = sending.next
    BY <1>9 DEF Send, Messages
  <2>2. /\ pipe' = [pipe EXCEPT ![to] = Append(@, q)]
        /\ sending.op \in {"n", "s", "q"}
        /\ sending' = IF sending.next < N - 1 \/ sending.op = "q" THEN [sending EXCEPT !.next = @ + 1] ELSE Prompt
    BY <1>9, <2>1 DEF Send
  <2>3. to \in 0 .. 8
    BY DEF Blocks, N
  <2>4. CASE sending.op # op
    <3>1. sending'.op # op
      BY <2>2, <2>4 DEF Types, Prompt
    <3>2. pipe'[x] \in {pipe[x], Append(pipe[x], q)} /\ q.op # op
      BY <1>1, <2>1, <2>2, <2>4
    <3>3. /\ Len(Append(pipe[x], q)) = Len(pipe[x]) + 1 /\ Len(pipe[x]) \in Nat
          /\ \A i \in 1 .. Len(pipe[x]) : Append(pipe[x], q)[i] = pipe[x][i]
          /\ Append(pipe[x], q)[Len(pipe[x]) + 1] = q
      BY <1>1, Writing
    <3>4. (\E i \in 1 .. Len(pipe'[x]) : pipe'[x][i].op = op) <=> (\E i \in 1 .. Len(pipe[x]) : pipe[x][i].op = op)
      <4>1. \A i \in 1 .. Len(pipe[x]) + 1 : i \in 1 .. Len(pipe[x]) \/ i = Len(pipe[x]) + 1
        BY <3>3
      <4>2. \A i \in 1 .. Len(pipe[x]) : i \in 1 .. Len(pipe[x]) + 1
        BY <3>3
      <4>3. QED
        BY <3>2, <3>3, <4>1, <4>2
    <3>5. QED
      BY <2>4, <3>1, <3>4 DEF Pending
  <2>5. CASE sending.op = op
    <3>1. CASE x = to
      <4>1. pipe'[x] = Append(pipe[x], q)
        BY <1>1, <2>2, <3>1
      <4>2. Len(pipe'[x]) = Len(pipe[x]) + 1 /\ Len(pipe[x]) \in Nat /\ pipe'[x][Len(pipe[x]) + 1] = q
        BY <1>1, <4>1, Writing
      <4>3. Len(pipe[x]) + 1 \in 1 .. Len(pipe'[x])
        BY <4>2
      <4>4. Pending(x, op)'
        BY <2>1, <2>5, <4>2, <4>3 DEF Pending
      <4>5. Pending(x, op)
        BY <2>1, <2>3, <2>5, <3>1 DEF Pending
      <4>6. QED
        BY <4>4, <4>5
    <3>2. CASE x # to
      <4>1. pipe'[x] = pipe[x]
        BY <1>1, <2>2, <3>2
      <4>2. (sending'.op = op /\ sending'.next <= x) <=> (sending.op = op /\ sending.next <= x)
        <5>1. CASE to < 8
          <6>1. sending' = [sending EXCEPT !.next = to + 1]
            BY <2>1, <2>2, <5>1 DEF N
          <6>2. sending'.op = op /\ sending'.next = to + 1
            BY <2>5, <6>1 DEF Types
          <6>3. to + 1 <= x <=> to <= x
            BY <1>4, <2>3, <3>2
          <6>4. QED
            BY <2>1, <2>5, <6>2, <6>3
        <5>2. CASE to = 8
          <6>1. sending' = Prompt
            BY <2>1, <2>2, <2>5, <5>2 DEF N
          <6>2. ~ (to <= x)
            BY <1>4, <2>3, <3>2, <5>2
          <6>3. QED
            BY <2>1, <2>5, <6>1, <6>2 DEF Prompt
        <5>3. QED
          BY <2>3, <5>1, <5>2
      <4>3. QED
        BY <4>1, <4>2 DEF Pending
    <3>3. QED
      BY <3>1, <3>2
  <2>6. QED
    BY <2>4, <2>5
<1>10. QED
  BY <1>2, <1>5, <1>6, <1>7, <1>8, <1>9

\* A block of block.c does not what one of sol_LA4 does.
LEMMA OwnStepsOnly ==
  ASSUME user.program = "own", NEW b \in Blocks, pc[b] \notin SolLabels
  PROVE  ~ SolStep(b)
<1>1. ~ readblock(b) /\ ~ tryset(b)
  BY DEF readblock, tryset
<1>2. \A k \in 1 .. 4 : Asks[k] \in SolLabels /\ Reads[k] \in SolLabels
  BY DEF Asks, Reads, SolLabels
<1>3. ~ AskOne(b)
  BY <1>2 DEF AskOne, Ask
<1>4. ~ ReadOne(b)
  BY <1>2 DEF ReadOne, Answer, AnswerAt
<1>5. ~ PlaceDigit(b) /\ ~ ColumnConflict(b)
  BY DEF PlaceDigit, ColumnConflict, AnswerAt, SolLabels
<1>6. QED
  BY <1>1, <1>3, <1>4, <1>5 DEF SolStep

\* Own blocks never come to sol_LA4's labels.
LEMMA OwnLabels ==
  ASSUME Types, user.program = "own", NEW b \in Blocks, BlockStep(b), pc[b] \notin SolLabels
  PROVE  pc'[b] \notin SolLabels
<1>1. pc \in [Blocks -> Labels]
  BY DEF Types
<1>2. \A l : Goto(b, l) => pc'[b] = l
  BY <1>1 DEF Goto
<1>3. ~ SolStep(b)
  BY OwnStepsOnly
<1>4. CASE TakeBoard(b) \/ ShowSolution(b) \/ Reply(b) \/ Ignore(b)
  BY <1>4 DEF TakeBoard, ShowSolution, Reply, Ignore
<1>5. CASE TakePut(b) \/ Message(b) \/ Leave(b)
  <2>1. pc'[b] \in {"message", "row1", "loop", "gone"}
    BY <1>2, <1>5 DEF TakePut, Message, Leave, Return
  <2>2. QED
    BY <2>1 DEF SolLabels
<1>6. CASE AskRow(b) \/ AskCol(b)
  <2>1. pc'[b] \in {"row2", "row_answer1", "col2", "col_answer1"}
    BY <1>2, <1>6 DEF AskRow, AskCol, Ask
  <2>2. QED
    BY <2>1 DEF SolLabels
<1>7. CASE TakeAnswers(b)
  <2>1. pc'[b] \in {"message", "row_answer2", "col1", "col_answer2", "loop"}
    BY <1>2, <1>7 DEF TakeAnswers, Answer, LastAnswer, LastConflict, Return
  <2>2. QED
    BY <2>1 DEF SolLabels
<1>8. QED
  BY <1>3, <1>4, <1>5, <1>6, <1>7 DEF BlockStep

\* A block's puzzle changes only when it takes a command to draw.
LEMMA PuzzleTaken ==
  ASSUME Types, NEW b \in Blocks, BlockStep(b)
  PROVE  /\ pipe[b] # <<>> /\ Head(pipe[b]).op = "n" => initial'[b] = grid[b] \/ initial' = initial
         /\ pipe[b] # <<>> /\ Head(pipe[b]).op = "n" /\ pc[b] = "loop" => initial'[b] = grid[b]
         /\ user.program = "own" => initial'[b] \in {initial[b], grid[b]}
<1>1. DOMAIN initial = Blocks
  BY DEF Types
<1>2. pc[b] = "loop" => ~ AskRow(b) /\ ~ AskCol(b) /\ ~ TakeAnswers(b) /\ ~ Message(b)
  BY DEF AskRow, AskCol, Ask, TakeAnswers, Answer, LastAnswer, LastConflict, AnswerAt, Message
<1>3. pc[b] = "loop" => ~ AskOne(b) /\ ~ ReadOne(b) /\ ~ PlaceDigit(b) /\ ~ ColumnConflict(b)
  BY DEF AskOne, Ask, ReadOne, Answer, PlaceDigit, ColumnConflict, AnswerAt, Asks, Reads
<1>4. Head(pipe[b]).op = "n" => /\ ~ ShowSolution(b) /\ ~ readblock(b) /\ ~ TakePut(b) /\ ~ tryset(b)
                                /\ ~ Reply(b) /\ ~ Ignore(b) /\ ~ Leave(b)
  <2>1. Head(pipe[b]).op = "n" => \A op \in {"s", "p", "r", "c", "0", "1", "q"} : ~ Receive(b, op)
    BY DEF Receive
  <2>2. QED
    BY <2>1 DEF ShowSolution, readblock, TakePut, tryset, Reply, Ignore, Leave
<1>5. TakeBoard(b) \/ ShowSolution(b) => initial'[b] = grid[b]
  <2>1. TakeBoard(b) \/ ShowSolution(b) => initial' = [initial EXCEPT ![b] = grid[b]]
    BY DEF TakeBoard, ShowSolution
  <2>2. QED
    BY <1>1, <2>1
<1>6. TakePut(b) \/ tryset(b) \/ Reply(b) \/ Ignore(b) \/ Leave(b) \/ AskRow(b) \/ AskCol(b) \/ TakeAnswers(b)
      \/ Message(b) \/ AskOne(b) \/ ReadOne(b) \/ PlaceDigit(b) \/ ColumnConflict(b) => initial' = initial
  BY ZenonT(40) DEF TakePut, tryset, Reply, Ignore, Leave, AskRow, AskCol, Ask, TakeAnswers, Answer, LastAnswer, LastConflict,
         Message, AskOne, ReadOne, PlaceDigit, ColumnConflict, boards
<1>7. user.program = "own" => ~ readblock(b)
  BY DEF readblock
<1>8. QED
  BY <1>2, <1>3, <1>4, <1>5, <1>6, <1>7 DEF BlockStep, SolStep

\* A block of block.c takes the message of a new game only to draw the board.
LEMMA NewBoardTaken ==
  ASSUME Types, user.program = "own", NEW b \in Blocks, BlockStep(b), pc[b] \notin SolLabels,
         pipe[b] # <<>>, Head(pipe[b]).op = "n"
  PROVE  initial'[b] = grid[b] \/ Pending(b, "n")'
<1>1. pipe \in [Blocks -> Seq(Messages)] /\ pipe[b] \in Seq(Messages)
  BY DEF Types
<1>2. CASE pc[b] = "loop"
  BY <1>2, PuzzleTaken
<1>3. ASSUME pipe'[b] = pipe[b]
      PROVE  Pending(b, "n")'
  <2>1. Len(pipe[b]) \in Nat /\ Len(pipe[b]) >= 1 /\ Head(pipe[b]) = pipe[b][1]
    BY <1>1, Taking
  <2>2. 1 \in 1 .. Len(pipe[b]) /\ pipe[b][1].op = "n"
    BY <2>1
  <2>3. QED
    BY <1>3, <2>2 DEF Pending
<1>4. CASE pc[b] # "loop"
  <2>1. ~ TakeBoard(b) /\ ~ ShowSolution(b) /\ ~ TakePut(b) /\ ~ tryset(b) /\ ~ Reply(b) /\ ~ Ignore(b) /\ ~ Leave(b)
        /\ ~ readblock(b)
    BY <1>4 DEF TakeBoard, ShowSolution, TakePut, tryset, Reply, Ignore, Leave, readblock, Receive
  <2>2. CASE Message(b)
    BY <1>3, <2>2 DEF Message
  <2>3. ~ SolStep(b)
    BY OwnStepsOnly
  <2>6. CASE AskRow(b) \/ AskCol(b)
    <3>1. get_row_adj(b)[1] # b /\ get_row_adj(b)[2] # b /\ get_col_adj(b)[1] # b /\ get_col_adj(b)[2] # b
      BY NeighboursDiffer
    <3>2. pipe'[b] = pipe[b]
      BY <1>1, <2>6, <3>1 DEF AskRow, AskCol, Ask
    <3>3. QED
      BY <1>3, <3>2
  <2>7. CASE TakeAnswers(b)
    <3>1. Unread(b) = pipe[b]
      BY DEF Unread, Answers
    <3>2. pipe' = [pipe EXCEPT ![b] = Unread(b)]
      BY <2>7 DEF TakeAnswers, Answer, LastAnswer, LastConflict, AnswerAt
    <3>3. QED
      BY <1>1, <1>3, <3>1, <3>2
  <2>8. QED
    BY <2>1, <2>2, <2>3, <2>6, <2>7 DEF BlockStep
<1>5. QED
  BY <1>2, <1>4

\* Commands are given and carried out one after the other.
LEMMA DrawInvPreserved ==
  Types /\ DrawInv /\ [Next]_vars => DrawInv'
<1>. SUFFICES ASSUME Types, DrawInv, [Next]_vars
              PROVE  DrawInv'
  OBVIOUS
<1>. DEFINE Own == user.program = "own" =>
                     \A b \in Blocks : pc[b] \notin SolLabels /\ (Pending(b, "n") \/ initial[b] = grid[b])
            OneKind == \A x, y \in Blocks : ~ (Pending(x, "n") /\ Pending(y, "s"))
            Target == sending.op \in {"n", "s"} => sending.next \in Blocks
<1>1. DrawInv = (Target /\ OneKind /\ Own)
  BY DEF DrawInv
<1>2. DrawInv' = (Target' /\ OneKind' /\ Own')
  BY DEF DrawInv
<1>3. CASE UNCHANGED vars
  BY <1>3 DEF DrawInv, Pending, vars, coordinator, boards
<1>4. ASSUME UNCHANGED <<user, pc, initial>>, Target',
             \A x \in Blocks : (Pending(x, "n")' <=> Pending(x, "n")) /\ (Pending(x, "s")' <=> Pending(x, "s")),
             grid' = grid
      PROVE  DrawInv'
  BY <1>1, <1>2, <1>4
<1>5. CASE NewGame
  <2>1. Target'
    BY <1>5 DEF NewGame, Blocks, N
  <2>2. \A x \in Blocks : Pending(x, "n")' /\ ~ Pending(x, "s")'
    BY <1>5, PendingOfCoordinator
  <2>3. UNCHANGED <<user, pc>>
    BY <1>5 DEF NewGame
  <2>4. QED
    BY <1>1, <1>2, <2>1, <2>2, <2>3
<1>6. CASE Solution
  <2>1. Target'
    BY <1>6 DEF Solution, Blocks, N
  <2>2. \A x \in Blocks : Pending(x, "s")' /\ ~ Pending(x, "n")' /\ ~ Pending(x, "n")
    BY <1>6, PendingOfCoordinator, DrawnMeansNothingPending DEF Solution, Command, Ready
  <2>3. UNCHANGED <<user, pc, initial, grid>>
    BY <1>6 DEF Solution, boards
  <2>4. QED
    BY <1>1, <1>2, <2>1, <2>2, <2>3
<1>7. CASE Quit
  <2>1. Target' /\ UNCHANGED <<user, pc, initial, grid>>
    BY <1>7 DEF Quit, Blocks, N, boards
  <2>2. \A x \in Blocks : ~ Pending(x, "s")' /\ ~ Pending(x, "n")' /\ ~ Pending(x, "n") /\ ~ Pending(x, "s")
    BY <1>7, PendingOfCoordinator, DrawnMeansNothingPending DEF Quit, Ready
  <2>3. QED
    BY <1>4, <2>1, <2>2
<1>8. CASE Send
  <2>1. UNCHANGED <<user, pc, initial, grid>>
    BY <1>8 DEF Send, boards
  <2>2. Target'
    <3>1. PICK k \in 0 .. 8 : k = sending.next
      BY <1>8 DEF Send, Blocks, N
    <3>2. sending' = IF k < 8 \/ sending.op = "q" THEN [sending EXCEPT !.next = k + 1] ELSE Prompt
      BY <1>8, <3>1 DEF Send, N
    <3>3. [sending EXCEPT !.next = k + 1] = [op |-> sending.op, next |-> k + 1]
      BY DEF Types
    <3>4. sending'.op \in {"n", "s"} => k < 8 /\ sending' = [op |-> sending.op, next |-> k + 1]
      BY <3>2, <3>3 DEF Prompt
    <3>5. k < 8 => k + 1 \in 0 .. 8
      OBVIOUS
    <3>6. QED
      BY <3>4, <3>5 DEF Blocks, N
  <2>3. \A x \in Blocks : Pending(x, "n")' = Pending(x, "n") /\ Pending(x, "s")' = Pending(x, "s")
    BY <1>8, PendingOfCoordinator
  <2>4. QED
    BY <1>4, <2>1, <2>2, <2>3
<1>9. ASSUME NEW move \in user.moves, Put(move[1], move[2], move[3])
      PROVE  DrawInv'
  <2>1. move[1] \in Blocks /\ move[2] \in Cells /\ move[3] \in Values
    BY UserAssumption DEF Types
  <2>2. Target' /\ UNCHANGED <<user, pc, initial, grid>>
    BY <1>1, <1>9 DEF Put, boards
  <2>3. \A x \in Blocks : ~ Pending(x, "s")' /\ ~ Pending(x, "n")' /\ ~ Pending(x, "n") /\ ~ Pending(x, "s")
    BY <1>9, <2>1, PendingOfCoordinator, DrawnMeansNothingPending DEF Put, Command, Ready
  <2>4. QED
    BY <1>4, <2>2, <2>3
<1>10. ASSUME NEW b \in Blocks, BlockStep(b)
       PROVE  DrawInv'
  <2>1. /\ UNCHANGED <<user, grid, sending>>
        /\ \A x \in Blocks : x # b => pc'[x] = pc[x] /\ initial'[x] = initial[x]
    BY <1>10, PipeShapes
  <2>2. Target'
    BY <1>1, <2>1
  <2>3. \A x \in Blocks : (Pending(x, "n")' => Pending(x, "n")) /\ (Pending(x, "s")' => Pending(x, "s"))
    BY <1>10, PendingUntilTaken
  <2>4. OneKind'
    BY <1>1, <2>3
  <2>5. ASSUME user.program = "own", NEW x \in Blocks
        PROVE  pc'[x] \notin SolLabels /\ (Pending(x, "n")' \/ initial'[x] = grid'[x])
    <3>1. pc[x] \notin SolLabels /\ (Pending(x, "n") \/ initial[x] = grid[x])
      BY <1>1, <2>5
    <3>2. CASE x # b
      BY <1>10, <2>1, <3>1, <3>2, PendingUntilTaken
    <3>3. CASE x = b
      <4>1. pc'[b] \notin SolLabels
        BY <1>10, <2>5, <3>1, <3>3, OwnLabels
      <4>2. CASE initial[b] = grid[b]
        BY <1>10, <2>1, <2>5, <3>3, <4>1, <4>2, PuzzleTaken
      <4>3. CASE Pending(b, "n") /\ ~ Pending(b, "n")'
        BY <1>10, <2>1, <2>5, <3>1, <3>3, <4>1, <4>3, PendingUntilTaken, NewBoardTaken
      <4>4. QED
        BY <3>1, <3>3, <4>1, <4>2, <4>3
    <3>4. QED
      BY <3>2, <3>3
  <2>6. Own'
    BY <2>1, <2>5
  <2>7. QED
    BY <1>2, <2>2, <2>4, <2>6
<1>11. CASE GameOver
  BY <1>3, <1>11 DEF GameOver
<1>12. QED
  BY <1>3, <1>5, <1>6, <1>7, <1>8, <1>9, <1>10, <1>11 DEF Next

\* At the start the first board is under way to all.
LEMMA InitDraw == Init => DrawInv
<1>. SUFFICES ASSUME Init PROVE DrawInv
  OBVIOUS
<1>1. sending.op = "n" /\ sending.next = 0 /\ \A b \in Blocks : pipe[b] = <<>> /\ pc[b] = "loop"
  BY DEF Init
<1>2. \A b \in Blocks : Pending(b, "n")
  BY <1>1 DEF Pending, Blocks, N
<1>3. \A b \in Blocks : ~ Pending(b, "s")
  BY <1>1, EmptySeq DEF Pending
<1>4. QED
  BY <1>1, <1>2, <1>3 DEF DrawInv, SolLabels, Blocks, N

-----------------------------------------------------------------------------
(* The boards of the blocks.                                                 *)

\* A block holds no digit twice and the puzzle it was given; and the digit it asks
\* about is not in its block, except where it is to be put.
Proper(b) ==
  /\ IsInjective(current[b])
  /\ \A c \in DOMAIN initial[b] : c \in DOMAIN current[b] /\ current[b][c] = initial[b][c]
  /\ pc[b] \in Asking => /\ put[b].cell \notin DOMAIN initial[b]
                         /\ \A c \in DOMAIN current[b] : c # put[b].cell => current[b][c] # put[b].value

\* A digit that is not in the block goes where the puzzle has none.
LEMMA ProperDigit ==
  ASSUME NEW g, NEW given, NEW p \in [cell : Cells, value : Values], IsGrid(g), IsInjective(g),
         \A c \in DOMAIN given : c \in DOMAIN g /\ g[c] = given[c],
         p.cell \notin DOMAIN given, \A c \in DOMAIN g : c # p.cell => g[c] # p.value
  PROVE  /\ IsInjective(WithDigit(g, p))
         /\ \A c \in DOMAIN given : c \in DOMAIN WithDigit(g, p) /\ WithDigit(g, p)[c] = given[c]
<1>1. /\ DOMAIN WithDigit(g, p) = DOMAIN g \cup {p.cell} /\ WithDigit(g, p)[p.cell] = p.value
      /\ \A c \in DOMAIN g : c # p.cell => WithDigit(g, p)[c] = g[c]
  BY DigitTypes
<1>2. \A c, d \in DOMAIN g : g[c] = g[d] => c = d
  BY DEF IsInjective
<1>3. IsInjective(WithDigit(g, p))
  BY <1>1, <1>2 DEF IsInjective
<1>4. QED
  BY <1>1, <1>3

\* A block that asks about the digit it was to put goes on about the same digit.
LEMMA AskingGoesOn ==
  ASSUME Types, NEW b \in Blocks,
         TakeAnswers(b) \/ AskRow(b) \/ AskCol(b) \/ AskOne(b) \/ ReadOne(b) \/ PlaceDigit(b) \/ ColumnConflict(b)
  PROVE  /\ pc[b] \in Asking /\ UNCHANGED initial
         /\ pc'[b] \in Asking => put'[b] = put[b] /\ current' = current
<1>1. pc \in [Blocks -> Labels]
  BY DEF Types
<1>2. \A l : Goto(b, l) => pc'[b] = l
  BY <1>1 DEF Goto
<1>3. \A k \in 1 .. 4 : Asks[k] \in Asking /\ Reads[k] \in Asking
  BY DEF Asks, Reads, Asking
<1>4. ASSUME LastAnswer(b) \/ PlaceDigit(b)
      PROVE  pc'[b] \notin Asking
  BY <1>2, <1>4 DEF LastAnswer, PlaceDigit, Return, Asking
<1>5. UNCHANGED initial
  BY DEF TakeAnswers, AskRow, AskCol, Ask, AskOne, ReadOne, Answer, LastAnswer, LastConflict, PlaceDigit,
         ColumnConflict, boards
<1>6. ~ LastAnswer(b) /\ ~ PlaceDigit(b) => put' = put /\ current' = current
  BY DEF TakeAnswers, AskRow, AskCol, Ask, AskOne, ReadOne, Answer, LastConflict, ColumnConflict, boards
<1>7. pc[b] \in Asking
  <2>1. CASE AskOne(b) \/ ReadOne(b)
    BY <1>3, <2>1 DEF AskOne, ReadOne, Ask, Answer, AnswerAt
  <2>2. CASE TakeAnswers(b) \/ AskRow(b) \/ AskCol(b) \/ PlaceDigit(b) \/ ColumnConflict(b)
    BY <2>2 DEF TakeAnswers, AskRow, AskCol, Ask, Answer, LastAnswer, LastConflict, AnswerAt, PlaceDigit,
                ColumnConflict, Asking
  <2>3. QED
    BY <2>1, <2>2
<1>8. QED
  BY <1>4, <1>5, <1>6, <1>7

\* The steps of a block leave its board proper.
LEMMA ProperBlock ==
  ASSUME Types, DrawInv, NEW b \in Blocks, BlockStep(b), Proper(b)
  PROVE  Proper(b)'
<1>1. /\ pc \in [Blocks -> Labels] /\ DOMAIN initial = Blocks /\ DOMAIN current = Blocks /\ grid \in Puzzles
      /\ IsGrid(current[b]) /\ put \in [Blocks -> [cell : Cells, value : Values]]
      /\ pipe[b] \in Seq(Messages)
  BY DEF Types
<1>2. \A l : Goto(b, l) => pc'[b] = l
  BY <1>1 DEF Goto
<1>3. IsInjective(grid[b]) /\ IsInjective(SolutionOf[grid][b])
  BY <1>1, PuzzleFacts
<1>4. ASSUME initial'[b] = initial[b], current'[b] = current[b],
             pc'[b] \in Asking => put'[b] = put[b] /\ pc[b] \in Asking
      PROVE  Proper(b)'
  BY <1>4 DEF Proper
<1>5. CASE TakeBoard(b) \/ readblock(b)
  <2>1. pc'[b] = "loop" /\ initial'[b] = current'[b] /\ current'[b] \in {grid[b], SolutionOf[grid][b]}
    BY <1>1, <1>5 DEF TakeBoard, readblock, Receive
  <2>2. QED
    BY <1>3, <2>1 DEF Proper, Asking
<1>6. CASE ShowSolution(b)
  <2>1. pipe[b] # <<>> /\ Head(pipe[b]).op = "s" /\ user.program = "own" /\ pc[b] = "loop"
    BY <1>6 DEF ShowSolution, Receive
  <2>2. 1 \in 1 .. Len(pipe[b]) /\ pipe[b][1].op = "s"
    <3>1. Len(pipe[b]) \in Nat /\ Len(pipe[b]) >= 1 /\ Head(pipe[b]) = pipe[b][1]
      BY <1>1, <2>1, Taking
    <3>2. QED
      BY <2>1, <3>1
  <2>3. Pending(b, "s")
    BY <2>2 DEF Pending
  <2>4. initial[b] = grid[b]
    BY <2>1, <2>3 DEF DrawInv
  <2>5. initial'[b] = initial[b] /\ current'[b] = current[b] /\ pc'[b] = "loop"
    BY <1>1, <1>6, <2>1, <2>4 DEF ShowSolution
  <2>6. QED
    BY <1>4, <2>5 DEF Asking
<1>7. CASE TakePut(b) \/ tryset(b)
  <2>1. PICK p : p = Head(pipe[b])
    OBVIOUS
  <2>2. /\ p.op = "p" /\ p.cell \in Cells /\ p.value \in Values
        /\ put' = [put EXCEPT ![b] = [cell |-> p.cell, value |-> p.value]] /\ UNCHANGED <<initial, current>>
    <3>1. pipe[b] # <<>> /\ p.op = "p"
      BY <1>7, <2>1 DEF TakePut, tryset, Receive
    <3>2. p \in Messages
      BY <1>1, <2>1, <3>1, Taking
    <3>3. p.cell \in Cells /\ p.value \in Values
      BY <3>1, <3>2, MessageKinds
    <3>4. QED
      BY <1>7, <2>1, <3>1, <3>3 DEF TakePut, tryset, boards
  <2>3. put'[b].cell = p.cell /\ put'[b].value = p.value
    BY <1>1, <2>2
  <2>4. CASE TakePut(b) /\ ~ Refused(b, p.cell, p.value)
    BY <2>2, <2>3, <2>4 DEF Proper, Refused, Range
  <2>5. CASE tryset(b) /\ ~ \/ p.cell \in DOMAIN initial[b]
                            \/ \E c \in DOMAIN current[b] \ {p.cell} : current[b][c] = p.value
    BY <2>2, <2>3, <2>5 DEF Proper
  <2>6. CASE \/ TakePut(b) /\ Refused(b, p.cell, p.value)
             \/ tryset(b) /\ \/ p.cell \in DOMAIN initial[b]
                             \/ \E c \in DOMAIN current[b] \ {p.cell} : current[b][c] = p.value
    <3>1. Goto(b, "message")
      BY <2>1, <2>6 DEF TakePut, tryset
    <3>2. pc'[b] = "message"
      BY <1>2, <3>1
    <3>3. QED
      BY <1>4, <2>2, <3>2 DEF Asking
  <2>7. QED
    BY <1>7, <2>4, <2>5, <2>6
<1>8. CASE Message(b) \/ Leave(b)
  <2>1. pc'[b] \in {"loop", "gone"} /\ UNCHANGED <<initial, current>>
    BY <1>2, <1>8 DEF Message, Leave, Return, boards
  <2>2. QED
    BY <1>4, <2>1 DEF Asking
<1>9. CASE Reply(b) \/ Ignore(b)
  BY <1>4, <1>9 DEF Reply, Ignore, boards
<1>10. CASE LastAnswer(b) \/ PlaceDigit(b)
  <2>1. /\ pc[b] \in Asking
        /\ initial' = initial
    BY <1>10, AskingGoesOn DEF TakeAnswers
  <2>2. pc'[b] = "loop"
    BY <1>2, <1>10 DEF LastAnswer, PlaceDigit, Return
  <2>3. current'[b] = WithDigit(current[b], put[b])
    BY <1>1, <1>10 DEF LastAnswer, PlaceDigit
  <2>4. /\ IsInjective(WithDigit(current[b], put[b]))
        /\ \A c \in DOMAIN initial[b] : /\ c \in DOMAIN WithDigit(current[b], put[b])
                                        /\ WithDigit(current[b], put[b])[c] = initial[b][c]
    BY <1>1, <2>1, ProperDigit DEF Proper
  <2>5. QED
    BY <2>1, <2>2, <2>3, <2>4 DEF Proper, Asking
<1>11. CASE ~ LastAnswer(b) /\ ~ PlaceDigit(b) /\ (TakeAnswers(b) \/ AskRow(b) \/ AskCol(b) \/ AskOne(b)
                                                   \/ ReadOne(b) \/ ColumnConflict(b))
  <2>1. pc[b] \in Asking /\ initial' = initial
    BY <1>11, AskingGoesOn
  <2>2. put' = put /\ current' = current
    BY <1>11 DEF TakeAnswers, AskRow, AskCol, Ask, AskOne, ReadOne, Answer, LastConflict, ColumnConflict, boards
  <2>3. QED
    BY <1>4, <2>1, <2>2
<1>12. QED
  BY <1>5, <1>6, <1>7, <1>8, <1>9, <1>10, <1>11 DEF BlockStep, SolStep, TakeAnswers

\* The boards and the commands on the way to them stay as they should be.
LEMMA IntactAlways == Spec => [](DrawInv /\ \A b \in Blocks : Proper(b))
<1>1. Init => \A b \in Blocks : Proper(b)
  <2>1. SUFFICES ASSUME Init, NEW b \in Blocks PROVE Proper(b)
    OBVIOUS
  <2>2. initial[b] = Empty /\ current[b] = Empty /\ pc[b] = "loop" /\ DOMAIN Empty = {}
    BY <2>1 DEF Init, Empty
  <2>3. QED
    BY <2>2 DEF Proper, IsInjective, Asking
<1>2. Types /\ DrawInv /\ (\A b \in Blocks : Proper(b)) /\ [Next]_vars => (\A b \in Blocks : Proper(b))'
  <2>1. SUFFICES ASSUME Types, DrawInv, \A b \in Blocks : Proper(b), [Next]_vars, NEW x \in Blocks
                 PROVE  Proper(x)'
    OBVIOUS
  <2>2. ASSUME NEW b \in Blocks, BlockStep(b)
        PROVE  Proper(x)'
    <3>1. CASE x = b
      BY <2>1, <2>2, <3>1, ProperBlock
    <3>2. CASE x # b
      <4>1. pc'[x] = pc[x] /\ put'[x] = put[x] /\ initial'[x] = initial[x] /\ current'[x] = current[x]
        BY <2>1, <2>2, <3>2, PipeShapes
      <4>2. Proper(x)
        BY <2>1
      <4>3. QED
        BY <4>1, <4>2 DEF Proper
    <3>3. QED
      BY <3>1, <3>2
  <2>3. CASE UNCHANGED <<boards, pc, put>>
    <3>1. Proper(x)
      BY <2>1
    <3>2. QED
      BY <2>3, <3>1 DEF Proper, boards
  <2>4. CASE NewGame \/ Solution \/ Quit \/ Send \/ GameOver \/ \E move \in user.moves : Put(move[1], move[2], move[3])
    BY <2>3, <2>4 DEF NewGame, Solution, Quit, Send, GameOver, Put, vars
  <2>5. QED
    BY <2>1, <2>2, <2>3, <2>4 DEF Next, vars
<1>3. QED
  BY <1>1, <1>2, TypesAlways, InitDraw, DrawInvPreserved, PTL DEF Spec

\* However hasty the user is and whichever program is played, a block never holds
\* a digit twice, and the digits of the puzzle stay where they are: a digit that
\* was checked against its block is still not in it when the last answer comes
\* (block.c l. 180-188, 235).
THEOREM BlocksStayIntact == Spec => []BlocksIntact
<1>1. (\A b \in Blocks : Proper(b)) => BlocksIntact
  BY DEF Proper, BlocksIntact
<1>2. QED
  BY <1>1, IntactAlways, PTL

-----------------------------------------------------------------------------
(* Answers that are owed to a block.                                         *)

\* A message in the pipe of block to that is an answer to b, or b's question.
Owed(b, to, q) == \/ to = b /\ q.op \in Answers
                  \/ q.op \in {"r", "c"} /\ q.from = b

\* The places of the pipes where such a message is.
UnderIn(pipes, b) ==
  UNION {{<<to, i>> : i \in {j \in DOMAIN pipes[to] : Owed(b, to, pipes[to][j])}} : to \in Blocks}

\* What it is to be one of these places.
LEMMA InUnder ==
  ASSUME NEW p \in [Blocks -> Seq(Messages)], NEW b \in Blocks
  PROVE  /\ \A to \in Blocks : \A i \in 1 .. Len(p[to]) : Owed(b, to, p[to][i]) => <<to, i>> \in UnderIn(p, b)
         /\ \A z \in UnderIn(p, b) : \E to \in Blocks : \E i \in 1 .. Len(p[to]) :
              z = <<to, i>> /\ Owed(b, to, p[to][i])
<1>1. \A to \in Blocks : DOMAIN p[to] = 1 .. Len(p[to])
  OBVIOUS
<1>2. ASSUME NEW to \in Blocks, NEW i \in 1 .. Len(p[to]), Owed(b, to, p[to][i])
      PROVE  <<to, i>> \in UnderIn(p, b)
  <2>1. <<to, i>> \in {<<to, k>> : k \in {j \in DOMAIN p[to] : Owed(b, to, p[to][j])}}
    BY <1>1, <1>2
  <2>2. QED
    BY <2>1 DEF UnderIn
<1>3. ASSUME NEW z \in UnderIn(p, b)
      PROVE  \E to \in Blocks : \E i \in 1 .. Len(p[to]) : z = <<to, i>> /\ Owed(b, to, p[to][i])
  <2>1. PICK to \in Blocks : z \in {<<to, i>> : i \in {j \in DOMAIN p[to] : Owed(b, to, p[to][j])}}
    BY <1>3 DEF UnderIn
  <2>2. QED
    BY <1>1, <2>1
<1>4. QED
  BY <1>2, <1>3

\* There are finitely many of them.
LEMMA UnderFinite ==
  ASSUME NEW p \in [Blocks -> Seq(Messages)], NEW b \in Blocks
  PROVE  IsFiniteSet(UnderIn(p, b)) /\ Cardinality(UnderIn(p, b)) \in Nat
<1>. DEFINE At(to) == {<<to, i>> : i \in {j \in DOMAIN p[to] : Owed(b, to, p[to][j])}}
<1>1. ASSUME NEW to \in Blocks
      PROVE  IsFiniteSet(At(to))
  <2>1. DOMAIN p[to] = 1 .. Len(p[to]) /\ Len(p[to]) \in Int
    OBVIOUS
  <2>2. IsFiniteSet(1 .. Len(p[to]))
    BY <2>1, FS_Interval
  <2>3. IsFiniteSet({j \in DOMAIN p[to] : Owed(b, to, p[to][j])})
    <3>1. {j \in DOMAIN p[to] : Owed(b, to, p[to][j])} \in SUBSET (1 .. Len(p[to]))
      BY <2>1
    <3>2. QED
      BY <2>2, <3>1, FS_Subset
  <2>4. PICK I : I = {j \in DOMAIN p[to] : Owed(b, to, p[to][j])}
    OBVIOUS
  <2>5. PICK f : f = [i \in I |-> <<to, i>>]
    OBVIOUS
  <2>6. f \in Surjection(I, At(to))
    <3>1. f \in [I -> At(to)]
      BY <2>4, <2>5
    <3>2. \A z \in At(to) : \E i \in I : f[i] = z
      BY <2>4, <2>5
    <3>3. QED
      BY <3>1, <3>2 DEF Surjection
  <2>7. QED
    BY <2>3, <2>4, <2>6, FS_Surjection
<1>. HIDE DEF At
<1>2. IsFiniteSet(Blocks)
  <2>1. Blocks = 0 .. 8 /\ 0 \in Int /\ 8 \in Int
    BY DEF Blocks, N
  <2>2. IsFiniteSet(0 .. 8)
    BY <2>1, FS_Interval
  <2>3. QED
    BY <2>1, <2>2
<1>3. IsFiniteSet({At(to) : to \in Blocks})
  <2>1. PICK f : f = [to \in Blocks |-> At(to)]
    OBVIOUS
  <2>2. f \in Surjection(Blocks, {At(to) : to \in Blocks})
    BY <2>1 DEF Surjection
  <2>3. QED
    BY <1>2, <2>2, FS_Surjection
<1>4. IsFiniteSet(UNION {At(to) : to \in Blocks})
  <2>1. \A T \in {At(to) : to \in Blocks} : IsFiniteSet(T)
    BY <1>1
  <2>2. QED
    BY <1>3, <2>1, FS_UNION
<1>5. UnderIn(p, b) = UNION {At(to) : to \in Blocks}
  BY DEF UnderIn, At
<1>6. QED
  BY <1>4, <1>5, FS_CardinalityType

\* A message that is written takes none of them away, and may be one more.
LEMMA UnderAppended ==
  ASSUME NEW p \in [Blocks -> Seq(Messages)], NEW b \in Blocks, NEW to \in Blocks, NEW q \in Messages
  PROVE  LET r == [p EXCEPT ![to] = Append(@, q)]
         IN  /\ Cardinality(UnderIn(r, b)) >= Cardinality(UnderIn(p, b))
             /\ Owed(b, to, q) => Cardinality(UnderIn(r, b)) >= Cardinality(UnderIn(p, b)) + 1
<1>1. PICK r \in [Blocks -> Seq(Messages)] : r = [p EXCEPT ![to] = Append(@, q)]
  BY PipeTypes
<1>2. \A x \in Blocks : r[x] = IF x = to THEN Append(p[x], q) ELSE p[x]
  BY <1>1
<1>3. /\ Len(r[to]) = Len(p[to]) + 1 /\ r[to][Len(p[to]) + 1] = q /\ Len(p[to]) \in Nat
      /\ \A i \in 1 .. Len(p[to]) : r[to][i] = p[to][i]
  <2>1. r[to] = Append(p[to], q) /\ p[to] \in Seq(Messages)
    BY <1>2
  <2>2. QED
    BY <2>1, Writing
<1>4. UnderIn(p, b) \subseteq UnderIn(r, b)
  <2>1. SUFFICES ASSUME NEW z \in UnderIn(p, b) PROVE z \in UnderIn(r, b)
    OBVIOUS
  <2>2. PICK x, i : x \in Blocks /\ z = <<x, i>> /\ i \in 1 .. Len(p[x]) /\ Owed(b, x, p[x][i])
    BY InUnder
  <2>3. i \in 1 .. Len(r[x]) /\ r[x][i] = p[x][i]
    <3>1. CASE x = to
      BY <1>3, <2>2, <3>1
    <3>2. CASE x # to
      BY <1>2, <2>2, <3>2
    <3>3. QED
      BY <3>1, <3>2
  <2>4. QED
    BY <2>2, <2>3, InUnder
<1>5. IsFiniteSet(UnderIn(r, b)) /\ Cardinality(UnderIn(r, b)) \in Nat
      /\ IsFiniteSet(UnderIn(p, b)) /\ Cardinality(UnderIn(p, b)) \in Nat
  BY UnderFinite
<1>6. Cardinality(UnderIn(r, b)) >= Cardinality(UnderIn(p, b))
  BY <1>4, <1>5, FS_Subset
<1>7. ASSUME Owed(b, to, q)
      PROVE  Cardinality(UnderIn(r, b)) >= Cardinality(UnderIn(p, b)) + 1
  <2>1. PICK z : z = <<to, Len(p[to]) + 1>>
    OBVIOUS
  <2>2. Len(p[to]) + 1 \in 1 .. Len(r[to])
    BY <1>3
  <2>3. z \in UnderIn(r, b)
    BY <1>3, <1>7, <2>1, <2>2, InUnder
  <2>4. z \notin UnderIn(p, b)
    <3>1. SUFFICES ASSUME z \in UnderIn(p, b) PROVE FALSE
      OBVIOUS
    <3>2. PICK x, i : x \in Blocks /\ z = <<x, i>> /\ i \in 1 .. Len(p[x])
      BY <3>1, InUnder
    <3>3. x = to /\ i = Len(p[to]) + 1
      BY <2>1, <3>2
    <3>4. QED
      BY <1>3, <3>2, <3>3
  <2>5. Cardinality(UnderIn(r, b) \ {z}) = Cardinality(UnderIn(r, b)) - 1 /\ IsFiniteSet(UnderIn(r, b) \ {z})
    BY <1>5, <2>3, FS_RemoveElement
  <2>6. UnderIn(p, b) \in SUBSET (UnderIn(r, b) \ {z})
    BY <1>4, <2>4
  <2>7. Cardinality(UnderIn(p, b)) <= Cardinality(UnderIn(r, b) \ {z})
    BY <2>5, <2>6, FS_Subset
  <2>8. QED
    BY <1>5, <2>5, <2>7
<1>8. QED
  BY <1>1, <1>6, <1>7

\* When a message is taken, that one may be missing, but no other.
LEMMA UnderTaken ==
  ASSUME NEW p \in [Blocks -> Seq(Messages)], NEW b \in Blocks, NEW x \in Blocks, p[x] # <<>>
  PROVE  LET r == [p EXCEPT ![x] = Tail(@)]
         IN  /\ Cardinality(UnderIn(r, b)) >= Cardinality(UnderIn(p, b)) - 1
             /\ ~ Owed(b, x, Head(p[x])) => Cardinality(UnderIn(r, b)) >= Cardinality(UnderIn(p, b))
<1>1. PICK r \in [Blocks -> Seq(Messages)] : r = [p EXCEPT ![x] = Tail(@)]
  BY PipeTypes
<1>2. \A y \in Blocks : r[y] = IF y = x THEN Tail(p[y]) ELSE p[y]
  BY <1>1
<1>3. /\ Len(p[x]) \in Nat /\ Len(p[x]) >= 1 /\ Head(p[x]) = p[x][1]
      /\ Len(r[x]) = Len(p[x]) - 1 /\ \A i \in 1 .. Len(p[x]) - 1 : r[x][i] = p[x][i + 1]
  <2>1. r[x] = Tail(p[x]) /\ p[x] \in Seq(Messages)
    BY <1>2
  <2>2. QED
    BY <2>1, Taking
<1>4. IsFiniteSet(UnderIn(r, b)) /\ Cardinality(UnderIn(r, b)) \in Nat
      /\ IsFiniteSet(UnderIn(p, b)) /\ Cardinality(UnderIn(p, b)) \in Nat
  BY UnderFinite
<1>5. PICK z : z = <<x, 1>>
  OBVIOUS
<1>6. PICK S : S = UnderIn(p, b) \ {z}
  OBVIOUS
<1>7. \A w \in S : \E y \in Blocks : \E i \in 1 .. Len(p[y]) : /\ w = <<y, i>> /\ Owed(b, y, p[y][i])
                                                               /\ y = x => i # 1
  <2>1. SUFFICES ASSUME NEW w \in S
                 PROVE  \E y \in Blocks : \E i \in 1 .. Len(p[y]) : /\ w = <<y, i>> /\ Owed(b, y, p[y][i])
                                                                    /\ y = x => i # 1
    OBVIOUS
  <2>2. PICK y, i : y \in Blocks /\ w = <<y, i>> /\ i \in 1 .. Len(p[y]) /\ Owed(b, y, p[y][i])
    BY <1>6, InUnder
  <2>3. y = x => i # 1
    BY <1>5, <1>6, <2>2
  <2>4. QED
    BY <2>2, <2>3
<1>8. PICK f : f = [w \in S |-> IF w[1] = x THEN <<x, w[2] - 1>> ELSE w]
  OBVIOUS
<1>9. \A w \in S : f[w] \in UnderIn(r, b)
  <2>1. SUFFICES ASSUME NEW w \in S PROVE f[w] \in UnderIn(r, b)
    OBVIOUS
  <2>2. PICK y, i : /\ y \in Blocks /\ w = <<y, i>> /\ i \in 1 .. Len(p[y]) /\ Owed(b, y, p[y][i])
                    /\ y = x => i # 1
    BY <1>7
  <2>3. CASE y # x
    <3>1. f[w] = <<y, i>>
      BY <1>8, <2>2, <2>3
    <3>2. r[y] = p[y]
      BY <1>2, <2>2, <2>3
    <3>3. i \in 1 .. Len(r[y]) /\ Owed(b, y, r[y][i])
      BY <2>2, <3>2
    <3>4. <<y, i>> \in UnderIn(r, b)
      BY <2>2, <3>3, InUnder
    <3>5. QED
      BY <3>1, <3>4
  <2>4. CASE y = x
    <3>1. f[w] = <<x, i - 1>>
      BY <1>8, <2>2, <2>4
    <3>2. i - 1 \in 1 .. Len(p[x]) - 1 /\ (i - 1) + 1 = i
      BY <1>3, <2>2, <2>4
    <3>3. r[x][i - 1] = p[x][i]
      BY <1>3, <3>2
    <3>4. i - 1 \in 1 .. Len(r[x]) /\ Owed(b, x, r[x][i - 1])
      BY <1>3, <2>2, <2>4, <3>2, <3>3
    <3>5. <<x, i - 1>> \in UnderIn(r, b)
      BY <3>4, InUnder
    <3>6. QED
      BY <3>1, <3>5
  <2>5. QED
    BY <2>3, <2>4
<1>10. \A w, v \in S : f[w] = f[v] => w = v
  <2>1. SUFFICES ASSUME NEW w \in S, NEW v \in S, f[w] = f[v] PROVE w = v
    OBVIOUS
  <2>2. PICK y, i : y \in Blocks /\ w = <<y, i>> /\ i \in 1 .. Len(p[y])
    BY <1>7
  <2>3. PICK u, j : u \in Blocks /\ v = <<u, j>> /\ j \in 1 .. Len(p[u])
    BY <1>7
  <2>4. f[w] = (IF y = x THEN <<x, i - 1>> ELSE <<y, i>>) /\ f[v] = (IF u = x THEN <<x, j - 1>> ELSE <<u, j>>)
    BY <1>8, <2>2, <2>3
  <2>5. i \in Int /\ j \in Int
    BY <2>2, <2>3
  <2>6. y = u /\ i = j
    <3>1. CASE y = x /\ u = x
      <4>1. <<x, i - 1>> = <<x, j - 1>>
        BY <2>1, <2>4, <3>1
      <4>2. i - 1 = j - 1
        BY <4>1
      <4>3. QED
        BY <2>5, <3>1, <4>2
    <3>2. CASE y # x /\ u # x
      <4>1. <<y, i>> = <<u, j>>
        BY <2>1, <2>4, <3>2
      <4>2. QED
        BY <4>1
    <3>3. CASE y = x /\ u # x
      <4>1. <<x, i - 1>> = <<u, j>>
        BY <2>1, <2>4, <3>3
      <4>2. QED
        BY <3>3, <4>1
    <3>4. CASE y # x /\ u = x
      <4>1. <<y, i>> = <<x, j - 1>>
        BY <2>1, <2>4, <3>4
      <4>2. QED
        BY <3>4, <4>1
    <3>5. QED
      BY <3>1, <3>2, <3>3, <3>4
  <2>7. QED
    BY <2>2, <2>3, <2>6
<1>11. f \in Injection(S, UnderIn(r, b))
  <2>1. f \in [S -> UnderIn(r, b)] /\ DOMAIN f = S
    BY <1>8, <1>9
  <2>2. QED
    BY <1>10, <2>1 DEF Injection, IsInjective
<1>12. Cardinality(S) <= Cardinality(UnderIn(r, b)) /\ IsFiniteSet(S)
  BY <1>4, <1>11, FS_Injection
<1>13. Cardinality(S) = IF z \in UnderIn(p, b) THEN Cardinality(UnderIn(p, b)) - 1 ELSE Cardinality(UnderIn(p, b))
  BY <1>4, <1>6, FS_RemoveElement
<1>14. ~ Owed(b, x, Head(p[x])) => z \notin UnderIn(p, b)
  <2>1. SUFFICES ASSUME z \in UnderIn(p, b) PROVE Owed(b, x, Head(p[x]))
    OBVIOUS
  <2>2. PICK y, i : y \in Blocks /\ z = <<y, i>> /\ i \in 1 .. Len(p[y]) /\ Owed(b, y, p[y][i])
    BY <2>1, InUnder
  <2>3. y = x /\ i = 1
    BY <1>5, <2>2
  <2>4. QED
    BY <1>3, <2>2, <2>3
<1>15. QED
  BY <1>1, <1>4, <1>12, <1>13, <1>14

\* What a block does to the answers that are owed to one.
LEMMA UnderOfBlock ==
  ASSUME Types, NEW x \in Blocks, NEW b \in Blocks
  PROVE  /\ pipe' = pipe => Cardinality(UnderIn(pipe', b)) >= Cardinality(UnderIn(pipe, b))
         /\ Wonders(x) => /\ Cardinality(UnderIn(pipe', b)) >= Cardinality(UnderIn(pipe, b))
                          /\ x = b => Cardinality(UnderIn(pipe', b)) >= Cardinality(UnderIn(pipe, b)) + 1
         /\ Takes(x) => /\ Cardinality(UnderIn(pipe', b)) >= Cardinality(UnderIn(pipe, b)) - 1
                        /\ ~ Owed(b, x, Head(pipe[x])) =>
                             Cardinality(UnderIn(pipe', b)) >= Cardinality(UnderIn(pipe, b))
         /\ Responds(x) => Cardinality(UnderIn(pipe', b)) >= Cardinality(UnderIn(pipe, b))
         /\ Cardinality(UnderIn(pipe, b)) \in Nat
<1>1. pipe \in [Blocks -> Seq(Messages)]
  BY DEF Types
<1>2. Cardinality(UnderIn(pipe, b)) \in Nat
  BY <1>1, UnderFinite
<1>3. pipe' = pipe => Cardinality(UnderIn(pipe', b)) >= Cardinality(UnderIn(pipe, b))
  BY <1>2
<1>4. ASSUME Wonders(x)
      PROVE  /\ Cardinality(UnderIn(pipe', b)) >= Cardinality(UnderIn(pipe, b))
             /\ x = b => Cardinality(UnderIn(pipe', b)) >= Cardinality(UnderIn(pipe, b)) + 1
  <2>1. PICK to \in Blocks, q \in Questions : q.from = x /\ pipe' = [pipe EXCEPT ![to] = Append(@, q)]
    BY <1>4 DEF Wonders
  <2>2. q \in Messages /\ (x = b => Owed(b, to, q))
    BY <2>1, QuestionFields DEF Messages, Owed
  <2>3. QED
    BY <1>1, <2>1, <2>2, UnderAppended
<1>5. ASSUME Takes(x)
      PROVE  /\ Cardinality(UnderIn(pipe', b)) >= Cardinality(UnderIn(pipe, b)) - 1
             /\ ~ Owed(b, x, Head(pipe[x])) => Cardinality(UnderIn(pipe', b)) >= Cardinality(UnderIn(pipe, b))
  BY <1>1, <1>5, UnderTaken DEF Takes
<1>6. ASSUME Responds(x)
      PROVE  Cardinality(UnderIn(pipe', b)) >= Cardinality(UnderIn(pipe, b))
  <2>1. PICK q \in Questions, a \in Messages, rest \in [Blocks -> Seq(Messages)] :
          /\ pc[x] = "loop" /\ pipe[x] # <<>> /\ Head(pipe[x]) = q
          /\ a = [op |-> IF has_conflict(x, q) THEN "1" ELSE "0"]
          /\ rest = [pipe EXCEPT ![x] = Tail(@)]
          /\ pipe' = [rest EXCEPT ![q.from] = Append(@, a)]
    BY <1>6 DEF Responds
  <2>2. q.from \in Blocks /\ q.op \in {"r", "c"} /\ a.op \in Answers
    BY <2>1, QuestionFields DEF Answers
  <2>3. Cardinality(UnderIn(rest, b)) \in Nat
    BY UnderFinite
  <2>4. CASE q.from = b
    <3>1. Owed(b, q.from, a)
      BY <2>2, <2>4 DEF Owed
    <3>2. Cardinality(UnderIn(pipe', b)) >= Cardinality(UnderIn(rest, b)) + 1
      BY <2>1, <2>2, <3>1, UnderAppended
    <3>3. Cardinality(UnderIn(rest, b)) >= Cardinality(UnderIn(pipe, b)) - 1
      BY <1>1, <2>1, UnderTaken
    <3>4. Cardinality(UnderIn(pipe', b)) \in Nat
      <4>1. pipe' \in [Blocks -> Seq(Messages)]
        BY <2>1, <2>2, PipeTypes
      <4>2. QED
        BY <4>1, UnderFinite
    <3>5. QED
      BY <1>2, <2>3, <3>2, <3>3, <3>4
  <2>5. CASE q.from # b
    <3>1. ~ Owed(b, x, Head(pipe[x]))
      BY <2>1, <2>2, <2>5 DEF Owed, Answers
    <3>2. Cardinality(UnderIn(pipe', b)) >= Cardinality(UnderIn(rest, b))
      BY <2>1, <2>2, UnderAppended
    <3>3. Cardinality(UnderIn(rest, b)) >= Cardinality(UnderIn(pipe, b))
      BY <1>1, <2>1, <3>1, UnderTaken
    <3>4. Cardinality(UnderIn(pipe', b)) \in Nat
      <4>1. pipe' \in [Blocks -> Seq(Messages)]
        BY <2>1, <2>2, PipeTypes
      <4>2. QED
        BY <4>1, UnderFinite
    <3>5. QED
      BY <1>2, <2>3, <3>2, <3>3, <3>4
  <2>6. QED
    BY <2>4, <2>5
<1>7. QED
  BY <1>2, <1>3, <1>4, <1>5, <1>6

\* A block of block.c takes a question only to answer it, and while it waits only answers.
LEMMA OwnTakes ==
  ASSUME Types, user.program = "own", NEW b \in Blocks, BlockStep(b), pc[b] \notin SolLabels
  PROVE  \/ pipe' = pipe \/ Wonders(b) \/ Responds(b)
         \/ Takes(b) /\ Head(pipe[b]).op \notin {"r", "c"}
<1>1. pipe \in [Blocks -> Seq(Messages)]
  BY DEF Types
<1>2. ~ SolStep(b)
  BY OwnStepsOnly
<1>5. CASE TakeBoard(b) \/ ShowSolution(b) \/ TakePut(b) \/ readblock(b) \/ tryset(b) \/ Ignore(b) \/ Leave(b)
  BY <1>5 DEF TakeBoard, ShowSolution, TakePut, readblock, tryset, Ignore, Leave, Receive, Takes
<1>6. CASE Message(b)
  BY <1>6 DEF Message
<1>7. CASE TakeAnswers(b)
  <2>1. pipe[b] # <<>> /\ pipe' = [pipe EXCEPT ![b] = Unread(b)]
    BY <1>7 DEF TakeAnswers, Answer, LastAnswer, LastConflict, AnswerAt
  <2>2. CASE Head(pipe[b]).op \in Answers
    BY <2>1, <2>2 DEF Unread, Takes, Answers
  <2>3. CASE Head(pipe[b]).op \notin Answers
    BY <1>1, <2>1, <2>3 DEF Unread
  <2>4. QED
    BY <2>2, <2>3
<1>8. CASE Reply(b) \/ AskRow(b) \/ AskCol(b)
  BY <1>8, AsksOrReplies
<1>9. QED
  BY <1>2, <1>5, <1>6, <1>7, <1>8 DEF BlockStep

\* How many answers are owed to a block of block.c.
Needed(b) == IF pc[b] \in {"row_answer1", "col_answer1"} THEN 2
             ELSE IF pc[b] \in {"row2", "col2", "row_answer2", "col_answer2"} THEN 1 ELSE 0

\* As many answers are under way to a block of block.c as it still has to read.
WaitInv == user.program = "own" => \A b \in Blocks : Cardinality(UnderIn(pipe, b)) >= Needed(b)

\* A block's own steps keep its account.
LEMMA OwnAccount ==
  ASSUME Types, user.program = "own", NEW b \in Blocks, BlockStep(b), pc[b] \notin SolLabels,
         Cardinality(UnderIn(pipe, b)) >= Needed(b)
  PROVE  Cardinality(UnderIn(pipe', b)) >= Needed(b)'
<1>1. /\ pipe \in [Blocks -> Seq(Messages)] /\ pc \in [Blocks -> Labels]
      /\ Cardinality(UnderIn(pipe, b)) \in Nat
  BY UnderOfBlock DEF Types
<1>2. Cardinality(UnderIn(pipe', b)) \in Nat
  <2>1. Types'
    BY BlockStepTypes
  <2>2. pipe' \in [Blocks -> Seq(Messages)]
    BY <2>1 DEF Types
  <2>3. QED
    BY <2>2, UnderFinite
<1>3. \A l : Goto(b, l) => pc'[b] = l
  BY <1>1 DEF Goto
<1>4. ASSUME Needed(b)' = 0
      PROVE  Cardinality(UnderIn(pipe', b)) >= Needed(b)'
  BY <1>2, <1>4
<1>5. CASE TakeBoard(b) \/ ShowSolution(b) \/ Reply(b) \/ Ignore(b) \/ Leave(b) \/ Message(b) \/ TakePut(b)
           \/ LastAnswer(b) \/ LastConflict(b)
  <2>1. pc'[b] \in {"loop", "message", "row1", "gone"}
    BY <1>3, <1>5 DEF TakeBoard, ShowSolution, Reply, Ignore, Receive, Leave, Message, Return, TakePut, LastAnswer,
                      LastConflict
  <2>2. Needed(b)' = 0
    BY <2>1 DEF Needed
  <2>3. QED
    BY <1>4, <2>2, Zenon
<1>6. CASE AskRow(b) \/ AskCol(b)
  <2>1. /\ pc[b] \in {"row1", "row2", "col1", "col2"}
        /\ pc'[b] = CASE pc[b] = "row1" -> "row2" [] pc[b] = "row2" -> "row_answer1"
                      [] pc[b] = "col1" -> "col2" [] pc[b] = "col2" -> "col_answer1"
    BY <1>3, <1>6 DEF AskRow, AskCol, Ask
  <2>2. Needed(b)' <= Needed(b) + 1 /\ Needed(b)' \in Nat /\ Needed(b) \in Nat
    BY <2>1 DEF Needed
  <2>3. Wonders(b)
    BY <1>6, AsksOrReplies
  <2>4. Cardinality(UnderIn(pipe', b)) >= Cardinality(UnderIn(pipe, b)) + 1
    BY <2>3, UnderOfBlock
  <2>5. QED
    BY <1>1, <1>2, <2>2, <2>4
<1>7. ASSUME Answer(b, "row_answer1", "row_answer2") \/ Answer(b, "row_answer2", "col1")
             \/ Answer(b, "col_answer1", "col_answer2")
      PROVE  Cardinality(UnderIn(pipe', b)) >= Needed(b)'
  <2>1. Needed(b)' <= Needed(b) - 1 /\ Needed(b)' \in Nat /\ Needed(b) \in Nat
    <3>1. \/ pc[b] = "row_answer1" /\ pc'[b] \in {"row_answer2", "message"}
          \/ pc[b] = "row_answer2" /\ pc'[b] \in {"col1", "message"}
          \/ pc[b] = "col_answer1" /\ pc'[b] \in {"col_answer2", "message"}
      BY <1>3, <1>7 DEF Answer, AnswerAt
    <3>2. QED
      BY <3>1 DEF Needed
  <2>2. pipe' = pipe \/ Takes(b)
    <3>1. pipe[b] # <<>> /\ pipe' = [pipe EXCEPT ![b] = Unread(b)]
      BY <1>7 DEF Answer, AnswerAt
    <3>2. QED
      BY <1>1, <3>1 DEF Unread, Takes
  <2>3. Cardinality(UnderIn(pipe', b)) >= Cardinality(UnderIn(pipe, b)) - 1
    BY <1>1, <2>2, UnderOfBlock
  <2>4. QED
    BY <1>1, <1>2, <2>1, <2>3
<1>8. ~ SolStep(b)
  BY OwnStepsOnly
<1>9. QED
  BY <1>5, <1>6, <1>7, <1>8 DEF BlockStep, TakeAnswers

\* At the start nobody waits.
LEMMA InitWait == Init => WaitInv
<1>. SUFFICES ASSUME Init, NEW b \in Blocks PROVE Cardinality(UnderIn(pipe, b)) >= Needed(b)
  BY DEF WaitInv
<1>1. pc[b] = "loop"
  BY DEF Init
<1>2. Types
  BY InitTypes
<1>3. Cardinality(UnderIn(pipe, b)) \in Nat
  BY <1>2, UnderFinite DEF Types
<1>4. QED
  BY <1>1, <1>3 DEF Needed

\* Every step keeps the accounts of all blocks.
LEMMA WaitInvPreserved ==
  Types /\ DrawInv /\ WaitInv /\ [Next]_vars => WaitInv'
<1>. SUFFICES ASSUME Types, DrawInv, WaitInv, [Next]_vars, user'.program = "own", NEW b \in Blocks
              PROVE  Cardinality(UnderIn(pipe', b)) >= Needed(b)'
  BY DEF WaitInv
<1>1. user' = user
  BY ZenonT(40) DEF Next, vars, NewGame, Solution, Quit, Send, Put, GameOver, BlockStep, SolStep, TakeBoard, ShowSolution,
         TakePut, Message, AskRow, AskCol, Ask, TakeAnswers, Answer, LastAnswer, LastConflict, Reply, Ignore, Leave,
         readblock, tryset, AskOne, ReadOne, PlaceDigit, ColumnConflict
<1>2. /\ pipe \in [Blocks -> Seq(Messages)] /\ Cardinality(UnderIn(pipe, b)) >= Needed(b)
      /\ Cardinality(UnderIn(pipe, b)) \in Nat /\ Needed(b) \in Nat
      /\ \A x \in Blocks : pc[x] \notin SolLabels
  BY <1>1, UnderOfBlock DEF Types, WaitInv, Needed, DrawInv
<1>3. ASSUME pc' = pc, NEW to \in Blocks, NEW q \in Messages,
             pipe' = pipe \/ pipe' = [pipe EXCEPT ![to] = Append(@, q)]
      PROVE  Cardinality(UnderIn(pipe', b)) >= Needed(b)'
  <2>1. Needed(b)' = Needed(b)
    BY <1>3 DEF Needed
  <2>2. Cardinality(UnderIn(pipe', b)) >= Cardinality(UnderIn(pipe, b))
    <3>1. CASE pipe' = pipe
      BY <1>2, <3>1
    <3>2. CASE pipe' = [pipe EXCEPT ![to] = Append(@, q)]
      BY <1>2, <3>2, UnderAppended
    <3>3. QED
      BY <1>3, <3>1, <3>2
  <2>3. Cardinality(UnderIn(pipe', b)) \in Nat
    BY <1>2, <1>3, PipeTypes, UnderFinite
  <2>4. QED
    BY <1>2, <2>1, <2>2, <2>3
<1>4. 0 \in Blocks /\ [op |-> "q"] \in Messages
  BY DEF Blocks, N, Messages
<1>5. CASE NewGame \/ Solution \/ Quit \/ GameOver \/ UNCHANGED vars
  <2>1. pc' = pc /\ pipe' = pipe
    BY <1>5 DEF NewGame, Solution, Quit, GameOver, vars
  <2>2. QED
    BY <1>3, <1>4, <2>1
<1>6. CASE Send
  <2>1. [op |-> sending.op] \in Messages
    BY <1>6 DEF Send, Messages
  <2>2. QED
    BY <1>3, <1>6, <2>1 DEF Send
<1>7. ASSUME NEW move \in user.moves, Put(move[1], move[2], move[3])
      PROVE  Cardinality(UnderIn(pipe', b)) >= Needed(b)'
  <2>1. move[1] \in Blocks /\ move[2] \in Cells /\ move[3] \in Values
    BY UserAssumption DEF Types
  <2>2. [op |-> "p", cell |-> move[2], value |-> move[3]] \in Messages
    BY <2>1 DEF Messages
  <2>3. QED
    BY <1>3, <1>7, <2>1, <2>2 DEF Put
<1>8. ASSUME NEW x \in Blocks, BlockStep(x)
      PROVE  Cardinality(UnderIn(pipe', b)) >= Needed(b)'
  <2>1. CASE x = b
    BY <1>1, <1>2, <1>8, <2>1, OwnAccount
  <2>2. CASE x # b
    <3>1. Needed(b)' = Needed(b)
      BY <1>8, <2>2, PipeShapes DEF Needed
    <3>2. Cardinality(UnderIn(pipe', b)) >= Cardinality(UnderIn(pipe, b))
      <4>1. Head(pipe[x]).op \notin {"r", "c"} => ~ Owed(b, x, Head(pipe[x]))
        BY <2>2 DEF Owed
      <4>2. \/ pipe' = pipe \/ Wonders(x) \/ Responds(x)
            \/ Takes(x) /\ Head(pipe[x]).op \notin {"r", "c"}
        BY <1>1, <1>2, <1>8, OwnTakes
      <4>3. QED
        BY <4>1, <4>2, UnderOfBlock
    <3>3. Cardinality(UnderIn(pipe', b)) \in Nat
      <4>1. Types'
        BY <1>8, BlockStepTypes
      <4>2. pipe' \in [Blocks -> Seq(Messages)]
        BY <4>1 DEF Types
      <4>3. QED
        BY <4>2, UnderFinite
    <3>4. QED
      BY <1>2, <3>1, <3>2, <3>3
  <2>3. QED
    BY <2>1, <2>2
<1>9. QED
  BY <1>5, <1>6, <1>7, <1>8 DEF Next

-----------------------------------------------------------------------------
(* A patient user's game.                                                    *)

\* The neighbours in the order in which they are asked, and what each is asked about.
Neighbour(b) == IF user.program = "own"
                THEN <<get_row_adj(b)[1], get_row_adj(b)[2], get_col_adj(b)[1], get_col_adj(b)[2]>>
                ELSE genblocks(b)
Kind(k) == IF k <= 2 THEN "r" ELSE "c"

\* How many neighbours are asked when a block is at a label, and how many answers it awaits.
Asked(label) == IF label \in {"row1", "ask1"} THEN 0
                ELSE IF label \in {"row2", "read1", "ask2"} THEN 1
                ELSE IF label \in {"row_answer1", "row_answer2", "col1", "read2", "ask3"} THEN 2
                ELSE IF label \in {"col2", "read3", "ask4"} THEN 3 ELSE 4
Awaited(label) == IF label \in {"row_answer1", "col_answer1"} THEN 2
                  ELSE IF label \in {"row2", "row_answer2", "col2", "col_answer2", "read1", "read2", "read3", "read4"}
                  THEN 1 ELSE 0

\* A command to draw is under way, or nothing is.
Drawing ==
  /\ sending.op \in {"prompt", "n", "s"}
  /\ \A x \in Blocks : pc[x] = "loop" /\ pipe[x] \in {<<>>, <<[op |-> "n"]>>, <<[op |-> "s"]>>}
  /\ sending.op \in {"n", "s"} => \A x \in Blocks : sending.next <= x => pipe[x] = <<>>
  /\ (\E x \in Blocks : Pending(x, "n")) => \A x \in Blocks : Pending(x, "n") \/ current[x] = grid[x]
  /\ user.program = "sol" /\ (\E x \in Blocks : Pending(x, "s")) =>
       \A x \in Blocks : Pending(x, "s") \/ current[x] = SolutionOf[grid][x]
  /\ (\A x \in Blocks : ~ Pending(x, "n") /\ (user.program = "own" \/ ~ Pending(x, "s"))) => NoConflict(current)

\* The game is being ended.
Quitting ==
  /\ sending.op = "q" /\ NoConflict(current)
  /\ \A x \in Blocks : /\ pc[x] \in {"loop", "gone"} /\ pipe[x] \in {<<>>, <<[op |-> "q"]>>}
                       /\ sending.next <= x => pc[x] = "loop" /\ pipe[x] = <<>>

\* Block a is to put a digit.
Waiting(a) ==
  /\ sending = Prompt /\ NoConflict(current)
  /\ \A x \in Blocks : pc[x] = "loop" /\ (x # a => pipe[x] = <<>>)
  /\ \E c \in Cells, v \in Values : pipe[a] = <<[op |-> "p", cell |-> c, value |-> v]>>

\* The messages to block a and to its neighbours.
Traffic(a) == Len(pipe[a]) + Len(pipe[Neighbour(a)[1]]) + Len(pipe[Neighbour(a)[2]])
              + Len(pipe[Neighbour(a)[3]]) + Len(pipe[Neighbour(a)[4]])

\* The k-th neighbour of block a has the digit nowhere in the line, or has not
\* answered, or there is a conflict that a has not read.
Cleared(a, k) ==
  \/ ~ has_conflict(Neighbour(a)[k], Question(a, Kind(k)))
  \/ pipe[Neighbour(a)[k]] # <<>>
  \/ \E i \in 1 .. Len(pipe[a]) : pipe[a][i].op = "1"

\* Block a asks its neighbours about the digit.
Playing(a) ==
  /\ sending = Prompt /\ NoConflict(current)
  /\ pc[a] \in Asking /\ (user.program = "sol" => pc[a] \in SolLabels)
  /\ \A x \in Blocks : x # a => pc[x] = "loop"
  /\ \A x \in Blocks : x # a /\ (\A k \in 1 .. 4 : x # Neighbour(a)[k]) => pipe[x] = <<>>
  /\ \A k \in 1 .. 4 : \/ pipe[Neighbour(a)[k]] = <<>>
                       \/ k <= Asked(pc[a]) /\ pipe[Neighbour(a)[k]] = <<Question(a, Kind(k))>>
  /\ \A i \in 1 .. Len(pipe[a]) : pipe[a][i].op \in Answers
  /\ Traffic(a) = Awaited(pc[a])
  /\ \A k \in 1 .. 4 : k <= Asked(pc[a]) => Cleared(a, k)

\* Block a is done with its digit; questions and answers may be left over.
Ending(a) ==
  /\ sending = Prompt /\ NoConflict(current)
  /\ pc[a] \in {"message", "loop"}
  /\ \A x \in Blocks : x # a => /\ pc[x] = "loop"
                                /\ pipe[x] = <<>> \/ \E q \in Questions : q.from = a /\ pipe[x] = <<q>>
  /\ \A i \in 1 .. Len(pipe[a]) : pipe[a][i].op \in Answers

\* What the game of a patient user comes to: one thing at a time.
PatientInv == user.hurries = {} =>
  Drawing \/ Quitting \/ \E a \in Blocks : Waiting(a) \/ Playing(a) \/ Ending(a)

\* What a block can do in its loop, by the message it reads.
LEMMA LoopSteps ==
  ASSUME NEW b \in Blocks, BlockStep(b), pc[b] = "loop"
  PROVE  /\ pipe[b] # <<>>
         /\ Head(pipe[b]).op \in {"n", "s", "p", "r", "c", "0", "1", "q"}
         /\ Head(pipe[b]).op = "n" => TakeBoard(b)
         /\ Head(pipe[b]).op = "s" => ShowSolution(b) \/ readblock(b)
         /\ Head(pipe[b]).op = "p" => TakePut(b) \/ tryset(b)
         /\ Head(pipe[b]).op \in {"r", "c"} => Reply(b)
         /\ Head(pipe[b]).op \in Answers => Ignore(b)
         /\ Head(pipe[b]).op = "q" => Leave(b)
<1>1. ~ AskRow(b) /\ ~ AskCol(b) /\ ~ TakeAnswers(b) /\ ~ Message(b)
  BY DEF AskRow, AskCol, Ask, TakeAnswers, Answer, LastAnswer, LastConflict, AnswerAt, Message
<1>2. ~ AskOne(b) /\ ~ ReadOne(b) /\ ~ PlaceDigit(b) /\ ~ ColumnConflict(b)
  BY DEF AskOne, Ask, ReadOne, Answer, PlaceDigit, ColumnConflict, AnswerAt, Asks, Reads
<1>3. /\ TakeBoard(b) => pipe[b] # <<>> /\ Head(pipe[b]).op = "n"
      /\ ShowSolution(b) \/ readblock(b) => pipe[b] # <<>> /\ Head(pipe[b]).op = "s"
      /\ TakePut(b) \/ tryset(b) => pipe[b] # <<>> /\ Head(pipe[b]).op = "p"
      /\ Reply(b) => pipe[b] # <<>> /\ Head(pipe[b]).op \in {"r", "c"}
      /\ Ignore(b) => pipe[b] # <<>> /\ Head(pipe[b]).op \in {"0", "1"}
      /\ Leave(b) => pipe[b] # <<>> /\ Head(pipe[b]).op = "q"
  BY DEF TakeBoard, ShowSolution, readblock, TakePut, tryset, Reply, Ignore, Leave, Receive
<1>4. \/ TakeBoard(b) \/ ShowSolution(b) \/ readblock(b) \/ TakePut(b) \/ tryset(b) \/ Reply(b) \/ Ignore(b) \/ Leave(b)
  BY <1>1, <1>2 DEF BlockStep, SolStep
<1>5. Answers = {"0", "1"}
  BY DEF Answers
<1>6. QED
  BY <1>3, <1>4, <1>5

\* What it can do elsewhere.
LEMMA OtherSteps ==
  ASSUME NEW b \in Blocks, BlockStep(b), pc[b] # "loop"
  PROVE  \/ Message(b)
         \/ AskRow(b) \/ AskCol(b) \/ TakeAnswers(b) \/ AskOne(b) \/ ReadOne(b) \/ PlaceDigit(b) \/ ColumnConflict(b)
<1>1. /\ ~ TakeBoard(b) /\ ~ ShowSolution(b) /\ ~ readblock(b) /\ ~ TakePut(b) /\ ~ tryset(b)
      /\ ~ Reply(b) /\ ~ Ignore(b) /\ ~ Leave(b)
  BY DEF TakeBoard, ShowSolution, readblock, TakePut, tryset, Reply, Ignore, Leave, Receive
<1>2. QED
  BY <1>1 DEF BlockStep, SolStep

\* Only the digits in the nine blocks matter.
LEMMA SameBoards ==
  ASSUME NEW f, NEW g, \A b \in Blocks : f[b] = g[b], NoConflict(g)
  PROVE  NoConflict(f)
<1>1. SUFFICES ASSUME NEW x \in Filled(f), NEW y \in Filled(f), Conflict(f, x, y)
               PROVE  FALSE
  BY DEF NoConflict
<1>2. PICK b \in Blocks : x \in {b} \X DOMAIN f[b]
  BY DEF Filled
<1>3. PICK d \in Blocks : y \in {d} \X DOMAIN f[d]
  BY DEF Filled
<1>4. x[1] = b /\ y[1] = d /\ f[b] = g[b] /\ f[d] = g[d]
  BY <1>2, <1>3
<1>5. x \in Filled(g) /\ y \in Filled(g)
  BY <1>2, <1>3, <1>4 DEF Filled
<1>6. Conflict(g, x, y)
  BY <1>1, <1>4 DEF Conflict
<1>7. QED
  BY <1>5, <1>6 DEF NoConflict

\* There are three blocks in a row and three in a column.
ThreeInLine(a) ==
  /\ \E x, y \in Blocks : x # y /\ x # a /\ y # a /\ Row(x) = Row(a) /\ Row(y) = Row(a)
  /\ \E x, y \in Blocks : x # y /\ x # a /\ y # a /\ Col(x) = Col(a) /\ Col(y) = Col(a)

\* So it is for every block.
LEMMA ThreesInLine ==
  ASSUME NEW a \in Blocks
  PROVE  ThreeInLine(a)
<1>1. Blocks = 0 .. 8
  BY DEF Blocks, N
<1>2. \A x \in Blocks : /\ Row(x) = IF x \in {0, 1, 2} THEN 0 ELSE IF x \in {3, 4, 5} THEN 1 ELSE 2
                        /\ Col(x) = IF x \in {0, 3, 6} THEN 0 ELSE IF x \in {1, 4, 7} THEN 1 ELSE 2
  BY <1>1 DEF Row, Col, DIM
<1>3. PICK r1, r2, c1, c2 :
        /\ r1 = IF a \in {0, 3, 6} THEN a + 1 ELSE IF a \in {1, 4, 7} THEN a - 1 ELSE a - 2
        /\ r2 = IF a \in {0, 3, 6} THEN a + 2 ELSE IF a \in {1, 4, 7} THEN a + 1 ELSE a - 1
        /\ c1 = IF a < 3 THEN a + 3 ELSE IF a < 6 THEN a - 3 ELSE a - 6
        /\ c2 = IF a < 3 THEN a + 6 ELSE IF a < 6 THEN a + 3 ELSE a - 3
  OBVIOUS
<1>4. a = 0 \/ a = 1 \/ a = 2 \/ a = 3 \/ a = 4 \/ a = 5 \/ a = 6 \/ a = 7 \/ a = 8
  BY <1>1
<1>5. r1 \in Blocks /\ r2 \in Blocks /\ r1 # r2 /\ r1 # a /\ r2 # a /\ c1 \in Blocks /\ c2 \in Blocks /\ c1 # c2
      /\ c1 # a /\ c2 # a
  BY <1>1, <1>3, <1>4
<1>6. Row(r1) = Row(a) /\ Row(r2) = Row(a)
  BY <1>1, <1>2, <1>3, <1>4, <1>5
<1>7. Col(c1) = Col(a) /\ Col(c2) = Col(a)
  BY <1>1, <1>2, <1>3, <1>4, <1>5
<1>8. QED
  BY <1>5, <1>6, <1>7 DEF ThreeInLine

\* The four neighbours are different blocks, the first two those in the row and the
\* others those in the column.
LEMMA NeighbourFacts ==
  ASSUME NEW a \in Blocks
  PROVE  /\ \A k \in 1 .. 4 : Neighbour(a)[k] \in Blocks /\ Neighbour(a)[k] # a
         /\ \A x \in Blocks : x # a /\ Row(x) = Row(a) => x = Neighbour(a)[1] \/ x = Neighbour(a)[2]
         /\ \A x \in Blocks : x # a /\ Col(x) = Col(a) => x = Neighbour(a)[3] \/ x = Neighbour(a)[4]
         /\ \A j, k \in 1 .. 4 : j # k => Neighbour(a)[j] # Neighbour(a)[k]
<1>1. /\ user.program = "own" => /\ Neighbour(a)[1] = get_row_adj(a)[1] /\ Neighbour(a)[2] = get_row_adj(a)[2]
                                 /\ Neighbour(a)[3] = get_col_adj(a)[1] /\ Neighbour(a)[4] = get_col_adj(a)[2]
      /\ user.program # "own" => Neighbour(a) = genblocks(a)
  BY DEF Neighbour
<1>2. \A k \in 1 .. 4 : k = 1 \/ k = 2 \/ k = 3 \/ k = 4
  OBVIOUS
<1>3. \A k \in 1 .. 4 : Neighbour(a)[k] \in Blocks /\ Neighbour(a)[k] # a
  BY <1>1, <1>2, Neighbours, NeighboursDiffer
<1>4. /\ \A x \in Blocks : Row(x) = Row(a) <=> x = a \/ x = Neighbour(a)[1] \/ x = Neighbour(a)[2]
      /\ \A x \in Blocks : Col(x) = Col(a) <=> x = a \/ x = Neighbour(a)[3] \/ x = Neighbour(a)[4]
  <2>1. CASE user.program = "own"
    <3>1. /\ \A x \in Blocks : Row(x) = Row(a) <=> x \in {a, get_row_adj(a)[1], get_row_adj(a)[2]}
          /\ \A x \in Blocks : Col(x) = Col(a) <=> x \in {a, get_col_adj(a)[1], get_col_adj(a)[2]}
      BY Neighbours
    <3>2. QED
      BY <1>1, <2>1, <3>1
  <2>2. CASE user.program # "own"
    <3>1. /\ \A x \in Blocks : Row(x) = Row(a) <=> x \in {a, genblocks(a)[1], genblocks(a)[2]}
          /\ \A x \in Blocks : Col(x) = Col(a) <=> x \in {a, genblocks(a)[3], genblocks(a)[4]}
      BY Neighbours
    <3>2. QED
      BY <1>1, <2>2, <3>1
  <2>3. QED
    BY <2>1, <2>2
<1>5. \A x, y \in Blocks : Row(x) = Row(y) /\ Col(x) = Col(y) => x = y
  BY DEF Row, Col, DIM, Blocks, N
<1>6. Neighbour(a)[1] # Neighbour(a)[2] /\ Neighbour(a)[3] # Neighbour(a)[4]
  <2>1. ThreeInLine(a)
    BY ThreesInLine
  <2>2. QED
    BY <1>4, <2>1 DEF ThreeInLine
<1>7. \A j \in {1, 2}, k \in {3, 4} : Neighbour(a)[j] # Neighbour(a)[k]
  BY <1>3, <1>4, <1>5
<1>8. QED
  BY <1>2, <1>3, <1>4, <1>6, <1>7

\* When all four neighbours have the digit nowhere in the line, it can be put.
LEMMA PlacedDigit ==
  ASSUME Types, NEW a \in Blocks, Proper(a), pc[a] \in Asking, NoConflict(current),
         \A k \in 1 .. 4 : ~ has_conflict(Neighbour(a)[k], Question(a, Kind(k))),
         current' = [current EXCEPT ![a] = WithDigit(@, put[a])]
  PROVE  NoConflict(current')
<1>1. DOMAIN current = Blocks /\ IsGrid(current[a]) /\ put[a] \in [cell : Cells, value : Values]
  BY DEF Types
<1>2. PICK p \in [cell : Cells, value : Values] : p = put[a]
  BY <1>1
<1>3. \A b \in Blocks : current'[b] = IF b = a THEN WithDigit(current[a], p) ELSE current[b]
  BY <1>1, <1>2
<1>4. /\ DOMAIN WithDigit(current[a], p) = DOMAIN current[a] \cup {p.cell}
      /\ WithDigit(current[a], p)[p.cell] = p.value
      /\ \A c \in DOMAIN current[a] : c # p.cell => WithDigit(current[a], p)[c] = current[a][c]
  BY <1>1, DigitTypes
<1>5. \A c \in DOMAIN current[a] : c # p.cell => current[a][c] # p.value
  BY <1>2 DEF Proper
\* a cell of the new board is the new one or an old one
<1>6. ASSUME NEW x \in Filled(current'), x # <<a, p.cell>>
      PROVE  /\ x \in Filled(current) /\ current'[x[1]][x[2]] = current[x[1]][x[2]]
             /\ x[1] \in Blocks /\ x[2] \in DOMAIN current[x[1]] /\ x = <<x[1], x[2]>>
  <2>1. PICK b, c : b \in Blocks /\ x = <<b, c>> /\ c \in DOMAIN current'[b]
    <3>1. PICK b \in Blocks : x \in {b} \X DOMAIN current'[b]
      BY DEF Filled
    <3>2. QED
      BY <3>1
  <2>2. c \in DOMAIN current[b] /\ current'[b][c] = current[b][c]
    <3>1. CASE b = a
      BY <1>3, <1>4, <1>6, <2>1, <3>1
    <3>2. CASE b # a
      BY <1>3, <2>1, <3>2
    <3>3. QED
      BY <3>1, <3>2
  <2>3. <<b, c>> \in {b} \X DOMAIN current[b]
    BY <2>2
  <2>4. x \in Filled(current)
    BY <2>1, <2>3 DEF Filled
  <2>5. QED
    BY <2>1, <2>2, <2>4
<1>7. current'[a][p.cell] = p.value
  BY <1>3, <1>4
\* no old cell is in the way of the new one
<1>8. ASSUME NEW b \in Blocks, NEW c \in DOMAIN current[b], <<b, c>> # <<a, p.cell>>, current[b][c] = p.value,
             \/ b = a
             \/ Row(b) = Row(a) /\ Row(c) = Row(p.cell)
             \/ Col(b) = Col(a) /\ Col(c) = Col(p.cell)
      PROVE  FALSE
  <2>1. b # a
    BY <1>5, <1>8
  <2>2. ASSUME Row(b) = Row(a), Row(c) = Row(p.cell)
        PROVE  FALSE
    <3>1. b = Neighbour(a)[1] \/ b = Neighbour(a)[2]
      BY <2>1, <2>2, NeighbourFacts
    <3>2. PICK q : q = Question(a, "r")
      OBVIOUS
    <3>3. ~ has_conflict(b, q)
      <4>1. Kind(1) = "r" /\ Kind(2) = "r"
        BY DEF Kind
      <4>2. 1 \in 1 .. 4 /\ 2 \in 1 .. 4
        OBVIOUS
      <4>3. QED
        BY <3>1, <3>2, <4>1, <4>2
    <3>4. q.op = "r" /\ q.line = Row(p.cell) /\ q.value = p.value
      BY <1>2, <3>2 DEF Question
    <3>5. QED
      BY <1>8, <2>2, <3>3, <3>4 DEF has_conflict
  <2>3. ASSUME Col(b) = Col(a), Col(c) = Col(p.cell)
        PROVE  FALSE
    <3>1. b = Neighbour(a)[3] \/ b = Neighbour(a)[4]
      BY <2>1, <2>3, NeighbourFacts
    <3>2. PICK q : q = Question(a, "c")
      OBVIOUS
    <3>3. ~ has_conflict(b, q)
      <4>1. Kind(3) = "c" /\ Kind(4) = "c"
        BY DEF Kind
      <4>2. 3 \in 1 .. 4 /\ 4 \in 1 .. 4
        OBVIOUS
      <4>3. QED
        BY <3>1, <3>2, <4>1, <4>2
    <3>4. q.op = "c" /\ q.line = Col(p.cell) /\ q.value = p.value
      BY <1>2, <3>2 DEF Question
    <3>5. QED
      BY <1>8, <2>3, <3>3, <3>4 DEF has_conflict
  <2>4. QED
    BY <1>8, <2>1, <2>2, <2>3
<1>9. SUFFICES ASSUME NEW x \in Filled(current'), NEW y \in Filled(current'), Conflict(current', x, y)
               PROVE  FALSE
  BY DEF NoConflict
<1>10. /\ x # y /\ current'[x[1]][x[2]] = current'[y[1]][y[2]]
       /\ \/ x[1] = y[1]
          \/ Row(x[1]) = Row(y[1]) /\ Row(x[2]) = Row(y[2])
          \/ Col(x[1]) = Col(y[1]) /\ Col(x[2]) = Col(y[2])
  BY <1>9 DEF Conflict
<1>11. CASE x # <<a, p.cell>> /\ y # <<a, p.cell>>
  <2>1. x \in Filled(current) /\ y \in Filled(current) /\ current[x[1]][x[2]] = current[y[1]][y[2]]
    BY <1>6, <1>10, <1>11
  <2>2. Conflict(current, x, y)
    BY <1>10, <2>1 DEF Conflict
  <2>3. QED
    BY <2>1, <2>2 DEF NoConflict
<1>12. CASE x = <<a, p.cell>>
  <2>1. y # <<a, p.cell>>
    BY <1>10, <1>12
  <2>2. /\ y[1] \in Blocks /\ y[2] \in DOMAIN current[y[1]] /\ y = <<y[1], y[2]>>
        /\ current'[y[1]][y[2]] = current[y[1]][y[2]]
    BY <1>6, <2>1
  <2>3. PICK b, c : b = y[1] /\ c = y[2]
    OBVIOUS
  <2>4. /\ b \in Blocks /\ c \in DOMAIN current[b] /\ <<b, c>> # <<a, p.cell>> /\ current[b][c] = p.value
    BY <1>7, <1>10, <1>12, <2>1, <2>2, <2>3
  <2>5. \/ b = a
        \/ Row(b) = Row(a) /\ Row(c) = Row(p.cell)
        \/ Col(b) = Col(a) /\ Col(c) = Col(p.cell)
    BY <1>10, <1>12, <2>3
  <2>6. QED
    BY <1>8, <2>4, <2>5
<1>13. CASE y = <<a, p.cell>>
  <2>1. x # <<a, p.cell>>
    BY <1>10, <1>13
  <2>2. /\ x[1] \in Blocks /\ x[2] \in DOMAIN current[x[1]] /\ x = <<x[1], x[2]>>
        /\ current'[x[1]][x[2]] = current[x[1]][x[2]]
    BY <1>6, <2>1
  <2>3. PICK b, c : b = x[1] /\ c = x[2]
    OBVIOUS
  <2>4. /\ b \in Blocks /\ c \in DOMAIN current[b] /\ <<b, c>> # <<a, p.cell>> /\ current[b][c] = p.value
    BY <1>7, <1>10, <1>13, <2>1, <2>2, <2>3
  <2>5. \/ b = a
        \/ Row(b) = Row(a) /\ Row(c) = Row(p.cell)
        \/ Col(b) = Col(a) /\ Col(c) = Col(p.cell)
    BY <1>10, <1>13, <2>3
  <2>6. QED
    BY <1>8, <2>4, <2>5
<1>14. QED
  BY <1>11, <1>12, <1>13

\* In a pipe with one message, that one is read, and nothing is left.
LEMMA OneMessage ==
  ASSUME NEW q
  PROVE  <<q>> # <<>> /\ Head(<<q>>) = q /\ Tail(<<q>>) = <<>> /\ Len(<<q>>) = 1 /\ <<q>>[1] = q /\ Len(<<>>) = 0
         /\ Append(<<>>, q) = <<q>>
OBVIOUS

\* A patient user gives a command only when nothing goes on.
LEMMA WhenQuiet ==
  ASSUME Types, DrawInv, PatientInv, user.hurries = {}, NEW op, Ready(op)
  PROVE  /\ NoConflict(current) /\ sending = Prompt
         /\ \A x \in Blocks : pipe[x] = <<>> /\ pc[x] = "loop" /\ ~ Pending(x, "n") /\ ~ Pending(x, "s")
<1>1. sending = Prompt /\ Drawn /\ \A x \in Blocks : pipe[x] = <<>> /\ pc[x] = "loop"
  BY DEF Ready, Quiet
<1>2. \A x \in Blocks : ~ Pending(x, "n") /\ ~ Pending(x, "s")
  BY <1>1, DrawnMeansNothingPending
<1>3. CASE Drawing
  BY <1>1, <1>2, <1>3 DEF Drawing
<1>4. CASE ~ Drawing
  <2>1. Quitting \/ \E a \in Blocks : Waiting(a) \/ Playing(a) \/ Ending(a)
    BY <1>4 DEF PatientInv
  <2>2. NoConflict(current)
    BY <2>1 DEF Quitting, Waiting, Playing, Ending
  <2>3. QED
    BY <1>1, <1>2, <2>2
<1>5. QED
  BY <1>3, <1>4

\* The commands of a patient user.
LEMMA PatientCommands ==
  ASSUME Types, DrawInv, PatientInv, user.hurries = {},
         NewGame \/ Solution \/ Quit \/ \E move \in user.moves : Put(move[1], move[2], move[3])
  PROVE  PatientInv'
<1>1. CASE NewGame
  <2>1. \A x \in Blocks : pipe[x] = <<>> /\ pc[x] = "loop"
    BY <1>1, WhenQuiet DEF NewGame, Command
  <2>2. \A x \in Blocks : Pending(x, "n")' /\ ~ Pending(x, "s")'
    BY <1>1, PendingOfCoordinator
  <2>3. 0 \in Blocks
    BY DEF Blocks, N
  <2>4. Drawing'
    BY <1>1, <2>1, <2>2, <2>3 DEF Drawing, NewGame
  <2>5. QED
    BY <2>4 DEF PatientInv
<1>2. CASE Solution
  <2>1. \A x \in Blocks : pipe[x] = <<>> /\ pc[x] = "loop"
    BY <1>2, WhenQuiet DEF Solution, Command
  <2>2. \A x \in Blocks : Pending(x, "s")' /\ ~ Pending(x, "n")'
    BY <1>2, PendingOfCoordinator
  <2>3. 0 \in Blocks
    BY DEF Blocks, N
  <2>4. NoConflict(current)
    BY <1>2, WhenQuiet DEF Solution, Command
  <2>5. Drawing'
    BY <1>2, <2>1, <2>2, <2>3, <2>4 DEF Drawing, Solution, boards
  <2>6. QED
    BY <2>5 DEF PatientInv
<1>3. CASE Quit
  <2>1. (\A x \in Blocks : pipe[x] = <<>> /\ pc[x] = "loop") /\ NoConflict(current)
    BY <1>3, WhenQuiet DEF Quit
  <2>2. Quitting'
    BY <1>3, <2>1 DEF Quitting, Quit, boards
  <2>3. QED
    BY <2>2 DEF PatientInv
<1>4. ASSUME NEW move \in user.moves, Put(move[1], move[2], move[3])
      PROVE  PatientInv'
  <2>1. PICK b \in Blocks, c \in Cells, v \in Values : b = move[1] /\ c = move[2] /\ v = move[3]
    BY UserAssumption DEF Types
  <2>2. (\A x \in Blocks : pipe[x] = <<>> /\ pc[x] = "loop") /\ NoConflict(current) /\ sending = Prompt
    BY <1>4, WhenQuiet DEF Put, Command
  <2>3. PICK q : q = [op |-> "p", cell |-> c, value |-> v]
    OBVIOUS
  <2>4. pipe' = [pipe EXCEPT ![b] = Append(@, q)] /\ UNCHANGED <<sending, pc, current>>
    BY <1>4, <2>1, <2>3 DEF Put, boards
  <2>5. \A x \in Blocks : pipe'[x] = IF x = b THEN <<q>> ELSE <<>>
    BY <2>2, <2>4, OneMessage DEF Types
  <2>6. pipe'[b] = <<[op |-> "p", cell |-> c, value |-> v]>>
    BY <2>3, <2>5
  <2>7. Waiting(b)'
    BY <2>2, <2>4, <2>5, <2>6 DEF Waiting
  <2>8. QED
    BY <2>7 DEF PatientInv
<1>5. QED
  BY <1>1, <1>2, <1>3, <1>4

\* A command goes to the blocks one after the other.
LEMMA PatientSend ==
  ASSUME Types, DrawInv, PatientInv, user.hurries = {}, Send
  PROVE  PatientInv'
<1>1. PICK k \in 0 .. 8, q \in Messages : k = sending.next /\ q = [op |-> sending.op]
  BY DEF Send, Blocks, N, Messages
<1>2. /\ sending.op \in {"n", "s", "q"} /\ k \in Blocks
      /\ pipe' = [pipe EXCEPT ![k] = Append(@, q)]
      /\ sending' = IF k < 8 \/ sending.op = "q" THEN [sending EXCEPT !.next = k + 1] ELSE Prompt
      /\ UNCHANGED <<user, grid, pc, current>>
  BY <1>1 DEF Send, N, boards
<1>3. [sending EXCEPT !.next = k + 1] = [op |-> sending.op, next |-> k + 1]
  BY DEF Types
<1>4. \A a \in Blocks : ~ Waiting(a) /\ ~ Playing(a) /\ ~ Ending(a)
  BY <1>2 DEF Waiting, Playing, Ending, Prompt
<1>5. Blocks = 0 .. 8
  BY DEF Blocks, N
<1>6. \A x \in Blocks : k + 1 <= x => k <= x /\ x # k
  BY <1>1, <1>5
<1>7. \A x \in Blocks : pipe'[x] = IF x = k THEN Append(pipe[x], q) ELSE pipe[x]
  BY <1>2 DEF Types
<1>8. CASE Drawing
  <2>1. sending.op \in {"n", "s"} /\ pipe[k] = <<>>
    <3>1. sending.op \in {"n", "s"}
      BY <1>2, <1>8 DEF Drawing
    <3>2. k <= k
      BY <1>1
    <3>3. QED
      BY <1>1, <1>2, <1>8, <3>1, <3>2 DEF Drawing
  <2>2. pipe'[k] = <<[op |-> sending.op]>>
    BY <1>1, <1>2, <1>7, <2>1, OneMessage
  <2>3. sending'.op \in {"prompt", "n", "s"} /\ (sending'.op \in {"n", "s"} => sending'.next = k + 1)
    BY <1>2, <1>3, <2>1 DEF Prompt
  <2>4. \A x \in Blocks : pc'[x] = "loop" /\ pipe'[x] \in {<<>>, <<[op |-> "n"]>>, <<[op |-> "s"]>>}
    <3>1. TAKE x \in Blocks
    <3>2. pc[x] = "loop" /\ pipe[x] \in {<<>>, <<[op |-> "n"]>>, <<[op |-> "s"]>>}
      BY <1>8 DEF Drawing
    <3>3. CASE x = k
      BY <1>2, <2>1, <2>2, <3>2, <3>3
    <3>4. CASE x # k
      BY <1>2, <1>7, <3>2, <3>4
    <3>5. QED
      BY <3>3, <3>4
  <2>5. sending'.op \in {"n", "s"} => \A x \in Blocks : sending'.next <= x => pipe'[x] = <<>>
    <3>1. SUFFICES ASSUME sending'.op \in {"n", "s"}, NEW x \in Blocks, sending'.next <= x
                   PROVE  pipe'[x] = <<>>
      OBVIOUS
    <3>2. k <= x /\ x # k
      BY <1>6, <2>3, <3>1
    <3>3. pipe[x] = <<>>
      BY <1>1, <1>8, <2>1, <3>2 DEF Drawing
    <3>4. QED
      BY <1>7, <3>2, <3>3
  <2>6. \A x \in Blocks : (Pending(x, "n")' <=> Pending(x, "n")) /\ (Pending(x, "s")' <=> Pending(x, "s"))
    BY PendingOfCoordinator
  <2>7. Drawing'
    BY <1>2, <1>8, <2>3, <2>4, <2>5, <2>6 DEF Drawing
  <2>8. QED
    BY <2>7 DEF PatientInv
<1>9. CASE Quitting
  <2>1. sending.op = "q" /\ k <= k
    BY <1>1, <1>9 DEF Quitting
  <2>2. pipe[k] = <<>> /\ pc[k] = "loop"
    BY <1>1, <1>2, <1>9, <2>1 DEF Quitting
  <2>3. pipe'[k] = <<[op |-> "q"]>>
    BY <1>1, <1>2, <1>7, <2>1, <2>2, OneMessage
  <2>4. sending'.op = "q" /\ sending'.next = k + 1
    BY <1>2, <1>3, <2>1
  <2>5. ASSUME NEW x \in Blocks
        PROVE  /\ pc'[x] \in {"loop", "gone"} /\ pipe'[x] \in {<<>>, <<[op |-> "q"]>>}
               /\ sending'.next <= x => pc'[x] = "loop" /\ pipe'[x] = <<>>
    <3>1. /\ pc[x] \in {"loop", "gone"} /\ pipe[x] \in {<<>>, <<[op |-> "q"]>>}
          /\ k <= x => pc[x] = "loop" /\ pipe[x] = <<>>
      BY <1>1, <1>9 DEF Quitting
    <3>2. CASE x = k
      <4>1. ~ (sending'.next <= x)
        BY <1>6, <2>4, <3>2
      <4>2. QED
        BY <1>2, <2>3, <3>1, <3>2, <4>1
    <3>3. CASE x # k
      BY <1>2, <1>6, <1>7, <2>4, <3>1, <3>3
    <3>4. QED
      BY <3>2, <3>3
  <2>6. Quitting'
    BY <1>2, <1>9, <2>4, <2>5 DEF Quitting
  <2>7. QED
    BY <2>6 DEF PatientInv
<1>10. QED
  BY <1>4, <1>8, <1>9 DEF PatientInv

\* A block draws a board.
LEMMA PatientDrawing ==
  ASSUME Types, DrawInv, Drawing, NEW b \in Blocks, BlockStep(b)
  PROVE  Drawing'
<1>1. /\ DOMAIN current = Blocks /\ pipe \in [Blocks -> Seq(Messages)] /\ grid \in Puzzles
      /\ user.program = "own" \/ user.program = "sol"
  BY UserAssumption DEF Types
<1>2. pc[b] = "loop" /\ pipe[b] \in {<<>>, <<[op |-> "n"]>>, <<[op |-> "s"]>>}
  BY DEF Drawing
<1>3. pipe[b] # <<>> /\ Head(pipe[b]) \in {[op |-> "n"], [op |-> "s"]} /\ Tail(pipe[b]) = <<>>
  BY <1>2, LoopSteps, OneMessage
<1>4. \/ Head(pipe[b]).op = "n" /\ TakeBoard(b)
      \/ Head(pipe[b]).op = "s" /\ ShowSolution(b)
      \/ Head(pipe[b]).op = "s" /\ readblock(b)
  BY <1>2, <1>3, LoopSteps
<1>5. /\ UNCHANGED <<user, grid, sending, pc>> /\ pipe' = [pipe EXCEPT ![b] = Tail(@)]
      /\ \A x \in Blocks : pipe'[x] = IF x = b THEN <<>> ELSE pipe[x]
      /\ \A x \in Blocks : x # b => current'[x] = current[x]
  <2>1. UNCHANGED <<user, grid, sending, pc>> /\ pipe' = [pipe EXCEPT ![b] = Tail(@)]
    BY <1>4 DEF TakeBoard, ShowSolution, readblock, coordinator
  <2>2. \A x \in Blocks : x # b => current'[x] = current[x]
    BY PipeShapes
  <2>3. QED
    BY <1>1, <1>3, <2>1, <2>2
<1>6. \A x \in Blocks, op \in {"n", "s"} :
        (Pending(x, op)' => Pending(x, op)) /\ (x # b /\ Pending(x, op) => Pending(x, op)')
  BY PendingUntilTaken
<1>7. \A op \in {"n", "s"} : Head(pipe[b]).op = op => Pending(b, op)
  <2>1. Len(pipe[b]) \in Nat /\ Len(pipe[b]) >= 1 /\ Head(pipe[b]) = pipe[b][1]
    BY <1>1, <1>3, Taking
  <2>2. 1 \in 1 .. Len(pipe[b])
    BY <2>1
  <2>3. QED
    BY <2>1, <2>2 DEF Pending
<1>8. \A x, y \in Blocks : ~ (Pending(x, "n") /\ Pending(y, "s"))
  BY DEF DrawInv
<1>9. /\ sending'.op \in {"prompt", "n", "s"}
      /\ \A x \in Blocks : pc'[x] = "loop" /\ pipe'[x] \in {<<>>, <<[op |-> "n"]>>, <<[op |-> "s"]>>}
      /\ sending'.op \in {"n", "s"} => \A x \in Blocks : sending'.next <= x => pipe'[x] = <<>>
  <2>1. sending'.op \in {"prompt", "n", "s"}
    BY <1>5 DEF Drawing
  <2>2. ASSUME NEW x \in Blocks
        PROVE  pc'[x] = "loop" /\ pipe'[x] \in {<<>>, <<[op |-> "n"]>>, <<[op |-> "s"]>>}
    <3>1. pc[x] = "loop" /\ pipe[x] \in {<<>>, <<[op |-> "n"]>>, <<[op |-> "s"]>>}
      BY DEF Drawing
    <3>2. pc' = pc /\ pipe'[x] \in {<<>>, pipe[x]}
      BY <1>5
    <3>3. QED
      BY <3>1, <3>2
  <2>3. sending'.op \in {"n", "s"} => \A x \in Blocks : sending'.next <= x => pipe'[x] = <<>>
    <3>1. sending' = sending /\ \A x \in Blocks : pipe'[x] \in {<<>>, pipe[x]}
      BY <1>5
    <3>2. QED
      BY <3>1 DEF Drawing
  <2>4. QED
    BY <2>1, <2>2, <2>3
<1>10. ASSUME (\E x \in Blocks : Pending(x, "n")') => \A x \in Blocks : Pending(x, "n")' \/ current'[x] = grid[x],
              user.program = "sol" /\ (\E x \in Blocks : Pending(x, "s")') =>
                \A x \in Blocks : Pending(x, "s")' \/ current'[x] = SolutionOf[grid][x],
              (\A x \in Blocks : ~ Pending(x, "n")' /\ (user.program = "own" \/ ~ Pending(x, "s")')) =>
                NoConflict(current')
       PROVE  Drawing'
  BY <1>5, <1>9, <1>10 DEF Drawing
<1>11. CASE Head(pipe[b]).op = "n" /\ TakeBoard(b)
  <2>1. current'[b] = grid[b]
    BY <1>1, <1>11 DEF TakeBoard
  <2>2. \A x \in Blocks : ~ Pending(x, "s") /\ ~ Pending(x, "s")'
    BY <1>6, <1>7, <1>8, <1>11
  <2>3. \A x \in Blocks : Pending(x, "n") \/ current[x] = grid[x]
    BY <1>7, <1>11 DEF Drawing
  <2>4. \A x \in Blocks : Pending(x, "n")' \/ current'[x] = grid[x]
    BY <1>5, <1>6, <2>1, <2>3
  <2>5. (\A x \in Blocks : ~ Pending(x, "n")') => NoConflict(current')
    <3>1. SUFFICES ASSUME \A x \in Blocks : current'[x] = grid[x] PROVE NoConflict(current')
      BY <2>4
    <3>2. NoConflict(grid)
      BY <1>1, PuzzleFacts
    <3>3. QED
      BY <3>1, <3>2, SameBoards
  <2>6. QED
    BY <1>10, <2>2, <2>4, <2>5
<1>12. CASE Head(pipe[b]).op = "s" /\ ShowSolution(b)
  <2>1. user.program = "own" /\ current' = current
    BY <1>12 DEF ShowSolution
  <2>2. \A x \in Blocks : ~ Pending(x, "n") /\ ~ Pending(x, "n")'
    BY <1>6, <1>7, <1>8, <1>12
  <2>3. NoConflict(current')
    BY <2>1, <2>2 DEF Drawing
  <2>4. QED
    BY <1>10, <2>1, <2>2, <2>3
<1>13. CASE Head(pipe[b]).op = "s" /\ readblock(b)
  <2>1. current'[b] = SolutionOf[grid][b] /\ user.program = "sol"
    BY <1>1, <1>13 DEF readblock
  <2>2. \A x \in Blocks : ~ Pending(x, "n") /\ ~ Pending(x, "n")'
    BY <1>6, <1>7, <1>8, <1>13
  <2>3. \A x \in Blocks : Pending(x, "s") \/ current[x] = SolutionOf[grid][x]
    BY <1>7, <1>13, <2>1 DEF Drawing
  <2>4. \A x \in Blocks : Pending(x, "s")' \/ current'[x] = SolutionOf[grid][x]
    BY <1>5, <1>6, <2>1, <2>3
  <2>5. (\A x \in Blocks : ~ Pending(x, "s")') => NoConflict(current')
    <3>1. SUFFICES ASSUME \A x \in Blocks : current'[x] = SolutionOf[grid][x] PROVE NoConflict(current')
      BY <2>4
    <3>2. NoConflict(SolutionOf[grid])
      BY <1>1, PuzzleFacts
    <3>3. QED
      BY <3>1, <3>2, SameBoards
  <2>6. QED
    BY <1>10, <2>1, <2>2, <2>4, <2>5
<1>14. QED
  BY <1>4, <1>11, <1>12, <1>13

\* A block leaves.
LEMMA PatientQuitting ==
  ASSUME Types, Quitting, NEW b \in Blocks, BlockStep(b)
  PROVE  Quitting'
<1>1. pc \in [Blocks -> Labels] /\ pipe \in [Blocks -> Seq(Messages)]
  BY DEF Types
<1>2. pc[b] \in {"loop", "gone"} /\ pipe[b] \in {<<>>, <<[op |-> "q"]>>}
  BY DEF Quitting
<1>3. pc[b] = "loop"
  <2>1. SUFFICES ASSUME pc[b] = "gone" PROVE FALSE
    BY <1>2
  <2>2. ~ Message(b)
    BY <2>1 DEF Message
  <2>3. pc[b] \notin Asking
    BY <2>1 DEF Asking
  <2>4. QED
    BY <2>1, <2>2, <2>3, OtherSteps, AskingGoesOn
<1>4. pipe[b] = <<[op |-> "q"]>> /\ Head(pipe[b]).op = "q" /\ Tail(pipe[b]) = <<>>
  <2>1. pipe[b] = <<[op |-> "q"]>>
    BY <1>2, <1>3, LoopSteps
  <2>2. PICK q : q = [op |-> "q"]
    OBVIOUS
  <2>3. Head(<<q>>) = q /\ Tail(<<q>>) = <<>> /\ q.op = "q"
    BY <2>2, OneMessage
  <2>4. QED
    BY <2>1, <2>2, <2>3
<1>5. Leave(b)
  BY <1>3, <1>4, LoopSteps
<1>6. /\ \A x \in Blocks : pipe'[x] = IF x = b THEN <<>> ELSE pipe[x]
      /\ \A x \in Blocks : pc'[x] = IF x = b THEN "gone" ELSE pc[x]
      /\ current' = current /\ sending' = sending
  BY <1>1, <1>4, <1>5 DEF Leave, Goto, boards, coordinator
<1>7. ~ (sending.next <= b)
  BY <1>4, OneMessage DEF Quitting
<1>8. QED
  BY <1>6, <1>7 DEF Quitting

\* The block that is to put a digit takes the command.
LEMMA PatientWaiting ==
  ASSUME Types, NEW a \in Blocks, Waiting(a), NEW b \in Blocks, BlockStep(b)
  PROVE  Playing(a)' \/ Ending(a)'
<1>1. /\ pc \in [Blocks -> Labels] /\ pipe \in [Blocks -> Seq(Messages)]
      /\ user.program = "own" \/ user.program = "sol"
  BY UserAssumption DEF Types
<1>2. b = a /\ pc[b] = "loop"
  BY LoopSteps DEF Waiting
<1>3. PICK c \in Cells, v \in Values : pipe[a] = <<[op |-> "p", cell |-> c, value |-> v]>>
  BY DEF Waiting
<1>4. Head(pipe[a]).op = "p" /\ Tail(pipe[a]) = <<>>
  BY <1>3, OneMessage
<1>5. TakePut(a) \/ tryset(a)
  BY <1>2, <1>4, LoopSteps
<1>6. /\ UNCHANGED <<user, sending, current>>
      /\ \A x \in Blocks : pipe'[x] = <<>>
      /\ \A x \in Blocks : x # a => pc'[x] = "loop"
  <2>1. UNCHANGED <<user, sending, current>> /\ pipe' = [pipe EXCEPT ![a] = Tail(@)]
    BY <1>5 DEF TakePut, tryset, boards, coordinator
  <2>2. \A x \in Blocks : x # a => pc'[x] = pc[x]
    BY <1>2, PipeShapes
  <2>3. QED
    BY <1>1, <1>4, <2>1, <2>2 DEF Waiting
<1>7. pc'[a] \in {"message", "ask1"} \/ (pc'[a] = "row1" /\ user.program = "own")
  <2>1. \A l : Goto(a, l) => pc'[a] = l
    BY <1>1 DEF Goto
  <2>2. CASE TakePut(a)
    <3>1. (Goto(a, "message") \/ Goto(a, "row1")) /\ user.program = "own"
      BY <2>2 DEF TakePut
    <3>2. QED
      BY <2>1, <3>1
  <2>3. CASE tryset(a)
    <3>1. Goto(a, "message") \/ Goto(a, "ask1")
      BY <2>3 DEF tryset
    <3>2. QED
      BY <2>1, <3>1
  <2>4. QED
    BY <1>5, <2>2, <2>3
<1>8. CASE pc'[a] = "message"
  <2>1. Len(pipe'[a]) = 0
    BY <1>6
  <2>2. \A i \in 1 .. Len(pipe'[a]) : pipe'[a][i].op \in Answers
    BY <2>1
  <2>3. Ending(a)'
    BY <1>6, <1>8, <2>2 DEF Ending, Waiting
  <2>4. QED
    BY <2>3
<1>9. CASE pc'[a] = "ask1" \/ (pc'[a] = "row1" /\ user.program = "own")
  <2>1. \A k \in 1 .. 4 : Neighbour(a)'[k] \in Blocks
    BY <1>6, NeighbourFacts DEF Neighbour
  <2>2. \A k \in 1 .. 4 : pipe'[Neighbour(a)'[k]] = <<>> /\ Len(pipe'[Neighbour(a)'[k]]) = 0
    BY <1>6, <2>1
  <2>3. Len(pipe'[a]) = 0 /\ Awaited(pc'[a]) = 0 /\ Asked(pc'[a]) = 0
    BY <1>6, <1>9 DEF Awaited, Asked
  <2>4. Traffic(a)' = 0
    <3>1. /\ Len(pipe'[Neighbour(a)'[1]]) = 0 /\ Len(pipe'[Neighbour(a)'[2]]) = 0
          /\ Len(pipe'[Neighbour(a)'[3]]) = 0 /\ Len(pipe'[Neighbour(a)'[4]]) = 0
      BY <2>2
    <3>2. QED
      BY <2>3, <3>1 DEF Traffic
  <2>5. pc'[a] \in Asking /\ (user'.program = "sol" => pc'[a] \in SolLabels)
    BY <1>6, <1>9 DEF Asking, SolLabels
  <2>6. /\ \A i \in 1 .. Len(pipe'[a]) : pipe'[a][i].op \in Answers
        /\ \A k \in 1 .. 4 : ~ (k <= Asked(pc'[a]))
    BY <2>3
  <2>7. Playing(a)'
    BY <1>6, <2>2, <2>3, <2>4, <2>5, <2>6 DEF Playing, Waiting
  <2>8. QED
    BY <2>7
<1>10. QED
  BY <1>7, <1>8, <1>9

\* What is left over is read and answered.
LEMMA PatientEnding ==
  ASSUME Types, NEW a \in Blocks, Ending(a), NEW b \in Blocks, BlockStep(b)
  PROVE  Ending(a)'
<1>1. /\ pc \in [Blocks -> Labels] /\ pipe \in [Blocks -> Seq(Messages)]
  BY DEF Types
<1>2. CASE b = a /\ pc[a] = "message"
  <2>1. pc[a] \notin Asking
    BY <1>2 DEF Asking
  <2>2. Message(a)
    BY <1>2, <2>1, OtherSteps, AskingGoesOn
  <2>3. pc'[a] = "loop" /\ (\A x \in Blocks : x # a => pc'[x] = pc[x]) /\ UNCHANGED <<sending, pipe, current>>
    BY <1>1, <2>2 DEF Message, Return, Goto, boards, coordinator
  <2>4. QED
    BY <2>3 DEF Ending
<1>3. CASE b = a /\ pc[a] = "loop"
  <2>1. pipe[a] # <<>> /\ Len(pipe[a]) \in Nat /\ Len(pipe[a]) >= 1 /\ Head(pipe[a]) = pipe[a][1]
        /\ Len(Tail(pipe[a])) = Len(pipe[a]) - 1 /\ \A i \in 1 .. Len(pipe[a]) - 1 : Tail(pipe[a])[i] = pipe[a][i + 1]
    <3>1. pipe[a] # <<>> /\ pipe[a] \in Seq(Messages)
      BY <1>1, <1>3, LoopSteps
    <3>2. QED
      BY <3>1, Taking
  <2>2. Head(pipe[a]).op \in Answers
    <3>1. 1 \in 1 .. Len(pipe[a])
      BY <2>1
    <3>2. QED
      BY <2>1, <3>1 DEF Ending
  <2>3. Ignore(a)
    BY <1>3, <2>2, LoopSteps
  <2>4. UNCHANGED <<sending, pc, current>> /\ \A x \in Blocks : pipe'[x] = IF x = a THEN Tail(pipe[x]) ELSE pipe[x]
    BY <1>1, <2>3 DEF Ignore, boards, coordinator
  <2>5. \A i \in 1 .. Len(pipe'[a]) : pipe'[a][i].op \in Answers
    <3>1. TAKE i \in 1 .. Len(pipe'[a])
    <3>2. pipe'[a][i] = pipe[a][i + 1] /\ i + 1 \in 1 .. Len(pipe[a])
      <4>1. pipe'[a] = Tail(pipe[a])
        BY <2>4
      <4>2. i \in 1 .. Len(pipe[a]) - 1
        BY <2>1, <4>1
      <4>3. QED
        BY <2>1, <4>1, <4>2
    <3>3. QED
      BY <3>2 DEF Ending
  <2>6. QED
    BY <2>4, <2>5 DEF Ending
<1>4. CASE b # a
  <2>1. pc[b] = "loop" /\ pipe[b] # <<>>
    BY <1>4, LoopSteps DEF Ending
  <2>2. PICK q \in Questions : q.from = a /\ pipe[b] = <<q>>
    BY <1>4, <2>1 DEF Ending
  <2>3. Head(pipe[b]) = q /\ Tail(pipe[b]) = <<>> /\ q.op \in {"r", "c"}
    BY <2>2, OneMessage, QuestionFields
  <2>4. Reply(b)
    BY <2>1, <2>3, LoopSteps
  <2>5. PICK m \in Messages : m = [op |-> IF has_conflict(b, q) THEN "1" ELSE "0"]
    BY DEF Messages
  <2>6. UNCHANGED <<sending, pc, current>> /\ pipe' = [[pipe EXCEPT ![b] = Tail(@)] EXCEPT ![a] = Append(@, m)]
    BY <2>2, <2>3, <2>4, <2>5 DEF Reply, boards, coordinator
  <2>7. \A x \in Blocks : pipe'[x] = IF x = a THEN Append(pipe[a], m) ELSE IF x = b THEN <<>> ELSE pipe[x]
    BY <1>1, <1>4, <2>3, <2>6
  <2>8. \A i \in 1 .. Len(pipe'[a]) : pipe'[a][i].op \in Answers
    <3>1. TAKE i \in 1 .. Len(pipe'[a])
    <3>2. /\ pipe'[a] = Append(pipe[a], m) /\ pipe[a] \in Seq(Messages)
      BY <1>1, <2>7
    <3>3. Len(pipe'[a]) = Len(pipe[a]) + 1 /\ Len(pipe[a]) \in Nat /\ pipe'[a][Len(pipe[a]) + 1] = m
          /\ \A j \in 1 .. Len(pipe[a]) : pipe'[a][j] = pipe[a][j]
      BY <3>2, Writing
    <3>4. i \in 1 .. Len(pipe[a]) \/ i = Len(pipe[a]) + 1
      BY <3>3
    <3>5. m.op \in Answers
      BY <2>5 DEF Answers
    <3>6. QED
      BY <3>3, <3>4, <3>5 DEF Ending
  <2>9. QED
    BY <2>6, <2>7, <2>8 DEF Ending
<1>5. QED
  BY <1>2, <1>3, <1>4 DEF Ending

\* To ask is to go on to the next neighbour.
LEMMA AskingStep ==
  ASSUME Types, NEW a \in Blocks, user.program = "sol" => pc[a] \in SolLabels,
         user.program = "own" => pc[a] \notin SolLabels, AskRow(a) \/ AskCol(a) \/ AskOne(a)
  PROVE  \E k \in 1 .. 4 :
           /\ pipe' = [pipe EXCEPT ![Neighbour(a)[k]] = Append(@, Question(a, Kind(k)))]
           /\ Asked(pc[a]) = k - 1 /\ Asked(pc'[a]) = k /\ Awaited(pc[a]) \in Nat
           /\ Awaited(pc'[a]) = Awaited(pc[a]) + 1
           /\ pc'[a] \in Asking /\ (user.program = "sol" => pc'[a] \in SolLabels)
           /\ UNCHANGED <<user, coordinator, boards, put>>
<1>1. \A l : Goto(a, l) => pc'[a] = l
  BY DEF Goto, Types
<1>2. user.program = "own" \/ user.program = "sol"
  BY UserAssumption DEF Types
<1>3. ASSUME NEW k \in 1 .. 4, NEW label, NEW then, NEW to,
             Ask(a, label, to, Kind(k), then), to = Neighbour(a)[k],
             Asked(label) = k - 1, Asked(then) = k, Awaited(label) \in Nat, Awaited(then) = Awaited(label) + 1,
             then \in Asking, user.program = "sol" => then \in SolLabels
      PROVE  \E j \in 1 .. 4 :
           /\ pipe' = [pipe EXCEPT ![Neighbour(a)[j]] = Append(@, Question(a, Kind(j)))]
           /\ Asked(pc[a]) = j - 1 /\ Asked(pc'[a]) = j /\ Awaited(pc[a]) \in Nat
           /\ Awaited(pc'[a]) = Awaited(pc[a]) + 1
           /\ pc'[a] \in Asking /\ (user.program = "sol" => pc'[a] \in SolLabels)
           /\ UNCHANGED <<user, coordinator, boards, put>>
  <2>1. pc[a] = label /\ pc'[a] = then
    BY <1>1, <1>3 DEF Ask
  <2>2. /\ pipe' = [pipe EXCEPT ![Neighbour(a)[k]] = Append(@, Question(a, Kind(k)))]
        /\ UNCHANGED <<user, coordinator, boards, put>>
    BY <1>3 DEF Ask
  <2>3. QED
    BY <1>3, <2>1, <2>2
<1>4. CASE AskRow(a) \/ AskCol(a)
  <2>1. pc[a] \notin SolLabels /\ user.program = "own"
    BY <1>2, <1>4 DEF AskRow, AskCol, Ask, SolLabels
  <2>2. /\ Neighbour(a)[1] = get_row_adj(a)[1] /\ Neighbour(a)[2] = get_row_adj(a)[2]
        /\ Neighbour(a)[3] = get_col_adj(a)[1] /\ Neighbour(a)[4] = get_col_adj(a)[2]
    BY <2>1 DEF Neighbour
  <2>3. Kind(1) = "r" /\ Kind(2) = "r" /\ Kind(3) = "c" /\ Kind(4) = "c"
    BY DEF Kind
  <2>4. /\ Asked("row1") = 0 /\ Asked("row2") = 1 /\ Asked("row_answer1") = 2
        /\ Asked("col1") = 2 /\ Asked("col2") = 3 /\ Asked("col_answer1") = 4
    BY DEF Asked
  <2>5. /\ Awaited("row1") = 0 /\ Awaited("row2") = 1 /\ Awaited("row_answer1") = 2
        /\ Awaited("col1") = 0 /\ Awaited("col2") = 1 /\ Awaited("col_answer1") = 2
    BY DEF Awaited
  <2>6. {"row2", "row_answer1", "col2", "col_answer1"} \subseteq Asking
    BY DEF Asking
  <2>7. user.program # "sol"
    BY <2>1
  <2>8. CASE Ask(a, "row1", get_row_adj(a)[1], "r", "row2")
    <3>1. 1 \in 1 .. 4 /\ 0 = 1 - 1 /\ 1 = 0 + 1 /\ 0 \in Nat
      OBVIOUS
    <3>2. QED
      BY <1>3, <2>2, <2>3, <2>4, <2>5, <2>6, <2>7, <2>8, <3>1
  <2>9. CASE Ask(a, "row2", get_row_adj(a)[2], "r", "row_answer1")
    <3>1. 2 \in 1 .. 4 /\ 1 = 2 - 1 /\ 2 = 1 + 1 /\ 1 \in Nat
      OBVIOUS
    <3>2. QED
      BY <1>3, <2>2, <2>3, <2>4, <2>5, <2>6, <2>7, <2>9, <3>1
  <2>10. CASE Ask(a, "col1", get_col_adj(a)[1], "c", "col2")
    <3>1. 3 \in 1 .. 4 /\ 2 = 3 - 1 /\ 1 = 0 + 1 /\ 0 \in Nat
      OBVIOUS
    <3>2. QED
      BY <1>3, <2>2, <2>3, <2>4, <2>5, <2>6, <2>7, <2>10, <3>1
  <2>11. CASE Ask(a, "col2", get_col_adj(a)[2], "c", "col_answer1")
    <3>1. 4 \in 1 .. 4 /\ 3 = 4 - 1 /\ 2 = 1 + 1 /\ 1 \in Nat
      OBVIOUS
    <3>2. QED
      BY <1>3, <2>2, <2>3, <2>4, <2>5, <2>6, <2>7, <2>11, <3>1
  <2>12. QED
    BY <1>4, <2>8, <2>9, <2>10, <2>11 DEF AskRow, AskCol
<1>5. CASE AskOne(a)
  <2>1. PICK k \in 1 .. 4 : Ask(a, Asks[k], genblocks(a)[k], IF k <= 2 THEN "r" ELSE "c", Reads[k])
    BY <1>5 DEF AskOne
  <2>2. Asks[k] \in SolLabels /\ Reads[k] \in SolLabels /\ Reads[k] \in Asking
    BY DEF Asks, Reads, SolLabels, Asking
  <2>3. user.program = "sol" /\ Neighbour(a) = genblocks(a)
    <3>1. pc[a] = Asks[k]
      BY <2>1 DEF Ask
    <3>2. user.program # "own"
      BY <2>2, <3>1
    <3>3. QED
      BY <1>2, <3>2 DEF Neighbour
  <2>4. Ask(a, Asks[k], Neighbour(a)[k], Kind(k), Reads[k])
    BY <2>1, <2>3 DEF Kind
  <2>5. Asked(Asks[k]) = k - 1 /\ Asked(Reads[k]) = k
    BY DEF Asked, Asks, Reads
  <2>6. Awaited(Asks[k]) = 0 /\ Awaited(Reads[k]) = 1
    BY DEF Awaited, Asks, Reads
  <2>7. 0 \in Nat /\ 1 = 0 + 1
    OBVIOUS
  <2>8. QED
    BY <1>3, <2>2, <2>4, <2>5, <2>6, <2>7
<1>6. QED
  BY <1>4, <1>5

\* To read an answer is to go on or to give up.
LEMMA ReadingStep ==
  ASSUME Types, NEW a \in Blocks, pipe[a] # <<>>, Head(pipe[a]).op \in Answers,
         user.program = "sol" => pc[a] \in SolLabels,
         user.program = "own" => pc[a] \notin SolLabels,
         TakeAnswers(a) \/ ReadOne(a) \/ PlaceDigit(a) \/ ColumnConflict(a)
  PROVE  /\ pipe' = [pipe EXCEPT ![a] = Tail(@)] /\ UNCHANGED <<user, coordinator, initial>>
         /\ \/ Head(pipe[a]).op = "1" /\ pc'[a] = "message" /\ current' = current
            \/ /\ Head(pipe[a]).op = "0" /\ pc'[a] = "loop"
               /\ Asked(pc[a]) = 4 /\ Awaited(pc[a]) = 1
               /\ current' = [current EXCEPT ![a] = WithDigit(@, put[a])]
            \/ /\ Head(pipe[a]).op = "0" /\ pc'[a] \in Asking /\ (user.program = "sol" => pc'[a] \in SolLabels)
               /\ Asked(pc'[a]) = Asked(pc[a]) /\ Awaited(pc[a]) = Awaited(pc'[a]) + 1
               /\ Awaited(pc'[a]) \in Nat /\ UNCHANGED <<current, put>>
<1>1. \A l : Goto(a, l) => pc'[a] = l
  BY DEF Goto, Types
<1>2. Read(a) = Head(pipe[a]).op /\ Unread(a) = Tail(pipe[a]) /\ Read(a) \in {"0", "1"}
  BY DEF Read, Unread, Answers
<1>3. user.program = "own" \/ user.program = "sol"
  BY UserAssumption DEF Types
<1>4. pipe' = [pipe EXCEPT ![a] = Tail(@)] /\ UNCHANGED <<user, coordinator, initial>>
  BY <1>2 DEF TakeAnswers, ReadOne, Answer, LastAnswer, LastConflict, PlaceDigit, ColumnConflict, AnswerAt, boards
<1>5. ASSUME NEW label, NEW then, Answer(a, label, then), then \in Asking, user.program = "sol" => then \in SolLabels,
             Asked(then) = Asked(label), Awaited(label) = Awaited(then) + 1, Awaited(then) \in Nat
      PROVE  \/ Head(pipe[a]).op = "1" /\ pc'[a] = "message" /\ current' = current
             \/ /\ Head(pipe[a]).op = "0" /\ pc'[a] \in Asking /\ (user.program = "sol" => pc'[a] \in SolLabels)
                /\ Asked(pc'[a]) = Asked(pc[a]) /\ Awaited(pc[a]) = Awaited(pc'[a]) + 1
                /\ Awaited(pc'[a]) \in Nat /\ UNCHANGED <<current, put>>
  <2>1. pc[a] = label /\ UNCHANGED <<current, put>>
    BY <1>5 DEF Answer, AnswerAt, boards
  <2>2. CASE Read(a) = "0"
    <3>1. pc'[a] = then
      BY <1>1, <1>5, <2>2 DEF Answer
    <3>2. QED
      BY <1>2, <1>5, <2>1, <2>2, <3>1
  <2>3. CASE Read(a) = "1"
    <3>1. pc'[a] = "message"
      BY <1>1, <1>5, <2>3 DEF Answer
    <3>2. QED
      BY <1>2, <2>1, <2>3, <3>1
  <2>4. QED
    BY <1>2, <2>2, <2>3
<1>6. CASE LastConflict(a) \/ ColumnConflict(a)
  <2>1. Read(a) = "1" /\ pc'[a] = "message" /\ current' = current
    BY <1>1, <1>2, <1>6 DEF LastConflict, ColumnConflict, boards
  <2>2. QED
    BY <1>2, <1>4, <2>1
<1>7. CASE LastAnswer(a) \/ PlaceDigit(a)
  <2>1. /\ Read(a) = "0" /\ pc'[a] = "loop" /\ current' = [current EXCEPT ![a] = WithDigit(@, put[a])]
        /\ pc[a] \in {"col_answer2", "read4"}
    BY <1>1, <1>7 DEF LastAnswer, PlaceDigit, AnswerAt, Return
  <2>2. Asked(pc[a]) = 4 /\ Awaited(pc[a]) = 1
    BY <2>1 DEF Asked, Awaited
  <2>3. QED
    BY <1>2, <1>4, <2>1, <2>2
<1>8. CASE ReadOne(a)
  <2>1. PICK k \in 1 .. 3 : Answer(a, Reads[k], Asks[k + 1])
    BY <1>8 DEF ReadOne
  <2>2. /\ Asks[k + 1] \in Asking /\ Asks[k + 1] \in SolLabels /\ Asked(Asks[k + 1]) = Asked(Reads[k])
        /\ Awaited(Reads[k]) = 1 /\ Awaited(Asks[k + 1]) = 0
    BY DEF Asks, Reads, Asking, SolLabels, Asked, Awaited
  <2>3. Awaited(Reads[k]) = Awaited(Asks[k + 1]) + 1 /\ Awaited(Asks[k + 1]) \in Nat
    BY <2>2
  <2>4. QED
    BY <1>4, <1>5, <2>1, <2>2, <2>3
<1>9. CASE \/ Answer(a, "row_answer1", "row_answer2") \/ Answer(a, "row_answer2", "col1")
           \/ Answer(a, "col_answer1", "col_answer2")
  <2>1. user.program # "sol"
    BY <1>9 DEF Answer, AnswerAt, SolLabels
  <2>2. {"row_answer2", "col1", "col_answer2"} \subseteq Asking
    BY DEF Asking
  <2>3. /\ Asked("row_answer1") = 2 /\ Asked("row_answer2") = 2 /\ Asked("col1") = 2
        /\ Asked("col_answer1") = 4 /\ Asked("col_answer2") = 4
    BY DEF Asked
  <2>4. /\ Awaited("row_answer1") = Awaited("row_answer2") + 1 /\ Awaited("row_answer2") = Awaited("col1") + 1
        /\ Awaited("col_answer1") = Awaited("col_answer2") + 1
        /\ Awaited("row_answer2") \in Nat /\ Awaited("col1") \in Nat /\ Awaited("col_answer2") \in Nat
    BY DEF Awaited
  <2>5. QED
    BY <1>4, <1>5, <1>9, <2>1, <2>2, <2>3, <2>4
<1>10. QED
  BY <1>6, <1>7, <1>8, <1>9 DEF TakeAnswers

\* What playing is in the next state, if the boards and the digit are the same.
LEMMA PlayingNext ==
  ASSUME Types, NEW a \in Blocks, NEW n, n = Neighbour(a), Playing(a),
         UNCHANGED <<user, sending, current>>, put'[a] = put[a],
         pc'[a] \in Asking, user.program = "sol" => pc'[a] \in SolLabels,
         \A x \in Blocks : x # a => pc'[x] = pc[x],
         \A x \in Blocks : x # a /\ (\A k \in 1 .. 4 : x # n[k]) => pipe'[x] = pipe[x],
         \A k \in 1 .. 4 : \/ pipe'[n[k]] = <<>>
                           \/ k <= Asked(pc'[a]) /\ pipe'[n[k]] = <<Question(a, Kind(k))>>,
         \A i \in 1 .. Len(pipe'[a]) : pipe'[a][i].op \in Answers,
         Len(pipe'[a]) + Len(pipe'[n[1]]) + Len(pipe'[n[2]]) + Len(pipe'[n[3]]) + Len(pipe'[n[4]]) = Awaited(pc'[a]),
         \A k \in 1 .. 4 : k <= Asked(pc'[a]) => \/ ~ has_conflict(n[k], Question(a, Kind(k)))
                                                  \/ pipe'[n[k]] # <<>>
                                                  \/ \E i \in 1 .. Len(pipe'[a]) : pipe'[a][i].op = "1"
  PROVE  Playing(a)'
<1>1. Neighbour(a)' = n
  BY DEF Neighbour
<1>2. \A op : Question(a, op)' = Question(a, op)
  BY DEF Question
<1>3. \A k \in 1 .. 4 : has_conflict(n[k], Question(a, Kind(k)))' <=> has_conflict(n[k], Question(a, Kind(k)))
  BY <1>2 DEF has_conflict
<1>4. \A k \in 1 .. 4 : k <= Asked(pc'[a]) => Cleared(a, k)'
  <2>1. SUFFICES ASSUME NEW k \in 1 .. 4, k <= Asked(pc'[a]) PROVE Cleared(a, k)'
    OBVIOUS
  <2>2. \/ ~ has_conflict(n[k], Question(a, Kind(k)))'
        \/ pipe'[n[k]] # <<>>
        \/ \E i \in 1 .. Len(pipe'[a]) : pipe'[a][i].op = "1"
    BY <1>3, <2>1
  <2>3. QED
    BY <1>1, <2>2 DEF Cleared
<1>5. Traffic(a)' = Awaited(pc'[a])
  BY <1>1 DEF Traffic
<1>6. \A k \in 1 .. 4 : \/ pipe'[Neighbour(a)'[k]] = <<>>
                        \/ k <= Asked(pc'[a]) /\ pipe'[Neighbour(a)'[k]] = <<Question(a, Kind(k))'>>
  <2>1. TAKE k \in 1 .. 4
  <2>2. Question(a, Kind(k))' = Question(a, Kind(k))
    BY DEF Question
  <2>3. QED
    BY <1>1, <2>2
<1>7. \A x \in Blocks : x # a /\ (\A k \in 1 .. 4 : x # Neighbour(a)'[k]) => pipe'[x] = <<>>
  BY <1>1 DEF Playing
<1>8. sending' = Prompt /\ NoConflict(current') /\ \A x \in Blocks : x # a => pc'[x] = "loop"
  BY DEF Playing
<1>9. QED
  BY <1>4, <1>5, <1>6, <1>7, <1>8 DEF Playing

\* When one of four numbers changes, so does their sum with a fifth.
LEMMA FourParts ==
  ASSUME NEW f1 \in Nat, NEW f2 \in Nat, NEW f3 \in Nat, NEW f4 \in Nat,
         NEW g1 \in Nat, NEW g2 \in Nat, NEW g3 \in Nat, NEW g4 \in Nat,
         NEW k \in 1 .. 4, NEW d \in Int, NEW t \in Nat, NEW u \in Nat, NEW e \in Int, u = t + e,
         g1 = IF k = 1 THEN f1 + d ELSE f1, g2 = IF k = 2 THEN f2 + d ELSE f2,
         g3 = IF k = 3 THEN f3 + d ELSE f3, g4 = IF k = 4 THEN f4 + d ELSE f4
  PROVE  u + g1 + g2 + g3 + g4 = (t + f1 + f2 + f3 + f4) + (d + e)
<1>1. k = 1 \/ k = 2 \/ k = 3 \/ k = 4
  OBVIOUS
<1>2. QED
  BY <1>1

\* Five numbers, one of them positive, that make one.
LEMMA FiveParts ==
  ASSUME NEW t \in Nat, NEW l1 \in Nat, NEW l2 \in Nat, NEW l3 \in Nat, NEW l4 \in Nat,
         t >= 1, t + l1 + l2 + l3 + l4 = 1
  PROVE  t = 1 /\ l1 = 0 /\ l2 = 0 /\ l3 = 0 /\ l4 = 0
OBVIOUS

\* A neighbour answers.
LEMMA PlayingReply ==
  ASSUME Types, NEW a \in Blocks, Playing(a), NEW b \in Blocks, b # a, BlockStep(b)
  PROVE  Playing(a)'
<1>1. /\ pc \in [Blocks -> Labels] /\ pipe \in [Blocks -> Seq(Messages)] /\ pipe[a] \in Seq(Messages)
  BY DEF Types
<1>2. PICK n : n = Neighbour(a)
  OBVIOUS
<1>3. /\ \A k \in 1 .. 4 : n[k] \in Blocks /\ n[k] # a
      /\ \A j, k \in 1 .. 4 : j # k => n[j] # n[k]
  BY <1>2, NeighbourFacts
<1>4. pc[b] = "loop" /\ pipe[b] # <<>>
  BY LoopSteps DEF Playing
<1>5. PICK k \in 1 .. 4 : b = n[k]
  BY <1>2, <1>4 DEF Playing
<1>6. k <= Asked(pc[a]) /\ pipe[b] = <<Question(a, Kind(k))>>
  BY <1>2, <1>4, <1>5 DEF Playing
<1>7. PICK q \in Questions : q = Question(a, Kind(k))
  BY QuestionTypes DEF Kind
<1>8. q.from = a /\ q.op \in {"r", "c"}
  BY <1>7, QuestionFields DEF Question
<1>9. pipe[b] = <<q>> /\ Head(pipe[b]) = q /\ Tail(pipe[b]) = <<>> /\ Len(pipe[b]) = 1
  BY <1>6, <1>7, OneMessage
<1>10. Reply(b)
  BY <1>4, <1>8, <1>9, LoopSteps
<1>11. PICK m \in Messages : m = [op |-> IF has_conflict(b, q) THEN "1" ELSE "0"]
  BY DEF Messages
<1>12. /\ UNCHANGED <<user, sending, pc, current, put>>
       /\ \A x \in Blocks : pipe'[x] = IF x = a THEN Append(pipe[a], m) ELSE IF x = b THEN <<>> ELSE pipe[x]
  <2>1. /\ UNCHANGED <<user, sending, pc, current, put>>
        /\ pipe' = [[pipe EXCEPT ![b] = Tail(@)] EXCEPT ![a] = Append(@, m)]
    BY <1>8, <1>9, <1>10, <1>11 DEF Reply, boards, coordinator
  <2>2. QED
    BY <1>1, <1>9, <2>1
<1>13. /\ Len(pipe'[a]) = Len(pipe[a]) + 1 /\ Len(pipe[a]) \in Nat /\ pipe'[a][Len(pipe[a]) + 1] = m
       /\ \A i \in 1 .. Len(pipe[a]) : pipe'[a][i] = pipe[a][i]
  <2>1. pipe'[a] = Append(pipe[a], m)
    BY <1>12
  <2>2. QED
    BY <1>1, <2>1, Writing
<1>14. m.op \in Answers /\ (has_conflict(b, q) => m.op = "1")
  BY <1>11 DEF Answers
<1>15. \A j \in 1 .. 4 : pipe'[n[j]] = IF j = k THEN <<>> ELSE pipe[n[j]]
  BY <1>3, <1>5, <1>12
<1>16. \A i \in 1 .. Len(pipe'[a]) : pipe'[a][i].op \in Answers
  <2>1. TAKE i \in 1 .. Len(pipe'[a])
  <2>2. i \in 1 .. Len(pipe[a]) \/ i = Len(pipe[a]) + 1
    BY <1>13
  <2>3. QED
    BY <1>13, <1>14, <2>2 DEF Playing
<1>17. Len(pipe'[a]) + Len(pipe'[n[1]]) + Len(pipe'[n[2]]) + Len(pipe'[n[3]]) + Len(pipe'[n[4]]) = Awaited(pc'[a])
  <2>1. Len(pipe[a]) + Len(pipe[n[1]]) + Len(pipe[n[2]]) + Len(pipe[n[3]]) + Len(pipe[n[4]]) = Awaited(pc[a])
    BY <1>2 DEF Playing, Traffic
  <2>2. \A j \in 1 .. 4 : /\ Len(pipe[n[j]]) \in Nat /\ Len(pipe'[n[j]]) \in Nat
                          /\ j = k => Len(pipe'[n[j]]) = 0
                          /\ j # k => Len(pipe'[n[j]]) = Len(pipe[n[j]])
    <3>1. TAKE j \in 1 .. 4
    <3>2. pipe[n[j]] \in Seq(Messages)
      BY <1>1, <1>3
    <3>3. Len(pipe[n[j]]) \in Nat
      BY <3>2
    <3>4. (j = k => Len(pipe'[n[j]]) = 0) /\ (j # k => Len(pipe'[n[j]]) = Len(pipe[n[j]]))
      BY <1>15, OneMessage
    <3>5. QED
      BY <3>3, <3>4
  <2>3. Len(pipe[n[k]]) = 1
    BY <1>5, <1>9
  <2>4. Len(pipe'[a]) = Len(pipe[a]) + 1 /\ Len(pipe[a]) \in Nat /\ Len(pipe'[a]) \in Nat /\ pc'[a] = pc[a]
    BY <1>12, <1>13
  <2>5. PICK f1, f2, f3, f4 : /\ f1 = Len(pipe[n[1]]) /\ f2 = Len(pipe[n[2]])
                              /\ f3 = Len(pipe[n[3]]) /\ f4 = Len(pipe[n[4]])
    OBVIOUS
  <2>6. PICK g1, g2, g3, g4 : /\ g1 = Len(pipe'[n[1]]) /\ g2 = Len(pipe'[n[2]])
                              /\ g3 = Len(pipe'[n[3]]) /\ g4 = Len(pipe'[n[4]])
    OBVIOUS
  <2>7. f1 \in Nat /\ g1 \in Nat /\ g1 = IF k = 1 THEN f1 + (-1) ELSE f1
    <3>1. 1 \in 1 .. 4
      OBVIOUS
    <3>2. f1 \in Nat /\ g1 \in Nat /\ (1 # k => g1 = f1)
      BY <2>2, <2>5, <2>6, <3>1
    <3>3. 1 = k => f1 = 1 /\ g1 = 0
      BY <2>2, <2>3, <2>5, <2>6
    <3>4. QED
      BY <3>2, <3>3
  <2>8. f2 \in Nat /\ g2 \in Nat /\ g2 = IF k = 2 THEN f2 + (-1) ELSE f2
    <3>1. 2 \in 1 .. 4
      OBVIOUS
    <3>2. f2 \in Nat /\ g2 \in Nat /\ (2 # k => g2 = f2)
      BY <2>2, <2>5, <2>6, <3>1
    <3>3. 2 = k => f2 = 1 /\ g2 = 0
      BY <2>2, <2>3, <2>5, <2>6
    <3>4. QED
      BY <3>2, <3>3
  <2>9. f3 \in Nat /\ g3 \in Nat /\ g3 = IF k = 3 THEN f3 + (-1) ELSE f3
    <3>1. 3 \in 1 .. 4
      OBVIOUS
    <3>2. f3 \in Nat /\ g3 \in Nat /\ (3 # k => g3 = f3)
      BY <2>2, <2>5, <2>6, <3>1
    <3>3. 3 = k => f3 = 1 /\ g3 = 0
      BY <2>2, <2>3, <2>5, <2>6
    <3>4. QED
      BY <3>2, <3>3
  <2>10. f4 \in Nat /\ g4 \in Nat /\ g4 = IF k = 4 THEN f4 + (-1) ELSE f4
    <3>1. 4 \in 1 .. 4
      OBVIOUS
    <3>2. f4 \in Nat /\ g4 \in Nat /\ (4 # k => g4 = f4)
      BY <2>2, <2>5, <2>6, <3>1
    <3>3. 4 = k => f4 = 1 /\ g4 = 0
      BY <2>2, <2>3, <2>5, <2>6
    <3>4. QED
      BY <3>2, <3>3
  <2>11. PICK t, u : t = Len(pipe[a]) /\ u = Len(pipe'[a])
    OBVIOUS
  <2>12. t \in Nat /\ u \in Nat /\ u = t + 1
    BY <2>4, <2>11
  <2>13. u + g1 + g2 + g3 + g4 = (t + f1 + f2 + f3 + f4) + (-1 + 1)
    BY <2>7, <2>8, <2>9, <2>10, <2>12, FourParts
  <2>14. t + f1 + f2 + f3 + f4 = Awaited(pc[a])
    BY <2>1, <2>5, <2>11
  <2>15. u + g1 + g2 + g3 + g4 = Awaited(pc'[a])
    <3>1. Awaited(pc[a]) \in Nat /\ Awaited(pc'[a]) = Awaited(pc[a]) + (-1 + 1)
      BY <2>4 DEF Awaited
    <3>2. QED
      BY <2>13, <2>14, <3>1
  <2>16. QED
    BY <2>6, <2>11, <2>15
<1>18. \A j \in 1 .. 4 : j <= Asked(pc'[a]) => \/ ~ has_conflict(n[j], Question(a, Kind(j)))
                                                \/ pipe'[n[j]] # <<>>
                                                \/ \E i \in 1 .. Len(pipe'[a]) : pipe'[a][i].op = "1"
  <2>1. SUFFICES ASSUME NEW j \in 1 .. 4, j <= Asked(pc'[a])
                 PROVE  \/ ~ has_conflict(n[j], Question(a, Kind(j)))
                        \/ pipe'[n[j]] # <<>>
                        \/ \E i \in 1 .. Len(pipe'[a]) : pipe'[a][i].op = "1"
    OBVIOUS
  <2>2. ASSUME NEW i \in 1 .. Len(pipe[a]), pipe[a][i].op = "1"
        PROVE  \E l \in 1 .. Len(pipe'[a]) : pipe'[a][l].op = "1"
    <3>1. i \in 1 .. Len(pipe'[a]) /\ pipe'[a][i].op = "1"
      BY <1>13, <2>2
    <3>2. QED
      BY <3>1
  <2>3. CASE j = k
    <3>1. CASE has_conflict(b, q)
      <4>1. Len(pipe[a]) + 1 \in 1 .. Len(pipe'[a]) /\ pipe'[a][Len(pipe[a]) + 1].op = "1"
        BY <1>13, <1>14, <3>1
      <4>2. QED
        BY <4>1
    <3>2. CASE ~ has_conflict(b, q)
      BY <1>5, <1>7, <2>3, <3>2
    <3>3. QED
      BY <3>1, <3>2
  <2>4. CASE j # k
    <3>1. pipe'[n[j]] = pipe[n[j]]
      BY <1>15, <2>4
    <3>2. Cleared(a, j)
      BY <1>12, <2>1 DEF Playing
    <3>3. \/ ~ has_conflict(n[j], Question(a, Kind(j)))
          \/ pipe[n[j]] # <<>>
          \/ \E i \in 1 .. Len(pipe[a]) : pipe[a][i].op = "1"
      BY <1>2, <3>2 DEF Cleared
    <3>4. QED
      BY <2>2, <3>1, <3>3
  <2>5. QED
    BY <2>3, <2>4
<1>19. \A j \in 1 .. 4 : \/ pipe'[n[j]] = <<>>
                         \/ j <= Asked(pc'[a]) /\ pipe'[n[j]] = <<Question(a, Kind(j))>>
  BY <1>2, <1>12, <1>15 DEF Playing
<1>20. \A x \in Blocks : x # a /\ (\A j \in 1 .. 4 : x # n[j]) => pipe'[x] = pipe[x]
  BY <1>5, <1>12
<1>21. pc'[a] \in Asking /\ (user.program = "sol" => pc'[a] \in SolLabels)
  BY <1>12 DEF Playing
<1>22. QED
  BY <1>2, <1>12, <1>16, <1>17, <1>18, <1>19, <1>20, <1>21, PlayingNext

\* The block asks the next neighbour.
LEMMA PlayingAsk ==
  ASSUME Types, DrawInv, NEW a \in Blocks, Playing(a), BlockStep(a), AskRow(a) \/ AskCol(a) \/ AskOne(a)
  PROVE  Playing(a)'
<1>1. /\ pc \in [Blocks -> Labels] /\ pipe \in [Blocks -> Seq(Messages)] /\ pipe[a] \in Seq(Messages)
  BY DEF Types
<1>2. PICK n : n = Neighbour(a)
  OBVIOUS
<1>3. /\ \A k \in 1 .. 4 : n[k] \in Blocks /\ n[k] # a
      /\ \A j, k \in 1 .. 4 : j # k => n[j] # n[k]
  BY <1>2, NeighbourFacts
<1>4. PICK k \in 1 .. 4 :
        /\ pipe' = [pipe EXCEPT ![n[k]] = Append(@, Question(a, Kind(k)))]
        /\ Asked(pc[a]) = k - 1 /\ Asked(pc'[a]) = k /\ Awaited(pc[a]) \in Nat
        /\ Awaited(pc'[a]) = Awaited(pc[a]) + 1
        /\ pc'[a] \in Asking /\ (user.program = "sol" => pc'[a] \in SolLabels)
        /\ UNCHANGED <<user, coordinator, boards, put>>
  BY <1>2, AskingStep DEF Playing, DrawInv
<1>5. UNCHANGED <<user, sending, current, put>> /\ \A x \in Blocks : x # a => pc'[x] = pc[x]
  BY <1>4, PipeShapes DEF boards, coordinator
<1>6. pipe[n[k]] = <<>>
  <2>1. ~ (k <= Asked(pc[a]))
    BY <1>4
  <2>2. QED
    BY <1>2, <2>1 DEF Playing
<1>7. \A x \in Blocks : pipe'[x] = IF x = n[k] THEN <<Question(a, Kind(k))>> ELSE pipe[x]
  <2>1. \A x \in Blocks : pipe'[x] = IF x = n[k] THEN Append(pipe[x], Question(a, Kind(k))) ELSE pipe[x]
    BY <1>1, <1>3, <1>4
  <2>2. Append(<<>>, Question(a, Kind(k))) = <<Question(a, Kind(k))>>
    BY OneMessage
  <2>3. QED
    BY <1>6, <2>1, <2>2
<1>8. pipe'[a] = pipe[a]
  BY <1>3, <1>7
<1>9. \A j \in 1 .. 4 : pipe'[n[j]] = IF j = k THEN <<Question(a, Kind(k))>> ELSE pipe[n[j]]
  BY <1>3, <1>7
<1>10. \A i \in 1 .. Len(pipe'[a]) : pipe'[a][i].op \in Answers
  BY <1>8 DEF Playing
<1>11. Len(pipe'[a]) + Len(pipe'[n[1]]) + Len(pipe'[n[2]]) + Len(pipe'[n[3]]) + Len(pipe'[n[4]]) = Awaited(pc'[a])
  <2>1. Len(pipe[a]) + Len(pipe[n[1]]) + Len(pipe[n[2]]) + Len(pipe[n[3]]) + Len(pipe[n[4]]) = Awaited(pc[a])
    BY <1>2 DEF Playing, Traffic
  <2>2. \A j \in 1 .. 4 : /\ Len(pipe[n[j]]) \in Nat /\ Len(pipe'[n[j]]) \in Nat
                          /\ j = k => Len(pipe'[n[j]]) = 1
                          /\ j # k => Len(pipe'[n[j]]) = Len(pipe[n[j]])
    <3>1. TAKE j \in 1 .. 4
    <3>2. pipe[n[j]] \in Seq(Messages)
      BY <1>1, <1>3
    <3>3. Len(pipe[n[j]]) \in Nat
      BY <3>2
    <3>4. (j = k => Len(pipe'[n[j]]) = 1) /\ (j # k => Len(pipe'[n[j]]) = Len(pipe[n[j]]))
      BY <1>9, OneMessage
    <3>5. QED
      BY <3>3, <3>4
  <2>3. Len(pipe[n[k]]) = 0
    BY <1>6, OneMessage
  <2>4. Len(pipe'[a]) = Len(pipe[a]) + 0 /\ Len(pipe[a]) \in Nat /\ Len(pipe'[a]) \in Nat
    BY <1>1, <1>8
  <2>5. PICK f1, f2, f3, f4 : /\ f1 = Len(pipe[n[1]]) /\ f2 = Len(pipe[n[2]])
                              /\ f3 = Len(pipe[n[3]]) /\ f4 = Len(pipe[n[4]])
    OBVIOUS
  <2>6. PICK g1, g2, g3, g4 : /\ g1 = Len(pipe'[n[1]]) /\ g2 = Len(pipe'[n[2]])
                              /\ g3 = Len(pipe'[n[3]]) /\ g4 = Len(pipe'[n[4]])
    OBVIOUS
  <2>7. f1 \in Nat /\ g1 \in Nat /\ g1 = IF k = 1 THEN f1 + (1) ELSE f1
    <3>1. 1 \in 1 .. 4
      OBVIOUS
    <3>2. f1 \in Nat /\ g1 \in Nat /\ (1 # k => g1 = f1)
      BY <2>2, <2>5, <2>6, <3>1
    <3>3. 1 = k => f1 = 0 /\ g1 = 1
      BY <2>2, <2>3, <2>5, <2>6
    <3>4. QED
      BY <3>2, <3>3
  <2>8. f2 \in Nat /\ g2 \in Nat /\ g2 = IF k = 2 THEN f2 + (1) ELSE f2
    <3>1. 2 \in 1 .. 4
      OBVIOUS
    <3>2. f2 \in Nat /\ g2 \in Nat /\ (2 # k => g2 = f2)
      BY <2>2, <2>5, <2>6, <3>1
    <3>3. 2 = k => f2 = 0 /\ g2 = 1
      BY <2>2, <2>3, <2>5, <2>6
    <3>4. QED
      BY <3>2, <3>3
  <2>9. f3 \in Nat /\ g3 \in Nat /\ g3 = IF k = 3 THEN f3 + (1) ELSE f3
    <3>1. 3 \in 1 .. 4
      OBVIOUS
    <3>2. f3 \in Nat /\ g3 \in Nat /\ (3 # k => g3 = f3)
      BY <2>2, <2>5, <2>6, <3>1
    <3>3. 3 = k => f3 = 0 /\ g3 = 1
      BY <2>2, <2>3, <2>5, <2>6
    <3>4. QED
      BY <3>2, <3>3
  <2>10. f4 \in Nat /\ g4 \in Nat /\ g4 = IF k = 4 THEN f4 + (1) ELSE f4
    <3>1. 4 \in 1 .. 4
      OBVIOUS
    <3>2. f4 \in Nat /\ g4 \in Nat /\ (4 # k => g4 = f4)
      BY <2>2, <2>5, <2>6, <3>1
    <3>3. 4 = k => f4 = 0 /\ g4 = 1
      BY <2>2, <2>3, <2>5, <2>6
    <3>4. QED
      BY <3>2, <3>3
  <2>11. PICK t, u : t = Len(pipe[a]) /\ u = Len(pipe'[a])
    OBVIOUS
  <2>12. t \in Nat /\ u \in Nat /\ u = t + 0
    BY <2>4, <2>11
  <2>13. u + g1 + g2 + g3 + g4 = (t + f1 + f2 + f3 + f4) + (1 + 0)
    BY <2>7, <2>8, <2>9, <2>10, <2>12, FourParts
  <2>14. t + f1 + f2 + f3 + f4 = Awaited(pc[a])
    BY <2>1, <2>5, <2>11
  <2>15. u + g1 + g2 + g3 + g4 = Awaited(pc'[a])
    <3>1. Awaited(pc[a]) \in Nat /\ Awaited(pc'[a]) = Awaited(pc[a]) + (1 + 0)
      BY <1>4 DEF Awaited
    <3>2. QED
      BY <2>13, <2>14, <3>1
  <2>16. QED
    BY <2>6, <2>11, <2>15
<1>12. \A j \in 1 .. 4 : j <= Asked(pc'[a]) => \/ ~ has_conflict(n[j], Question(a, Kind(j)))
                                                \/ pipe'[n[j]] # <<>>
                                                \/ \E i \in 1 .. Len(pipe'[a]) : pipe'[a][i].op = "1"
  <2>1. SUFFICES ASSUME NEW j \in 1 .. 4, j <= Asked(pc'[a])
                 PROVE  \/ ~ has_conflict(n[j], Question(a, Kind(j)))
                        \/ pipe'[n[j]] # <<>>
                        \/ \E i \in 1 .. Len(pipe'[a]) : pipe'[a][i].op = "1"
    OBVIOUS
  <2>2. CASE j = k
    BY <1>9, <2>2, OneMessage
  <2>3. CASE j # k
    <3>1. j <= Asked(pc[a])
      BY <1>4, <2>1, <2>3
    <3>2. Cleared(a, j)
      BY <3>1 DEF Playing
    <3>3. QED
      BY <1>2, <1>8, <1>9, <2>3, <3>2 DEF Cleared
  <2>4. QED
    BY <2>2, <2>3
<1>13. \A j \in 1 .. 4 : \/ pipe'[n[j]] = <<>>
                         \/ j <= Asked(pc'[a]) /\ pipe'[n[j]] = <<Question(a, Kind(j))>>
  <2>1. TAKE j \in 1 .. 4
  <2>2. CASE j = k
    <3>1. Asked(pc'[a]) = k /\ k <= k
      BY <1>4
    <3>2. pipe'[n[k]] = <<Question(a, Kind(k))>>
      BY <1>9
    <3>3. QED
      BY <2>2, <3>1, <3>2
  <2>3. CASE j # k
    <3>1. pipe[n[j]] = <<>> \/ (j <= Asked(pc[a]) /\ pipe[n[j]] = <<Question(a, Kind(j))>>)
      BY <1>2 DEF Playing
    <3>2. j <= Asked(pc[a]) => j <= Asked(pc'[a])
      BY <1>4
    <3>3. pipe'[n[j]] = pipe[n[j]]
      BY <1>9, <2>3
    <3>4. QED
      BY <3>1, <3>2, <3>3
  <2>4. QED
    BY <2>2, <2>3
<1>14. \A x \in Blocks : x # a /\ (\A j \in 1 .. 4 : x # n[j]) => pipe'[x] = pipe[x]
  BY <1>7
<1>15. /\ UNCHANGED <<user, sending, current>> /\ put'[a] = put[a]
       /\ pc'[a] \in Asking /\ (user.program = "sol" => pc'[a] \in SolLabels)
       /\ \A x \in Blocks : x # a => pc'[x] = pc[x]
  BY <1>4, <1>5
<1>16. QED
  BY <1>2, <1>10, <1>11, <1>12, <1>13, <1>14, <1>15, PlayingNext

\* The block reads an answer.
LEMMA PlayingRead ==
  ASSUME Types, DrawInv, NEW a \in Blocks, Playing(a), Proper(a), BlockStep(a),
         TakeAnswers(a) \/ ReadOne(a) \/ PlaceDigit(a) \/ ColumnConflict(a)
  PROVE  Playing(a)' \/ Ending(a)'
<1>1. /\ pc \in [Blocks -> Labels] /\ pipe \in [Blocks -> Seq(Messages)] /\ pipe[a] \in Seq(Messages)
  BY DEF Types
<1>2. PICK n : n = Neighbour(a)
  OBVIOUS
<1>3. /\ \A k \in 1 .. 4 : n[k] \in Blocks /\ n[k] # a
      /\ \A j, k \in 1 .. 4 : j # k => n[j] # n[k]
  BY <1>2, NeighbourFacts
<1>4. pipe[a] # <<>>
  BY DEF TakeAnswers, ReadOne, Answer, LastAnswer, LastConflict, PlaceDigit, ColumnConflict, AnswerAt
<1>5. /\ Len(pipe[a]) \in Nat /\ Len(pipe[a]) >= 1 /\ Head(pipe[a]) = pipe[a][1]
      /\ Len(Tail(pipe[a])) = Len(pipe[a]) - 1 /\ \A i \in 1 .. Len(pipe[a]) - 1 : Tail(pipe[a])[i] = pipe[a][i + 1]
  BY <1>1, <1>4, Taking
<1>6. Head(pipe[a]).op \in Answers
  <2>1. 1 \in 1 .. Len(pipe[a])
    BY <1>5
  <2>2. QED
    BY <1>5, <2>1 DEF Playing
<1>7. /\ pipe' = [pipe EXCEPT ![a] = Tail(@)] /\ UNCHANGED <<user, coordinator, initial>>
      /\ \/ Head(pipe[a]).op = "1" /\ pc'[a] = "message" /\ current' = current
         \/ /\ Head(pipe[a]).op = "0" /\ pc'[a] = "loop"
            /\ Asked(pc[a]) = 4 /\ Awaited(pc[a]) = 1
            /\ current' = [current EXCEPT ![a] = WithDigit(@, put[a])]
         \/ /\ Head(pipe[a]).op = "0" /\ pc'[a] \in Asking /\ (user.program = "sol" => pc'[a] \in SolLabels)
            /\ Asked(pc'[a]) = Asked(pc[a]) /\ Awaited(pc[a]) = Awaited(pc'[a]) + 1
            /\ Awaited(pc'[a]) \in Nat /\ UNCHANGED <<current, put>>
  BY <1>4, <1>6, ReadingStep DEF Playing, DrawInv
<1>8. /\ \A x \in Blocks : pipe'[x] = IF x = a THEN Tail(pipe[a]) ELSE pipe[x]
      /\ \A x \in Blocks : x # a => pc'[x] = pc[x]
      /\ sending' = sending /\ user' = user
  BY <1>1, <1>7, PipeShapes DEF coordinator
<1>9. \A j \in 1 .. 4 : pipe'[n[j]] = pipe[n[j]]
  BY <1>3, <1>8
<1>10. \A i \in 1 .. Len(pipe'[a]) : pipe'[a][i] = pipe[a][i + 1] /\ i + 1 \in 1 .. Len(pipe[a])
  <2>1. TAKE i \in 1 .. Len(pipe'[a])
  <2>2. i \in 1 .. Len(pipe[a]) - 1 /\ pipe'[a] = Tail(pipe[a])
    BY <1>5, <1>8
  <2>3. QED
    BY <1>5, <2>2
<1>11. \A i \in 1 .. Len(pipe'[a]) : pipe'[a][i].op \in Answers
  BY <1>10 DEF Playing
<1>12. /\ Len(pipe[a]) + Len(pipe[n[1]]) + Len(pipe[n[2]]) + Len(pipe[n[3]]) + Len(pipe[n[4]]) = Awaited(pc[a])
       /\ \A j \in 1 .. 4 : Len(pipe[n[j]]) \in Nat
  <2>1. \A j \in 1 .. 4 : Len(pipe[n[j]]) \in Nat
    <3>1. TAKE j \in 1 .. 4
    <3>2. pipe[n[j]] \in Seq(Messages)
      BY <1>1, <1>3
    <3>3. QED
      BY <3>2
  <2>2. QED
    BY <1>2, <2>1 DEF Playing, Traffic
<1>13. \A x \in Blocks : x # a => /\ pc'[x] = "loop"
                                  /\ pipe'[x] = <<>> \/ \E q \in Questions : q.from = a /\ pipe'[x] = <<q>>
  <2>1. SUFFICES ASSUME NEW x \in Blocks, x # a
                 PROVE  /\ pc'[x] = "loop"
                        /\ pipe'[x] = <<>> \/ \E q \in Questions : q.from = a /\ pipe'[x] = <<q>>
    OBVIOUS
  <2>2. pc'[x] = "loop" /\ pipe'[x] = pipe[x]
    BY <1>8, <2>1 DEF Playing
  <2>3. CASE \A j \in 1 .. 4 : x # n[j]
    BY <1>2, <2>1, <2>2, <2>3 DEF Playing
  <2>4. ASSUME NEW j \in 1 .. 4, x = n[j]
        PROVE  pipe[x] = <<>> \/ \E q \in Questions : q.from = a /\ pipe[x] = <<q>>
    <3>1. Question(a, Kind(j)) \in Questions /\ Question(a, Kind(j)).from = a
      BY QuestionTypes DEF Kind, Question
    <3>2. pipe[x] = <<>> \/ pipe[x] = <<Question(a, Kind(j))>>
      BY <1>2, <2>4 DEF Playing
    <3>3. QED
      BY <3>1, <3>2
  <2>5. QED
    BY <2>2, <2>3, <2>4
<1>14. CASE Head(pipe[a]).op = "1" /\ pc'[a] = "message" /\ current' = current
  BY <1>8, <1>11, <1>13, <1>14 DEF Ending, Playing
<1>15. CASE /\ Head(pipe[a]).op = "0" /\ pc'[a] = "loop"
            /\ Asked(pc[a]) = 4 /\ Awaited(pc[a]) = 1
            /\ current' = [current EXCEPT ![a] = WithDigit(@, put[a])]
  <2>1. Len(pipe[a]) = 1 /\ \A j \in 1 .. 4 : Len(pipe[n[j]]) = 0
    <3>1. 1 \in 1 .. 4 /\ 2 \in 1 .. 4 /\ 3 \in 1 .. 4 /\ 4 \in 1 .. 4
      OBVIOUS
    <3>2. /\ Len(pipe[n[1]]) \in Nat /\ Len(pipe[n[2]]) \in Nat /\ Len(pipe[n[3]]) \in Nat /\ Len(pipe[n[4]]) \in Nat
      BY <1>12, <3>1
    <3>3. Len(pipe[a]) + Len(pipe[n[1]]) + Len(pipe[n[2]]) + Len(pipe[n[3]]) + Len(pipe[n[4]]) = 1
      BY <1>12, <1>15
    <3>4. Len(pipe[a]) \in Nat /\ Len(pipe[a]) >= 1
      BY <1>5
    <3>5. /\ Len(pipe[n[1]]) = 0 /\ Len(pipe[n[2]]) = 0 /\ Len(pipe[n[3]]) = 0 /\ Len(pipe[n[4]]) = 0
          /\ Len(pipe[a]) = 1
      <4>1. PICK t, l1, l2, l3, l4 : /\ t = Len(pipe[a]) /\ l1 = Len(pipe[n[1]]) /\ l2 = Len(pipe[n[2]])
                                     /\ l3 = Len(pipe[n[3]]) /\ l4 = Len(pipe[n[4]])
        OBVIOUS
      <4>2. t \in Nat /\ l1 \in Nat /\ l2 \in Nat /\ l3 \in Nat /\ l4 \in Nat /\ t >= 1
        BY <3>2, <3>4, <4>1
      <4>3. t + l1 + l2 + l3 + l4 = 1
        BY <3>3, <4>1
      <4>4. t = 1 /\ l1 = 0 /\ l2 = 0 /\ l3 = 0 /\ l4 = 0
        BY <4>2, <4>3, FiveParts
      <4>5. QED
        BY <4>1, <4>4
    <3>6. QED
      BY <3>5
  <2>2. \A j \in 1 .. 4 : pipe[n[j]] = <<>>
    <3>1. TAKE j \in 1 .. 4
    <3>2. pipe[n[j]] = <<>> \/ pipe[n[j]] = <<Question(a, Kind(j))>>
      BY <1>2 DEF Playing
    <3>3. QED
      BY <2>1, <3>2, OneMessage
  <2>3. \A i \in 1 .. Len(pipe[a]) : pipe[a][i].op # "1"
    BY <1>5, <1>15, <2>1
  <2>4. \A j \in 1 .. 4 : ~ has_conflict(Neighbour(a)[j], Question(a, Kind(j)))
    <3>1. TAKE j \in 1 .. 4
    <3>2. Cleared(a, j)
      BY <1>15 DEF Playing
    <3>3. QED
      BY <1>2, <2>2, <2>3, <3>2 DEF Cleared
  <2>5. NoConflict(current')
    BY <1>15, <2>4, PlacedDigit DEF Playing
  <2>6. QED
    BY <1>8, <1>11, <1>13, <1>15, <2>5 DEF Ending, Playing
<1>16. CASE /\ Head(pipe[a]).op = "0" /\ pc'[a] \in Asking /\ (user.program = "sol" => pc'[a] \in SolLabels)
            /\ Asked(pc'[a]) = Asked(pc[a]) /\ Awaited(pc[a]) = Awaited(pc'[a]) + 1
            /\ Awaited(pc'[a]) \in Nat /\ UNCHANGED <<current, put>>
  <2>1. Len(pipe'[a]) + Len(pipe'[n[1]]) + Len(pipe'[n[2]]) + Len(pipe'[n[3]]) + Len(pipe'[n[4]]) = Awaited(pc'[a])
    <3>1. Len(pipe'[a]) = Len(pipe[a]) - 1
      BY <1>5, <1>8
    <3>2. /\ Len(pipe'[n[1]]) = Len(pipe[n[1]]) /\ Len(pipe'[n[2]]) = Len(pipe[n[2]])
          /\ Len(pipe'[n[3]]) = Len(pipe[n[3]]) /\ Len(pipe'[n[4]]) = Len(pipe[n[4]])
          /\ Len(pipe[n[1]]) \in Nat /\ Len(pipe[n[2]]) \in Nat /\ Len(pipe[n[3]]) \in Nat /\ Len(pipe[n[4]]) \in Nat
      BY <1>9, <1>12
    <3>3. /\ Len(pipe[a]) + Len(pipe[n[1]]) + Len(pipe[n[2]]) + Len(pipe[n[3]]) + Len(pipe[n[4]]) = Awaited(pc'[a]) + 1
          /\ Awaited(pc'[a]) \in Nat /\ Len(pipe[a]) \in Nat
      BY <1>5, <1>12, <1>16
    <3>4. PICK t, l1, l2, l3, l4 : /\ t = Len(pipe[a]) /\ l1 = Len(pipe[n[1]]) /\ l2 = Len(pipe[n[2]])
                                   /\ l3 = Len(pipe[n[3]]) /\ l4 = Len(pipe[n[4]])
      OBVIOUS
    <3>5. t \in Nat /\ l1 \in Nat /\ l2 \in Nat /\ l3 \in Nat /\ l4 \in Nat
      BY <3>2, <3>3, <3>4
    <3>6. t + l1 + l2 + l3 + l4 = Awaited(pc'[a]) + 1
      BY <3>3, <3>4
    <3>7. (t - 1) + l1 + l2 + l3 + l4 = Awaited(pc'[a])
      BY <3>3, <3>5, <3>6
    <3>8. QED
      BY <3>1, <3>2, <3>4, <3>7
  <2>2. \A j \in 1 .. 4 : j <= Asked(pc'[a]) => \/ ~ has_conflict(n[j], Question(a, Kind(j)))
                                                 \/ pipe'[n[j]] # <<>>
                                                 \/ \E i \in 1 .. Len(pipe'[a]) : pipe'[a][i].op = "1"
    <3>1. SUFFICES ASSUME NEW j \in 1 .. 4, j <= Asked(pc'[a])
                   PROVE  \/ ~ has_conflict(n[j], Question(a, Kind(j)))
                          \/ pipe'[n[j]] # <<>>
                          \/ \E i \in 1 .. Len(pipe'[a]) : pipe'[a][i].op = "1"
      OBVIOUS
    <3>2. Cleared(a, j)
      BY <1>16, <3>1 DEF Playing
    <3>3. ASSUME NEW i \in 1 .. Len(pipe[a]), pipe[a][i].op = "1"
          PROVE  \E l \in 1 .. Len(pipe'[a]) : pipe'[a][l].op = "1"
      <4>1. i # 1
        BY <1>5, <1>16, <3>3
      <4>2. Len(pipe'[a]) = Len(pipe[a]) - 1
        BY <1>5, <1>8
      <4>3. i - 1 \in 1 .. Len(pipe'[a]) /\ (i - 1) + 1 = i
        BY <1>5, <4>1, <4>2
      <4>4. pipe'[a][i - 1] = pipe[a][i]
        BY <1>10, <4>3
      <4>5. QED
        BY <3>3, <4>3, <4>4
    <3>4. QED
      BY <1>2, <1>9, <3>2, <3>3 DEF Cleared
  <2>3. \A j \in 1 .. 4 : \/ pipe'[n[j]] = <<>>
                          \/ j <= Asked(pc'[a]) /\ pipe'[n[j]] = <<Question(a, Kind(j))>>
    BY <1>2, <1>9, <1>16 DEF Playing
  <2>4. \A x \in Blocks : x # a /\ (\A j \in 1 .. 4 : x # n[j]) => pipe'[x] = pipe[x]
    BY <1>8
  <2>5. Playing(a)'
    BY <1>2, <1>8, <1>11, <1>16, <2>1, <2>2, <2>3, <2>4, PlayingNext
  <2>6. QED
    BY <2>5
<1>17. QED
  BY <1>7, <1>14, <1>15, <1>16

\* Every step of a patient user's game is part of one thing.
LEMMA PatientInvPreserved ==
  Types /\ DrawInv /\ (\A b \in Blocks : Proper(b)) /\ PatientInv /\ [Next]_vars => PatientInv'
<1>. SUFFICES ASSUME Types, DrawInv, \A b \in Blocks : Proper(b), PatientInv, [Next]_vars
              PROVE  PatientInv'
  BY ZenonT(60)
<1>1. user' = user
  BY ZenonT(40) DEF Next, vars, NewGame, Solution, Quit, Send, Put, GameOver, BlockStep, SolStep, TakeBoard, ShowSolution,
         TakePut, Message, AskRow, AskCol, Ask, TakeAnswers, Answer, LastAnswer, LastConflict, Reply, Ignore, Leave,
         readblock, tryset, AskOne, ReadOne, PlaceDigit, ColumnConflict
<1>2. CASE user.hurries # {}
  BY <1>1, <1>2 DEF PatientInv
<1>3. CASE user.hurries = {} /\ UNCHANGED vars
  <2>1. UNCHANGED <<user, grid, sending, pipe, current, pc, put>>
    BY <1>3 DEF vars, coordinator, boards
  <2>2. \A x \in Blocks, op \in {"n", "s"} : Pending(x, op)' = Pending(x, op)
    BY <2>1 DEF Pending
  <2>3. Drawing => Drawing'
    BY <2>1, <2>2 DEF Drawing
  <2>4. Quitting => Quitting'
    BY <2>1 DEF Quitting
  <2>5. ASSUME NEW a \in Blocks
        PROVE  /\ Waiting(a) => Waiting(a)'
               /\ Ending(a) => Ending(a)'
               /\ Playing(a) => Playing(a)'
    <3>1. Waiting(a) => Waiting(a)'
      BY <2>1 DEF Waiting
    <3>2. Ending(a) => Ending(a)'
      BY <2>1 DEF Ending
    <3>3. ASSUME Playing(a)
          PROVE  Playing(a)'
      <4>1. PICK n : n = Neighbour(a)
        OBVIOUS
      <4>2. /\ \A k \in 1 .. 4 : \/ pipe'[n[k]] = <<>>
                                 \/ k <= Asked(pc'[a]) /\ pipe'[n[k]] = <<Question(a, Kind(k))>>
            /\ \A k \in 1 .. 4 : k <= Asked(pc'[a]) => \/ ~ has_conflict(n[k], Question(a, Kind(k)))
                                                        \/ pipe'[n[k]] # <<>>
                                                        \/ \E i \in 1 .. Len(pipe'[a]) : pipe'[a][i].op = "1"
        BY <2>1, <3>3, <4>1 DEF Playing, Cleared
      <4>3. /\ pc'[a] \in Asking /\ (user.program = "sol" => pc'[a] \in SolLabels)
            /\ \A i \in 1 .. Len(pipe'[a]) : pipe'[a][i].op \in Answers
            /\ Len(pipe'[a]) + Len(pipe'[n[1]]) + Len(pipe'[n[2]]) + Len(pipe'[n[3]]) + Len(pipe'[n[4]])
                 = Awaited(pc'[a])
        BY <2>1, <3>3, <4>1 DEF Playing, Traffic
      <4>4. QED
        BY <2>1, <3>3, <4>1, <4>2, <4>3, PlayingNext
    <3>4. QED
      BY <3>1, <3>2, <3>3
  <2>6. QED
    BY <1>3, <2>3, <2>4, <2>5 DEF PatientInv
<1>4. CASE user.hurries = {} /\ (NewGame \/ Solution \/ Quit \/ \E move \in user.moves : Put(move[1], move[2], move[3]))
  BY <1>4, PatientCommands
<1>5. CASE user.hurries = {} /\ Send
  BY <1>5, PatientSend
<1>6. ASSUME user.hurries = {}, NEW b \in Blocks, BlockStep(b)
      PROVE  PatientInv'
  <2>1. CASE Drawing
    BY <1>6, <2>1, PatientDrawing DEF PatientInv
  <2>2. CASE Quitting
    BY <1>6, <2>2, PatientQuitting DEF PatientInv
  <2>3. ASSUME NEW a \in Blocks, Waiting(a)
        PROVE  PatientInv'
    BY <1>6, <2>3, PatientWaiting DEF PatientInv
  <2>4. ASSUME NEW a \in Blocks, Ending(a)
        PROVE  PatientInv'
    BY <1>6, <2>4, PatientEnding DEF PatientInv
  <2>5. ASSUME NEW a \in Blocks, Playing(a)
        PROVE  PatientInv'
    <3>1. CASE b # a
      BY <1>6, <2>5, <3>1, PlayingReply DEF PatientInv
    <3>2. CASE b = a
      <4>1. pc[a] \in Asking /\ pc[a] # "loop" /\ ~ Message(a)
        BY <2>5 DEF Playing, Asking, Message
      <4>2. AskRow(a) \/ AskCol(a) \/ AskOne(a) \/ TakeAnswers(a) \/ ReadOne(a) \/ PlaceDigit(a) \/ ColumnConflict(a)
        BY <1>6, <3>2, <4>1, OtherSteps
      <4>3. Playing(a)' \/ Ending(a)'
        BY <1>6, <2>5, <3>2, <4>2, PlayingAsk, PlayingRead
      <4>4. QED
        BY <4>3 DEF PatientInv
    <3>3. QED
      BY <3>1, <3>2
  <2>6. QED
    BY <1>6, <2>1, <2>2, <2>3, <2>4, <2>5 DEF PatientInv
<1>7. QED
  BY <1>2, <1>3, <1>4, <1>5, <1>6 DEF Next, GameOver

\* A patient user's game begins with a board that is drawn.
LEMMA InitPatient == Init => PatientInv
<1>. SUFFICES ASSUME Init PROVE PatientInv
  OBVIOUS
<1>1. sending.op = "n" /\ sending.next = 0 /\ \A x \in Blocks : pipe[x] = <<>> /\ pc[x] = "loop"
  BY DEF Init
<1>2. \A x \in Blocks : Pending(x, "n")
  BY <1>1 DEF Pending, Blocks, N
<1>3. \A x \in Blocks : ~ Pending(x, "s")
  BY <1>1, EmptySeq DEF Pending
<1>4. 0 \in Blocks
  BY DEF Blocks, N
<1>5. Drawing
  BY <1>1, <1>2, <1>3, <1>4 DEF Drawing
<1>6. QED
  BY <1>5 DEF PatientInv

\* A patient user's game is always one thing at a time, and no block of block.c
\* ever waits for more than is coming.
LEMMA PlayAlways == Spec => [](Types /\ DrawInv /\ WaitInv /\ PatientInv)
BY TypesAlways, IntactAlways, InitWait, WaitInvPreserved, InitPatient, PatientInvPreserved, PTL DEF Spec

\* When the user waits until all is quiet before each command, no row, column or
\* block ever holds a digit twice once the boards are drawn, whatever the puzzle
\* and however long the game, although no process sees more than its own block
\* and the answers of four others (block.c l. 165-262, sol block.c l. 108-191).
THEOREM PatientPlayStaysConsistent == Spec => []PatientPlayIsConsistent
<1>1. Types /\ PatientInv => PatientPlayIsConsistent
  <2>1. SUFFICES ASSUME Types, PatientInv, user.hurries = {}, Drawn, sending.op \notin {"n", "s"}
                 PROVE  NoConflict(current)
    BY DEF PatientPlayIsConsistent
  <2>2. \A x \in Blocks : ~ Pending(x, "n") /\ ~ Pending(x, "s")
    <3>1. TAKE x \in Blocks
    <3>2. DOMAIN pipe[x] = 1 .. Len(pipe[x])
      BY <2>1 DEF Types
    <3>3. QED
      BY <2>1, <3>2 DEF Drawn, Pending
  <2>3. Drawing => NoConflict(current)
    BY <2>2 DEF Drawing
  <2>4. Quitting => NoConflict(current)
    BY DEF Quitting
  <2>5. \A a \in Blocks : Waiting(a) \/ Playing(a) \/ Ending(a) => NoConflict(current)
    BY DEF Waiting, Playing, Ending
  <2>6. QED
    BY <2>1, <2>3, <2>4, <2>5 DEF PatientInv
<1>2. QED
  BY <1>1, PlayAlways, PTL

\* What a block of sol_LA4 waits for in a patient user's game is under way: its
\* question, or the answer to it.
LEMMA PlayingIsOwed ==
  ASSUME Types, NEW a \in Blocks, Playing(a), Awaited(pc[a]) >= 1
  PROVE  Cardinality(UnderIn(pipe, a)) >= 1
<1>1. pipe \in [Blocks -> Seq(Messages)]
  BY DEF Types
<1>2. /\ IsFiniteSet(UnderIn(pipe, a)) /\ Cardinality(UnderIn(pipe, a)) \in Nat
      /\ \A to \in Blocks : \A i \in 1 .. Len(pipe[to]) : Owed(a, to, pipe[to][i]) => <<to, i>> \in UnderIn(pipe, a)
  BY <1>1, UnderFinite, InUnder
<1>3. PICK n : n = Neighbour(a)
  OBVIOUS
<1>4. \A k \in 1 .. 4 : n[k] \in Blocks
  BY <1>3, NeighbourFacts
<1>5. CASE pipe[a] # <<>>
  <2>1. pipe[a] \in Seq(Messages)
    BY <1>1
  <2>2. 1 \in 1 .. Len(pipe[a])
    BY <1>5, <2>1
  <2>3. Owed(a, a, pipe[a][1])
    BY <2>2 DEF Playing, Owed
  <2>4. UnderIn(pipe, a) # {}
    BY <1>2, <2>2, <2>3
  <2>5. QED
    BY <1>2, <2>4, FS_EmptySet
<1>6. ASSUME NEW k \in 1 .. 4, pipe[n[k]] # <<>>
      PROVE  Cardinality(UnderIn(pipe, a)) >= 1
  <2>1. pipe[n[k]] = <<Question(a, Kind(k))>>
    BY <1>3, <1>6 DEF Playing
  <2>2. 1 \in 1 .. Len(pipe[n[k]]) /\ pipe[n[k]][1] = Question(a, Kind(k))
    BY <2>1
  <2>3. Owed(a, n[k], Question(a, Kind(k)))
    BY DEF Owed, Question, Kind
  <2>4. UnderIn(pipe, a) # {}
    BY <1>2, <1>4, <2>2, <2>3
  <2>5. QED
    BY <1>2, <2>4, FS_EmptySet
<1>7. CASE pipe[a] = <<>> /\ \A k \in 1 .. 4 : pipe[n[k]] = <<>>
  <2>1. Len(pipe[a]) + Len(pipe[n[1]]) + Len(pipe[n[2]]) + Len(pipe[n[3]]) + Len(pipe[n[4]]) = Awaited(pc[a])
    BY <1>3 DEF Playing, Traffic
  <2>2. Len(pipe[a]) = 0 /\ Len(pipe[n[1]]) = 0 /\ Len(pipe[n[2]]) = 0 /\ Len(pipe[n[3]]) = 0 /\ Len(pipe[n[4]]) = 0
    BY <1>7, OneMessage
  <2>3. QED
    BY <2>1, <2>2
<1>8. QED
  BY <1>5, <1>6, <1>7

\* However many questions and answers cross, nobody waits in vain: as many answers
\* are under way to a block of block.c as it still has to read, although it may
\* take a question for an answer and never reads to the end of it; and in a game of
\* sol_LA4 the same holds while the user is patient (block.c l. 192-234, sol
\* block.c l. 117-163).
THEOREM NobodyEverWaitsInVain == Spec => []NobodyWaitsInVain
<1>1. Types /\ DrawInv /\ WaitInv /\ PatientInv => NobodyWaitsInVain
  <2>1. SUFFICES ASSUME Types, DrawInv, WaitInv, PatientInv, sending.op # "q",
                        user.program = "own" \/ user.hurries = {}, NEW b \in Blocks
                 PROVE  Cardinality(Under(b)) >= Expected(b)
    BY DEF NobodyWaitsInVain
  <2>2. Under(b) = UnderIn(pipe, b)
    BY DEF Under, UnderIn, Owed
  <2>3. Range(Reads) = {"read1", "read2", "read3", "read4"}
    <3>1. DOMAIN Reads = 1 .. 4 /\ Reads[1] = "read1" /\ Reads[2] = "read2" /\ Reads[3] = "read3" /\ Reads[4] = "read4"
      BY DEF Reads
    <3>2. QED
      BY <3>1 DEF Range
  <2>4. Cardinality(UnderIn(pipe, b)) \in Nat
    BY <2>1, UnderFinite DEF Types
  <2>5. Expected(b) = 2 <=> pc[b] \in {"row_answer1", "col_answer1"}
    BY <2>3 DEF Expected
  <2>6. /\ pc[b] \in {"row_answer2", "col_answer2", "read1", "read2", "read3", "read4"} => Expected(b) = 1
        /\ pc[b] \notin {"row_answer1", "col_answer1", "row_answer2", "col_answer2", "read1", "read2", "read3", "read4"}
             => Expected(b) = 0
    BY <2>3 DEF Expected
  <2>7. CASE user.program = "own"
    <3>1. pc[b] \notin SolLabels /\ Cardinality(UnderIn(pipe, b)) >= Needed(b)
      BY <2>1, <2>7 DEF DrawInv, WaitInv
    <3>2. Expected(b) <= Needed(b) /\ Expected(b) \in Nat /\ Needed(b) \in Nat
      BY <2>5, <2>6, <3>1 DEF SolLabels, Needed
    <3>3. QED
      BY <2>2, <2>4, <3>1, <3>2
  <2>8. CASE user.program # "own"
    <3>1. user.program = "sol" /\ user.hurries = {}
      BY <2>1, <2>8, UserAssumption DEF Types
    <3>2. ASSUME pc[b] \in {"loop", "message", "gone"}
          PROVE  Cardinality(Under(b)) >= Expected(b)
      BY <2>2, <2>4, <2>6, <3>2
    <3>3. ASSUME NEW a \in Blocks, Playing(a)
          PROVE  Cardinality(Under(b)) >= Expected(b)
      <4>1. CASE b # a
        BY <3>2, <3>3, <4>1 DEF Playing
      <4>2. CASE b = a
        <5>1. pc[b] \in SolLabels
          BY <3>1, <3>3, <4>2 DEF Playing
        <5>2. pc[b] \in {"ask1", "ask2", "ask3", "ask4"} \/ pc[b] \in {"read1", "read2", "read3", "read4"}
          BY <5>1 DEF SolLabels
        <5>3. CASE pc[b] \in {"ask1", "ask2", "ask3", "ask4"}
          BY <2>2, <2>4, <2>6, <5>3
        <5>4. CASE pc[b] \in {"read1", "read2", "read3", "read4"}
          <6>1. Expected(b) = 1 /\ Awaited(pc[b]) = 1
            BY <2>6, <5>4 DEF Awaited
          <6>2. Cardinality(UnderIn(pipe, b)) >= 1
            BY <2>1, <3>3, <4>2, <6>1, PlayingIsOwed
          <6>3. QED
            BY <2>2, <6>1, <6>2
        <5>5. QED
          BY <5>2, <5>3, <5>4
      <4>3. QED
        BY <4>1, <4>2
    <3>4. Drawing => pc[b] \in {"loop", "message", "gone"}
      BY DEF Drawing
    <3>5. Quitting => pc[b] \in {"loop", "message", "gone"}
      BY DEF Quitting
    <3>6. \A a \in Blocks : Waiting(a) \/ Ending(a) => pc[b] \in {"loop", "message", "gone"}
      BY DEF Waiting, Ending
    <3>7. QED
      BY <2>1, <3>1, <3>2, <3>3, <3>4, <3>5, <3>6 DEF PatientInv
  <2>9. QED
    BY <2>7, <2>8
<1>2. QED
  BY <1>1, PlayAlways, PTL
=============================================================================
