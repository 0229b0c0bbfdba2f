-------------------------- MODULE Followers_proofs --------------------------
(***************************************************************************)
(* Proofs about Followers, for any number of followers, of processes that  *)
(* try to be one, and for both programs.                                   *)
(***************************************************************************)
EXTENDS Followers, TLAPS

-----------------------------------------------------------------------------
(* The inductive invariant.                                                *)

LeaderLabels == {"create", "init0", "init1", "gather", "draw", "give", "await", "sum",
                 "end", "awaitEnd", "done"}
FollowerLabels == {"begin", "refused", "test", "read", "write", "number", "loop", "pass",
                   "detached", "killed", "exited"}

TypeOK ==
  /\ version \in Versions
  /\ M \in [Cells -> Int] /\ M[1] \in Nat
  /\ lpc \in LeaderLabels
  /\ fpc \in [Procs -> FollowerLabels] /\ f_no \in [Procs -> Nat]
  /\ seen \in [Procs -> Nat] /\ limit \in [Procs -> Int]
  /\ wrote \in [Writers -> {0, 1, 2}]

Out(p) == fpc[p] \in {"detached", "killed", "exited"}

\* A follower has a number exactly from when it joined, and M[0] is n from when
\* the leader wrote it.
JoinInv ==
  /\ \A p \in Procs : p \in Joined <=> fpc[p] \in {"loop", "pass"} \/ Out(p)
  /\ lpc \notin {"create", "init0"} => M[0] = n

\* Whose turn it can be.
TurnInv ==
  /\ lpc \notin {"await", "awaitEnd"} => M[2] = 0
  /\ lpc = "await" => M[2] \in 0 .. n
  /\ lpc = "awaitEnd" => M[2] \in -n .. 0
  /\ \A p \in Procs : fpc[p] = "pass" => M[2] = f_no[p]

\* The cells before the turn's were written once, those after it not yet, and its
\* own was when its follower is about to pass the turn on.
WroteInv ==
  /\ lpc = "give" => wrote[0] = 1 /\ \A t \in 1 .. n : wrote[t] = 0
  /\ lpc = "await" /\ M[2] # 0 =>
       \A t \in Writers :
         /\ t < M[2] => wrote[t] = 1
         /\ t > M[2] => wrote[t] = 0
         /\ t = M[2] => wrote[t] = IF \E p \in Procs : fpc[p] = "pass" THEN 1 ELSE 0
  /\ lpc = "sum" \/ (lpc = "await" /\ M[2] = 0) => \A t \in Writers : wrote[t] = 1

\* Who wrote a cell has its number, and after a whole round all numbers are taken.
Taken(t) == \E p \in Joined : f_no[p] = t
OwnerInv ==
  /\ \A t \in 1 .. n : wrote[t] # 0 => Taken(t)
  /\ lpc \in {"end", "awaitEnd", "done"} => \A t \in 1 .. n : Taken(t)

\* In the last round the followers before the turn's are out.
LeftInv ==
  /\ lpc = "awaitEnd" => \A p \in Joined : M[2] = 0 \/ f_no[p] < -M[2] => Out(p)
  /\ lpc = "done" => \A p \in Joined : Out(p)

RoundInv == TurnInv /\ WroteInv /\ OwnerInv /\ LeftInv

IInv == TypeOK /\ JoinInv /\ (NumbersProper => RoundInv)

-----------------------------------------------------------------------------
(* Types, and who has joined.                                              *)

\* There is at least one follower.
LEMMA Sizes == n \in Nat /\ n >= 1
BY SizeAssumption

\* What is drawn is a number.
LEMMA Draws == \A v \in LeaderDraws \cup FollowerDraws : v \in Int
BY DrawAssumption

\* The invariant holds at the start.
LEMMA InitIInv == Init => IInv
<1> SUFFICES ASSUME Init PROVE IInv
  OBVIOUS
<1>1. M \in [Cells -> Int] /\ M[1] \in Nat /\ M[2] = 0
  BY Sizes DEF Init, Cells
<1>2. wrote \in [Writers -> {0, 1, 2}] /\ \A t \in 1 .. n : wrote[t] = 0
  BY DEF Init, Writers
<1>3. TypeOK
  BY <1>1, <1>2 DEF Init, TypeOK, LeaderLabels, FollowerLabels
<1>4. Joined = {} /\ lpc = "create"
  BY DEF Init, Joined
<1>5. JoinInv
  BY <1>4 DEF Init, JoinInv, Out
<1>6. RoundInv
  BY <1>1, <1>2, <1>4 DEF Init, RoundInv, TurnInv, WroteInv, OwnerInv, LeftInv
<1>7. QED
  BY <1>3, <1>5, <1>6 DEF IInv

\* The first four cells of the segment exist.
LEMMA LowCells == 0 \in Cells /\ 1 \in Cells /\ 2 \in Cells /\ 3 \in Cells
BY Sizes DEF Cells

\* The leader's steps keep the types.
LEMMA LeaderKeepsTypes ==
  ASSUME TypeOK, JoinInv, Leader
  PROVE  TypeOK' /\ JoinInv'
<1>0. M \in [Cells -> Int] /\ M[1] \in Nat
  BY DEF TypeOK
<1>2. /\ M' \in [Cells -> Int] /\ M'[1] \in Nat /\ (M[0] = n => M'[0] = n)
      /\ lpc' \notin {"create", "init0"} => M'[0] = n
  <2>1. CASE lpc = "init0" /\ lpc' = "init1" /\ M' = [M EXCEPT ![0] = n]
    <3>1. n \in Int
      BY Sizes
    <3>2. /\ M' \in [Cells -> Int]
          /\ \A j \in Cells : M'[j] = IF j = 0 THEN n ELSE M[j]
      BY <1>0, <2>1, <3>1, LowCells
    <3>3. QED
      BY <1>0, <2>1, <3>2, LowCells
  <2>2. CASE lpc = "init1" /\ M' = [M EXCEPT ![1] = 0]
    <3>1. /\ M' \in [Cells -> Int]
          /\ \A j \in Cells : M'[j] = IF j = 1 THEN 0 ELSE M[j]
      BY <1>0, <2>2, LowCells
    <3>2. QED
      BY <1>0, <2>2, <3>1, LowCells DEF JoinInv
  <2>3. CASE Draw
    <3>1. PICK v \in LeaderDraws : M' = [M EXCEPT ![3] = v]
      BY <2>3 DEF Draw, Put
    <3>2. M' \in [Cells -> Int] /\ M'[1] \in Nat /\ (M[0] = n => M'[0] = n)
      BY <1>0, <3>1, Draws, LowCells
    <3>3. QED
      BY <2>3, <3>2 DEF Draw, JoinInv
  <2>4. CASE GiveTurn
    <3>1. M' \in [Cells -> Int] /\ M'[1] \in Nat /\ (M[0] = n => M'[0] = n)
      BY <1>0, <2>4, LowCells DEF GiveTurn, Put
    <3>2. QED
      BY <2>4, <3>1 DEF GiveTurn, JoinInv
  <2>5. CASE EndRounds
    <3>1. M' \in [Cells -> Int] /\ M'[1] \in Nat /\ (M[0] = n => M'[0] = n)
      BY <1>0, <2>5, LowCells DEF EndRounds, Put
    <3>2. QED
      BY <2>5, <3>1 DEF EndRounds, JoinInv
  <2>6. CASE Create
    BY <1>0, <2>6 DEF Create
  <2>7. CASE Gather \/ AwaitTurn \/ Sum \/ Remove
    BY <1>0, <2>7 DEF JoinInv, Gather, AwaitTurn, Sum, Remove
  <2>8. QED
    BY <2>1, <2>2, <2>3, <2>4, <2>5, <2>6, <2>7 DEF Leader, Initialise, Put
<1>3. /\ UNCHANGED <<version, fpc, f_no, seen, limit>> /\ lpc' \in LeaderLabels
  BY DEF Leader, Create, Initialise, Gather, Draw, GiveTurn, AwaitTurn, Sum, EndRounds, Put, Remove,
     follower, LeaderLabels
<1>4. wrote' \in [Writers -> {0, 1, 2}]
  BY DEF TypeOK, Leader, Create, Initialise, Gather, Draw, GiveTurn, AwaitTurn, Sum, EndRounds, Put,
     Remove
<1>5. QED
  BY <1>2, <1>3, <1>4 DEF TypeOK, JoinInv, Joined, Out

\* The followers' steps keep the types.
LEMMA FollowerKeepsTypes ==
  ASSUME TypeOK, JoinInv, NEW p \in Procs, Start(p) \/ Follower(p)
  PROVE  TypeOK' /\ JoinInv'
<1>0. /\ M \in [Cells -> Int] /\ M[1] \in Nat /\ f_no \in [Procs -> Nat]
      /\ seen \in [Procs -> Nat] /\ limit \in [Procs -> Int] /\ fpc \in [Procs -> FollowerLabels]
      /\ M[0] \in Int /\ M[2] \in Int
  BY LowCells DEF TypeOK
<1>1. M' \in [Cells -> Int] /\ M'[1] \in Nat /\ M'[0] = M[0]
  <2>1. ASSUME NEW i \in Nat \ {0}, NEW v \in Int, M' = [M EXCEPT ![i] = v], i = 1 => v \in Nat
        PROVE  M' \in [Cells -> Int] /\ M'[1] \in Nat /\ M'[0] = M[0]
    BY <1>0, <2>1, LowCells
  <2>2. CASE WriteCount(p)
    <3>1. seen[p] + 1 \in Nat
      BY <1>0
    <3>2. QED
      BY <1>0, <2>2, <3>1, LowCells DEF WriteCount, Put
  <2>3. CASE AddNumber(p)
    <3>1. PICK v \in FollowerDraws : M' = [M EXCEPT ![3 + f_no[p]] = v]
      BY <2>3 DEF AddNumber, Put
    <3>2. v \in Int /\ 3 + f_no[p] \in Nat \ {0} /\ 3 + f_no[p] # 1
      BY <1>0, Draws
    <3>3. QED
      BY <2>1, <3>1, <3>2
  <2>4. CASE PassTurn(p)
    <3>1. PICK v : M' = [M EXCEPT ![2] = v] /\ v = (IF version = "own" THEN (M[2] + 1) % (limit[p] + 1)
                                     ELSE IF f_no[p] = M[0] THEN 0 ELSE f_no[p] + 1)
      BY <2>4 DEF PassTurn, Put
    <3>2. M' = [M EXCEPT ![2] = v]
      BY <3>1
    <3>3. v \in Int
      BY <1>0, <3>1
    <3>4. QED
      BY <1>0, <3>1, <3>3, LowCells
  <2>5. CASE LeaveGame(p)
    <3>1. PICK v : M' = [M EXCEPT ![2] = v] /\ v = IF f_no[p] = Limit(p) THEN 0 ELSE -(f_no[p] + 1)
      BY <2>5 DEF LeaveGame, Put
    <3>2. v \in Int
      BY <1>0, <3>1
    <3>3. QED
      BY <1>0, <3>1, <3>2, LowCells
  <2>6. CASE M' = M
    BY <1>0, <2>6
  <2>7. QED
    BY <2>2, <2>3, <2>4, <2>5, <2>6
       DEF Start, Follower, Joining, Playing, TestFull, ReadCount, ReadNumber, ReadDetached
<1>2. /\ UNCHANGED <<version, lpc>>
      /\ wrote' \in [Writers -> {0, 1, 2}]
  BY DEF TypeOK, leader, Start, Follower, Joining, Playing, TestFull, ReadCount, WriteCount, Put,
     ReadNumber, AddNumber, PassTurn, LeaveGame, ReadDetached
<1>3. /\ fpc' \in [Procs -> FollowerLabels] /\ f_no' \in [Procs -> Nat]
      /\ seen' \in [Procs -> Nat] /\ limit' \in [Procs -> Int]
  BY <1>0 DEF FollowerLabels, Start, Follower, Joining, Playing, TestFull, ReadCount, WriteCount, Put,
     ReadNumber, AddNumber, PassTurn, LeaveGame, ReadDetached
<1>4. \A q \in Procs : f_no'[q] # 0 <=> fpc'[q] \in {"loop", "pass", "detached", "killed", "exited"}
  <2>1. \A q \in Procs : f_no[q] # 0 <=> fpc[q] \in {"loop", "pass", "detached", "killed", "exited"}
    BY DEF JoinInv, Joined, Out
  <2>2. CASE Start(p)
    BY <1>0, <2>1, <2>2 DEF Start
  <2>3. CASE Joining(p)
    BY <1>0, <2>1, <2>3 DEF Joining, TestFull, ReadCount, WriteCount, Put, ReadNumber
  <2>4. CASE Playing(p)
    BY <1>0, <2>1, <2>4 DEF Playing, AddNumber, PassTurn, LeaveGame, Put, ReadDetached
  <2>5. QED
    BY <2>2, <2>3, <2>4 DEF Follower
<1>5. JoinInv'
  BY <1>1, <1>2, <1>4 DEF JoinInv, Joined, Out
<1>6. QED
  BY <1>1, <1>2, <1>3, <1>5 DEF TypeOK

-----------------------------------------------------------------------------
(* Numbers that are proper were proper before: who joined keeps its number.  *)

\* Whoever has joined stays, with its number and its limit.
LEMMA JoinedForGood ==
  ASSUME TypeOK, JoinInv, [Next]_vars
  PROVE  /\ version' = version
         /\ \A p \in Joined : p \in Joined' /\ f_no'[p] = f_no[p] /\ limit'[p] = limit[p]
<1> USE DEF TypeOK, JoinInv, Joined, Out
<1>1. CASE Leader
  BY <1>1 DEF Leader, Create, Initialise, Gather, Draw, GiveTurn, AwaitTurn, Sum, EndRounds, Put,
     Remove, follower
<1>2. ASSUME NEW p \in Procs, Start(p) \/ Joining(p)
      PROVE  /\ version' = version
             /\ \A q \in Joined : q \in Joined' /\ f_no'[q] = f_no[q] /\ limit'[q] = limit[q]
  BY <1>2 DEF Start, Joining, TestFull, ReadCount, WriteCount, Put, ReadNumber
<1>3. ASSUME NEW p \in Procs, Playing(p)
      PROVE  version' = version /\ f_no' = f_no /\ limit' = limit
  BY <1>3 DEF Playing, AddNumber, PassTurn, LeaveGame, Put, ReadDetached
<1>4. CASE UNCHANGED vars
  BY <1>4 DEF vars, follower
<1>5. QED
  BY <1>1, <1>2, <1>3, <1>4 DEF Next, Follower

\* Numbers that are proper after a step were so before it.
LEMMA ProperBefore ==
  ASSUME TypeOK, JoinInv, [Next]_vars, NumbersProper'
  PROVE  NumbersProper
BY JoinedForGood DEF NumbersProper

\* A number once taken stays taken.
LEMMA TakenForGood ==
  ASSUME TypeOK, JoinInv, [Next]_vars, NEW t, Taken(t)
  PROVE  Taken(t)'
BY JoinedForGood DEF Taken

-----------------------------------------------------------------------------
(* The rounds.                                                             *)

\* The hypotheses of a step under proper numbers.
Proper == TypeOK /\ JoinInv /\ TypeOK' /\ JoinInv' /\ NumbersProper /\ NumbersProper' /\ RoundInv

\* Who joined has one of the numbers, and nobody else has it.
LEMMA ProperNumbers ==
  ASSUME TypeOK, JoinInv, NumbersProper
  PROVE  /\ \A p \in Joined : p \in Procs /\ f_no[p] \in 1 .. n
         /\ \A p, q \in Joined : f_no[p] = f_no[q] => p = q
<1>1. f_no \in [Procs -> Nat] /\ n \in Nat
  BY Sizes DEF TypeOK
<1>2. \A p \in Joined : p \in Procs /\ f_no[p] # 0 /\ f_no[p] <= n
  BY DEF Joined, NumbersProper
<1>3. QED
  BY <1>1, <1>2 DEF NumbersProper

\* A step of the leader leaves the followers and the numbers they took alone.
LEMMA LeaderAlone ==
  ASSUME Leader
  PROVE  /\ UNCHANGED <<fpc, f_no, Joined>>
         /\ \A p : Out(p)' = Out(p)
         /\ \A t : Taken(t)' = Taken(t)
<1>1. UNCHANGED <<fpc, f_no>>
  BY DEF Leader, Create, Initialise, Gather, Draw, GiveTurn, AwaitTurn, Sum, EndRounds, Put, Remove,
     follower
<1>2. QED
  BY <1>1 DEF Joined, Out, Taken

\* The leader's steps keep the invariant of the round.
LEMMA LeaderKeepsRound ==
  ASSUME Proper, Leader
  PROVE  RoundInv'
<1>n. n \in Nat /\ n >= 1
  BY Sizes
<1>t. M \in [Cells -> Int] /\ M[2] \in Int
  BY LowCells DEF Proper, TypeOK
<1>r. TurnInv /\ WroteInv /\ OwnerInv /\ LeftInv
  BY DEF Proper, RoundInv
<1>a. \A p \in Joined : p \in Procs /\ f_no[p] \in 1 .. n
  BY ProperNumbers DEF Proper
<1>b. /\ UNCHANGED <<fpc, f_no, Joined>>
      /\ \A p : Out(p)' = Out(p)
      /\ \A t : Taken(t)' = Taken(t)
  BY LeaderAlone
<1>c. \A p \in Procs : fpc[p] = "pass" => M[2] \in 1 .. n
  BY <1>a, <1>r DEF Proper, JoinInv, TurnInv
<1>1. CASE Create \/ Initialise \/ Gather
  <2>1. /\ lpc \in {"create", "init0", "init1", "gather"} /\ UNCHANGED wrote
        /\ lpc' \in {"init0", "init1", "gather", "draw"}
    BY <1>1 DEF Create, Initialise, Put, Gather
  <2>2. M'[2] = M[2]
    BY <1>1, <1>n, <1>t, LowCells DEF Create, Initialise, Put, Gather
  <2>3. QED
    BY <1>b, <1>r, <2>1, <2>2 DEF RoundInv, TurnInv, WroteInv, OwnerInv, LeftInv
<1>2. CASE Draw
  <2>1. PICK v \in LeaderDraws : M' = [M EXCEPT ![3] = v]
    BY <1>2 DEF Draw, Put
  <2>2. M'[2] = M[2]
    BY <1>t, <2>1, LowCells
  <2>3. wrote'[0] = 1 /\ \A t \in 1 .. n : wrote'[t] = 0
    BY <1>2, <1>n DEF Draw, Put, Writers
  <2>4. lpc = "draw" /\ lpc' = "give"
    BY <1>2 DEF Draw, Put
  <2>5. TurnInv' /\ WroteInv'
    BY <1>b, <1>r, <2>2, <2>3, <2>4 DEF TurnInv, WroteInv
  <2>6. OwnerInv' /\ LeftInv'
    BY <2>3, <2>4 DEF OwnerInv, LeftInv
  <2>7. QED
    BY <2>5, <2>6 DEF RoundInv
<1>3. CASE GiveTurn
  <2>0. lpc = "give" /\ lpc' = "await" /\ UNCHANGED wrote /\ M' = [M EXCEPT ![2] = 1]
    BY <1>3 DEF GiveTurn, Put
  <2>1. M[2] = 0 /\ M'[2] = 1
    BY <1>r, <1>t, <2>0, LowCells DEF TurnInv
  <2>2. \A p \in Procs : fpc[p] # "pass"
    BY <1>c, <2>1
  <2>3. TurnInv'
    BY <1>b, <1>n, <2>0, <2>1, <2>2 DEF TurnInv
  <2>4. WroteInv'
    BY <1>b, <1>r, <1>n, <2>0, <2>1, <2>2 DEF WroteInv, Writers
  <2>5. OwnerInv' /\ LeftInv'
    BY <1>b, <1>r, <2>0 DEF OwnerInv, LeftInv
  <2>6. QED
    BY <2>3, <2>4, <2>5 DEF RoundInv
<1>4. CASE AwaitTurn
  <2>1. lpc = "await" /\ M[2] = 0 /\ lpc' = "sum" /\ UNCHANGED <<M, wrote>>
    BY <1>4 DEF AwaitTurn
  <2>2. QED
    BY <1>b, <1>r, <2>1 DEF RoundInv, TurnInv, WroteInv, OwnerInv, LeftInv
<1>5. CASE Sum
  <2>1. UNCHANGED <<M, wrote>> /\ lpc' \in {"end", "draw"} /\ lpc = "sum"
    BY <1>5 DEF Sum
  <2>2. \A t \in 1 .. n : Taken(t)
    BY <1>r, <2>1 DEF WroteInv, OwnerInv, Writers
  <2>3. QED
    BY <1>b, <1>r, <2>1, <2>2 DEF RoundInv, TurnInv, WroteInv, OwnerInv, LeftInv
<1>6. CASE EndRounds
  <2>0. lpc = "end" /\ lpc' = "awaitEnd" /\ UNCHANGED wrote /\ M' = [M EXCEPT ![2] = -1]
    BY <1>6 DEF EndRounds, Put
  <2>1. M[2] = 0 /\ M'[2] = -1
    BY <1>r, <1>t, <2>0, LowCells DEF TurnInv
  <2>2. \A p \in Procs : fpc[p] # "pass"
    BY <1>c, <2>1
  <2>3. TurnInv'
    BY <1>b, <1>n, <2>0, <2>1, <2>2 DEF TurnInv
  <2>4. WroteInv' /\ OwnerInv'
    BY <1>b, <1>r, <2>0 DEF WroteInv, OwnerInv
  <2>5. LeftInv'
    BY <1>a, <1>b, <2>0, <2>1 DEF LeftInv
  <2>6. QED
    BY <2>3, <2>4, <2>5 DEF RoundInv
<1>7. CASE Remove
  <2>1. lpc = "awaitEnd" /\ M[2] = 0 /\ lpc' = "done" /\ UNCHANGED <<M, wrote>>
    BY <1>7 DEF Remove
  <2>2. QED
    BY <1>b, <1>r, <2>1 DEF RoundInv, TurnInv, WroteInv, OwnerInv, LeftInv
<1>8. QED
  BY <1>1, <1>2, <1>3, <1>4, <1>5, <1>6, <1>7 DEF Leader

\* Who joins has a number nobody else has: after a whole round there is none left.
LEMMA JoiningKeepsRound ==
  ASSUME Proper, NEW p \in Procs, Start(p) \/ Joining(p)
  PROVE  RoundInv'
<1>r. TurnInv /\ WroteInv /\ OwnerInv /\ LeftInv
  BY DEF Proper, RoundInv
<1>t. M \in [Cells -> Int] /\ seen[p] + 1 \in Int /\ fpc \in [Procs -> FollowerLabels]
      /\ f_no \in [Procs -> Nat] /\ fpc' \in [Procs -> FollowerLabels] /\ f_no' \in [Procs -> Nat]
  BY DEF Proper, TypeOK
<1>1. UNCHANGED <<lpc, wrote>>
  BY DEF leader, Start, Joining, TestFull, ReadCount, WriteCount, Put, ReadNumber
<1>2. M'[2] = M[2]
  BY <1>t, LowCells DEF Start, Joining, TestFull, ReadCount, WriteCount, Put, ReadNumber
<1>3. \A q \in Procs \ {p} : fpc'[q] = fpc[q] /\ f_no'[q] = f_no[q]
  BY <1>t DEF Start, Joining, TestFull, ReadCount, WriteCount, Put, ReadNumber
<1>4. /\ fpc[p] \in {"begin", "test", "read", "write", "number"}
      /\ fpc'[p] \in {"refused", "test", "read", "write", "number", "loop"}
  BY <1>t DEF Start, Joining, TestFull, ReadCount, WriteCount, Put, ReadNumber
<1>5. p \notin Joined
  BY <1>4 DEF Proper, JoinInv, Out
<1>6. \A t : Taken(t) => Taken(t)'
  BY TakenForGood DEF Next, Follower, Proper
<1>7. p \in Joined' => ~ Taken(f_no'[p]) /\ f_no'[p] \in 1 .. n
  <2>1. ASSUME p \in Joined', NEW q \in Joined, f_no[q] = f_no'[p] PROVE FALSE
    <3>1. q \in Procs \ {p} /\ f_no'[q] = f_no[q] /\ q \in Joined'
      BY <1>3, <1>5, <2>1 DEF Joined
    <3>2. QED
      BY <2>1, <3>1 DEF Proper, NumbersProper
  <2>2. p \in Joined' => f_no'[p] \in 1 .. n
    BY <1>t, Sizes DEF Proper, NumbersProper, Joined
  <2>3. QED
    BY <2>1, <2>2 DEF Taken
<1>8. TurnInv'
  BY <1>r, <1>1, <1>2, <1>3, <1>4 DEF TurnInv
<1>9. WroteInv'
  <2>1. (\E q \in Procs : fpc[q] = "pass") <=> (\E q \in Procs : fpc'[q] = "pass")
    BY <1>3, <1>4
  <2>2. QED
    BY <1>r, <1>1, <1>2, <2>1 DEF WroteInv
<1>10. OwnerInv'
  BY <1>r, <1>1, <1>6 DEF OwnerInv
<1>11. LeftInv'
  <2>1. CASE lpc \in {"awaitEnd", "done"}
    <3>1. Joined' = Joined
      BY <1>r, <1>3, <1>5, <1>7, <2>1 DEF OwnerInv, Joined
    <3>2. \A q \in Joined : q \in Procs \ {p} /\ Out(q)' = Out(q) /\ f_no'[q] = f_no[q]
      BY <1>3, <1>5 DEF Joined, Out
    <3>3. QED
      BY <1>r, <1>1, <1>2, <3>1, <3>2 DEF LeftInv
  <2>2. QED
    BY <1>1, <2>1 DEF LeftInv
<1>12. QED
  BY <1>8, <1>9, <1>10, <1>11 DEF RoundInv

\* The steps of a follower that plays keep it.
LEMMA PlayingKeepsRound ==
  ASSUME Proper, NEW p \in Procs, Playing(p)
  PROVE  RoundInv'
<1>n. n \in Nat /\ n >= 1
  BY Sizes
<1>t. M \in [Cells -> Int] /\ M[2] \in Int /\ fpc \in [Procs -> FollowerLabels] /\ wrote \in [Writers -> {0, 1, 2}]
  BY LowCells DEF Proper, TypeOK
<1>r. TurnInv /\ WroteInv /\ OwnerInv /\ LeftInv
  BY DEF Proper, RoundInv
<1>a. UNCHANGED <<lpc, f_no, version, Joined>> /\ \A t : Taken(t)' = Taken(t)
  <2>1. UNCHANGED <<lpc, f_no, version>>
    BY DEF Playing, AddNumber, PassTurn, LeaveGame, Put, ReadDetached, leader
  <2>2. QED
    BY <2>1 DEF Joined, Taken
<1>b. /\ \A q \in Joined : q \in Procs /\ f_no[q] \in 1 .. n
      /\ \A q, s \in Joined : f_no[q] = f_no[s] => q = s
  BY ProperNumbers DEF Proper
<1>c. p \in Joined /\ f_no[p] \in 1 .. n
  BY <1>b DEF Proper, JoinInv, Out, Playing, AddNumber, PassTurn, LeaveGame, Put, ReadDetached
<1>d. \A q \in Procs : fpc[q] = "pass" => q \in Joined /\ f_no[q] = M[2]
  BY <1>r DEF Proper, JoinInv, TurnInv
<1>e. M[2] > 0 => lpc = "await"
  BY <1>r, <1>t, <1>n DEF TurnInv
<1>f. M[2] < 0 => lpc = "awaitEnd"
  BY <1>r, <1>t, <1>n DEF TurnInv
<1>1. CASE AddNumber(p)
  <2>0. M[2] = f_no[p] /\ fpc[p] = "loop" /\ fpc' = [fpc EXCEPT ![p] = "pass"]
    BY <1>1 DEF AddNumber, Put
  <2>1. lpc = "await"
    BY <1>c, <1>e, <2>0
  <2>2. M'[2] = M[2]
    <3>1. PICK v \in FollowerDraws : M' = [M EXCEPT ![3 + f_no[p]] = v]
      BY <1>1 DEF AddNumber, Put
    <3>2. v \in Int /\ 3 + f_no[p] \in Int /\ 3 + f_no[p] # 2
      BY <1>c, Draws
    <3>3. QED
      BY <1>t, <3>1, <3>2, LowCells
  <2>3. \A q \in Procs : fpc[q] # "pass"
    BY <1>b, <1>c, <1>d, <2>0
  <2>4. M[2] \in Writers /\ M[2] \in 1 .. n
    BY <1>c, <2>0 DEF Writers
  <2>5. wrote[M[2]] = 0
    BY <1>r, <2>1, <2>3, <2>4 DEF WroteInv
  <2>6. wrote' = [wrote EXCEPT ![M[2]] = 1]
    BY <1>1, <2>0, <2>5 DEF AddNumber, Put
  <2>7. TurnInv'
    BY <1>a, <1>r, <1>t, <2>0, <2>1, <2>2 DEF TurnInv
  <2>8. WroteInv'
    <3>1. \A t \in Writers : wrote'[t] = IF t = M[2] THEN 1 ELSE wrote[t]
      BY <1>t, <2>4, <2>6
    <3>2. fpc'[p] = "pass"
      BY <1>t, <2>0
    <3>3. QED
      BY <1>a, <1>r, <2>1, <2>2, <2>4, <3>1, <3>2 DEF WroteInv, Writers
  <2>9. OwnerInv'
    BY <1>a, <1>c, <1>r, <1>t, <2>0, <2>1, <2>6 DEF OwnerInv, Taken, Writers
  <2>10. LeftInv'
    BY <1>a, <2>1 DEF LeftInv
  <2>11. QED
    BY <2>7, <2>8, <2>9, <2>10 DEF RoundInv
<1>2. CASE PassTurn(p)
  <2>0. M[2] = f_no[p] /\ fpc[p] = "pass" /\ fpc' = [fpc EXCEPT ![p] = "loop"] /\ UNCHANGED wrote
    BY <1>2, <1>d DEF PassTurn, Put
  <2>1. lpc = "await" /\ M[2] \in 1 .. n
    BY <1>c, <1>e, <2>0
  <2>2. (M[2] + 1) % (n + 1) = IF M[2] = n THEN 0 ELSE M[2] + 1
    BY <1>n, <2>1, SMTT(30)
  <2>3. (version = "own" => limit[p] = n) /\ M[0] = n
    BY <1>c, <2>1 DEF Proper, NumbersProper, JoinInv
  <2>4. M' = [M EXCEPT ![2] = IF M[2] = n THEN 0 ELSE M[2] + 1]
    BY <1>2, <2>0, <2>2, <2>3 DEF PassTurn, Put
  <2>5. (IF M[2] = n THEN 0 ELSE M[2] + 1) \in 0 .. n
    BY <1>n, <2>1
  <2>6. M'[2] = IF M[2] = n THEN 0 ELSE M[2] + 1
    BY <1>t, <2>4, <2>5, LowCells
  <2>7. \A q \in Procs : fpc'[q] # "pass"
    BY <1>b, <1>c, <1>d, <1>t, <2>0
  <2>8. wrote[M[2]] = 1
    BY <1>r, <2>0, <2>1 DEF WroteInv, Writers
  <2>9. TurnInv'
    BY <1>a, <2>1, <2>5, <2>6, <2>7 DEF TurnInv
  <2>10. WroteInv'
    BY <1>a, <1>n, <1>r, <2>0, <2>1, <2>6, <2>7, <2>8 DEF WroteInv, Writers
  <2>11. OwnerInv' /\ LeftInv'
    BY <1>a, <1>r, <2>0, <2>1 DEF OwnerInv, LeftInv
  <2>12. QED
    BY <2>9, <2>10, <2>11 DEF RoundInv
<1>3. CASE LeaveGame(p)
  <2>0. M[2] = -f_no[p] /\ fpc[p] = "loop" /\ UNCHANGED wrote
    BY <1>3 DEF LeaveGame, Put
  <2>1. lpc = "awaitEnd"
    BY <1>c, <1>f, <2>0
  <2>2. Limit(p) = n
    BY <1>c, <2>1 DEF Limit, Proper, NumbersProper, JoinInv
  <2>3. M' = [M EXCEPT ![2] = IF f_no[p] = n THEN 0 ELSE -(f_no[p] + 1)]
    BY <1>3, <2>2 DEF LeaveGame, Put
  <2>4. (IF f_no[p] = n THEN 0 ELSE -(f_no[p] + 1)) \in -n .. 0
    BY <1>c, <1>n
  <2>5. M'[2] = IF f_no[p] = n THEN 0 ELSE -(f_no[p] + 1)
    BY <1>t, <2>3, <2>4, LowCells
  <2>6. /\ Out(p)' /\ fpc'[p] # "pass"
        /\ \A q \in Procs \ {p} : fpc'[q] = fpc[q] /\ Out(q)' = Out(q)
    BY <1>3, <1>t DEF LeaveGame, Put, Out
  <2>7. \A q \in Procs : fpc[q] # "pass"
    BY <1>b, <1>c, <1>d, <2>0
  <2>8. TurnInv'
    BY <1>a, <2>1, <2>4, <2>5, <2>6, <2>7 DEF TurnInv
  <2>9. WroteInv' /\ OwnerInv'
    BY <1>a, <1>r, <2>0, <2>1 DEF WroteInv, OwnerInv
  <2>10. ASSUME NEW q \in Joined, M'[2] = 0 \/ f_no[q] < -M'[2] PROVE Out(q)'
    <3>1. f_no[q] < f_no[p] \/ f_no[q] = f_no[p]
      BY <1>b, <1>c, <2>5, <2>10
    <3>2. CASE f_no[q] < f_no[p]
      <4>1. f_no[q] < -M[2]
        BY <1>b, <1>c, <2>0, <3>2
      <4>2. Out(q)
        BY <1>r, <2>1, <4>1 DEF LeftInv
      <4>3. QED
        BY <1>b, <2>6, <4>2
    <3>3. CASE f_no[q] = f_no[p]
      BY <1>b, <1>c, <2>6, <3>3
    <3>4. QED
      BY <3>1, <3>2, <3>3
  <2>11. LeftInv'
    BY <1>a, <2>1, <2>10 DEF LeftInv
  <2>12. QED
    BY <2>8, <2>9, <2>11 DEF RoundInv
<1>4. CASE ReadDetached(p)
  <2>1. /\ UNCHANGED <<M, wrote>> /\ fpc'[p] # "pass" /\ fpc[p] # "pass"
        /\ \A q \in Procs \ {p} : fpc'[q] = fpc[q]
        /\ \A q \in Procs : Out(q)' = Out(q)
    BY <1>4, <1>t DEF ReadDetached, Out
  <2>2. (\E q \in Procs : fpc[q] = "pass") <=> (\E q \in Procs : fpc'[q] = "pass")
    BY <2>1
  <2>3. TurnInv' /\ WroteInv'
    BY <1>a, <1>r, <2>1, <2>2 DEF TurnInv, WroteInv
  <2>4. OwnerInv' /\ LeftInv'
    BY <1>a, <1>b, <1>r, <2>1 DEF OwnerInv, LeftInv
  <2>5. QED
    BY <2>3, <2>4 DEF RoundInv
<1>5. QED
  BY <1>1, <1>2, <1>3, <1>4 DEF Playing

\* Every step keeps the invariant.
LEMMA StepIInv == IInv /\ [Next]_vars => IInv'
<1> SUFFICES ASSUME IInv, [Next]_vars PROVE IInv'
  OBVIOUS
<1>1. TypeOK' /\ JoinInv'
  <2>1. CASE UNCHANGED vars
    BY <2>1 DEF IInv, TypeOK, JoinInv, Joined, Out, vars, leader, follower
  <2>2. QED
    BY <2>1, LeaderKeepsTypes, FollowerKeepsTypes DEF IInv, Next
<1>2. ASSUME NumbersProper' PROVE RoundInv'
  <2>1. Proper
    BY <1>1, <1>2, ProperBefore DEF IInv, Proper
  <2>2. CASE UNCHANGED vars
    BY <2>1, <2>2 DEF Proper, RoundInv, TurnInv, WroteInv, OwnerInv, LeftInv, Taken, Joined,
       Out, vars, leader, follower
  <2>3. QED
    BY <2>1, <2>2, LeaderKeepsRound, JoiningKeepsRound, PlayingKeepsRound DEF Next, Follower
<1>3. QED
  BY <1>1, <1>2 DEF IInv

\* The invariant holds in every reachable state.
LEMMA IInvariant == Spec => []IInv
BY InitIInv, StepIInv, PTL DEF Spec

-----------------------------------------------------------------------------
(* The safety properties.                                                  *)

\* A sum is made of numbers of its own round (leader.c l. 54-60,
\* sol_LA5/leader.c l. 31-38).
THEOREM SumsAreFresh == Spec => []FreshSums
<1>1. IInv => FreshSums
  BY DEF IInv, RoundInv, WroteInv, FreshSums
<1>2. QED
  BY <1>1, IInvariant, PTL

\* When the segment is removed, every follower that joined is through with it
\* (leader.c l. 74-80).
THEOREM NobodyStaysBehind == Spec => []NobodyLeftBehind
<1>1. IInv => NobodyLeftBehind
  BY DEF IInv, RoundInv, LeftInv, Out, NobodyLeftBehind
<1>2. QED
  BY <1>1, IInvariant, PTL

=============================================================================
