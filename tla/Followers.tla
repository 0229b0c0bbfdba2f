------------------------------ MODULE Followers ------------------------------
(* LA5: a leader and n followers add up random numbers in a shared segment,  *)
(* each in its turn, until a sum comes up twice.  version says which program *)
(* runs: "own" (leader.c, follower.c) or "sol" (sol_LA5).  Joining is not    *)
(* protected: ++M[1] reads and writes in two steps, and the leader's first   *)
(* writes may fall between.  A busy wait that finds nothing changes nothing  *)
(* and is left out.                                                          *)
EXTENDS Integers, FiniteSets

CONSTANTS
  n,             \* followers the leader asks for
  Procs,         \* follower processes that may be started
  LeaderDraws,   \* what 1 + rand() % 99 may give
  FollowerDraws  \* what 1 + rand() % 9 may give

ASSUME SizeAssumption == n \in Nat \ {0} /\ IsFiniteSet(Procs)
ASSUME DrawAssumption == LeaderDraws \subseteq 1 .. 99 /\ FollowerDraws \subseteq 1 .. 9

Versions == {"own", "sol"}

VARIABLES
  version,
  segment,         \* "none", "here", "removed"
  M,               \* its cells 0 .. n + 3
  lpc, sums,       \* the leader; the sums it has seen
  fpc, f_no, seen, \* per follower: its label, its number, M[1] as it read it
  limit,           \* per follower: its copy of M[0]
  wrote            \* auxiliary: how often (0, 1, more) each cell was written in this round

leader   == <<lpc, sums>>
follower == <<fpc, f_no, seen, limit>>
vars     == <<version, segment, M, leader, follower, wrote>>

Cells  == 0 .. n + 3
Writers == 0 .. n

Init ==
  /\ version \in Versions
  /\ segment = "none" /\ M = [i \in Cells |-> 0]
  /\ lpc = "create" /\ sums = {}
  /\ fpc = [p \in Procs |-> "begin"] /\ f_no = [p \in Procs |-> 0]
  /\ seen = [p \in Procs |-> 0] /\ limit = [p \in Procs |-> 0]
  /\ wrote = [i \in Writers |-> 0]

Put(i, v) == M' = [M EXCEPT ![i] = v]

-----------------------------------------------------------------------------
(* The leader.                                                             *)

\* shmget gives a segment of zeros.
Create ==
  /\ lpc = "create" /\ lpc' = "init0"
  /\ segment' = "here"
  /\ UNCHANGED <<version, M, sums, follower, wrote>>

\* M[0] = n and M[1] = 0 while followers may already look at them; what follows is zero
\* already.
Initialise ==
  /\ \/ lpc = "init0" /\ lpc' = "init1" /\ Put(0, n)
     \/ lpc = "init1" /\ lpc' = "gather" /\ Put(1, 0)
  /\ UNCHANGED <<version, segment, sums, follower, wrote>>

\* leader.c waits for exactly n, sol_LA5/leader.c for at least n.
Gather ==
  /\ lpc = "gather" /\ lpc' = "draw"
  /\ IF version = "own" THEN M[1] = n ELSE M[1] >= n
  /\ UNCHANGED <<version, segment, M, sums, follower, wrote>>

Draw ==
  /\ lpc = "draw" /\ lpc' = "give"
  /\ \E v \in LeaderDraws : Put(3, v)
  /\ wrote' = [i \in Writers |-> IF i = 0 THEN 1 ELSE 0]
  /\ UNCHANGED <<version, segment, sums, follower>>

GiveTurn ==
  /\ lpc = "give" /\ lpc' = "await"
  /\ Put(2, 1)
  /\ UNCHANGED <<version, segment, sums, follower, wrote>>

AwaitTurn ==
  /\ lpc = "await" /\ M[2] = 0 /\ lpc' = "sum"
  /\ UNCHANGED <<version, segment, M, sums, follower, wrote>>

SumFrom[i \in Nat] == IF i > n THEN 0 ELSE M[3 + i] + SumFrom[i + 1]

\* Adds up; a sum that has been there before ends the rounds.
Sum ==
  LET cur == SumFrom[0]
  IN
  /\ lpc = "sum"
  /\ IF cur \in sums
     THEN lpc' = "end" /\ UNCHANGED sums
     ELSE lpc' = "draw" /\ sums' = sums \cup {cur}
  /\ UNCHANGED <<version, segment, M, follower, wrote>>

EndRounds ==
  /\ lpc = "end" /\ lpc' = "awaitEnd"
  /\ Put(2, -1)
  /\ UNCHANGED <<version, segment, sums, follower, wrote>>

\* The last follower has left: detach and remove the segment.
Remove ==
  /\ lpc = "awaitEnd" /\ M[2] = 0 /\ lpc' = "done"
  /\ segment' = "removed"
  /\ UNCHANGED <<version, M, sums, follower, wrote>>

Leader ==
  \/ Create \/ Initialise \/ Gather \/ Draw \/ GiveTurn \/ AwaitTurn \/ Sum
  \/ EndRounds \/ Remove

-----------------------------------------------------------------------------
(* A follower.                                                             *)

\* A process is started: shmget and shmat, or an error; then n = M[0].  The solution reads
\* M[0] again whenever it needs it.
Start(p) ==
  /\ fpc[p] = "begin"
  /\ IF segment = "here"
     THEN /\ fpc' = [fpc EXCEPT ![p] = "test"]
          /\ limit' = [limit EXCEPT ![p] = IF version = "own" THEN M[0] ELSE 0]
     ELSE fpc' = [fpc EXCEPT ![p] = "refused"] /\ UNCHANGED limit
  /\ UNCHANGED <<version, segment, M, leader, f_no, seen, wrote>>

Limit(p) == IF version = "own" THEN limit[p] ELSE M[0]

\* Enough followers: exit with a message.
TestFull(p) ==
  /\ fpc[p] = "test"
  /\ fpc' = [fpc EXCEPT ![p] = IF M[1] = Limit(p) THEN "refused" ELSE "read"]
  /\ UNCHANGED <<version, segment, M, leader, f_no, seen, limit, wrote>>

\* ++M[1], first half.
ReadCount(p) ==
  /\ fpc[p] = "read" /\ fpc' = [fpc EXCEPT ![p] = "write"]
  /\ seen' = [seen EXCEPT ![p] = M[1]]
  /\ UNCHANGED <<version, segment, M, leader, f_no, limit, wrote>>

\* ++M[1], second half; the solution reads its number from M[1] in another step.
WriteCount(p) ==
  /\ fpc[p] = "write"
  /\ Put(1, seen[p] + 1)
  /\ IF version = "own"
     THEN /\ f_no' = [f_no EXCEPT ![p] = seen[p] + 1]
          /\ fpc' = [fpc EXCEPT ![p] = "loop"]
     ELSE fpc' = [fpc EXCEPT ![p] = "number"] /\ UNCHANGED f_no
  /\ seen' = [seen EXCEPT ![p] = 0]
  /\ UNCHANGED <<version, segment, leader, limit, wrote>>

ReadNumber(p) ==
  /\ fpc[p] = "number"
  /\ fpc' = [fpc EXCEPT ![p] = IF M[1] = 0 THEN "refused" ELSE "loop"]
  /\ f_no' = [f_no EXCEPT ![p] = M[1]]
  /\ UNCHANGED <<version, segment, M, leader, seen, limit, wrote>>

\* Its turn: writes its number.
AddNumber(p) ==
  /\ fpc[p] = "loop" /\ M[2] = f_no[p] /\ fpc' = [fpc EXCEPT ![p] = "pass"]
  /\ \E v \in FollowerDraws : Put(3 + f_no[p], v)
  /\ wrote' = [wrote EXCEPT ![f_no[p]] = IF @ = 0 THEN 1 ELSE 2]
  /\ UNCHANGED <<version, segment, leader, f_no, seen, limit>>

\* Mutant: the turn is taken modulo n.
PassTurn_ModN(p) ==
  /\ fpc[p] = "pass" /\ fpc' = [fpc EXCEPT ![p] = "loop"]
  /\ Put(2, (M[2] + 1) % n)
  /\ UNCHANGED <<version, segment, leader, f_no, seen, limit, wrote>>

\* and passes the turn on, the last one to the leader.
PassTurn(p) ==
  /\ fpc[p] = "pass" /\ fpc' = [fpc EXCEPT ![p] = "loop"]
  /\ Put(2, IF version = "own" THEN (M[2] + 1) % (limit[p] + 1)
            ELSE IF f_no[p] = M[0] THEN 0 ELSE f_no[p] + 1)
  /\ UNCHANGED <<version, segment, leader, f_no, seen, limit, wrote>>

\* Mutant: the last follower but one gives the turn to the leader.
LeaveGame_OneEarly(p) ==
  /\ fpc[p] = "loop" /\ M[2] = -f_no[p]
  /\ Put(2, IF f_no[p] >= Limit(p) - 1 THEN 0 ELSE -(f_no[p] + 1))
  /\ fpc' = [fpc EXCEPT ![p] = IF version = "own" THEN "detached" ELSE "exited"]
  /\ UNCHANGED <<version, segment, leader, f_no, seen, limit, wrote>>

\* Mutant: the follower detaches before it passes the turn on.
LeaveGame_DetachFirst(p) ==
  /\ fpc[p] = "loop" /\ M[2] = -f_no[p]
  /\ fpc' = [fpc EXCEPT ![p] = "detached"]
  /\ UNCHANGED <<version, segment, M, leader, f_no, seen, limit, wrote>>

\* The last round: tells the next one and detaches.
LeaveGame(p) ==
  /\ fpc[p] = "loop" /\ M[2] = -f_no[p]
  /\ Put(2, IF f_no[p] = Limit(p) THEN 0 ELSE -(f_no[p] + 1))
  /\ fpc' = [fpc EXCEPT ![p] = IF version = "own" THEN "detached" ELSE "exited"]
  /\ UNCHANGED <<version, segment, leader, f_no, seen, limit, wrote>>

\* follower.c reads M[2] once more, in memory it has given back: the process is killed.
ReadDetached(p) ==
  /\ fpc[p] = "detached" /\ fpc' = [fpc EXCEPT ![p] = "killed"]
  /\ UNCHANGED <<version, segment, M, leader, f_no, seen, limit, wrote>>

Joining(p) == TestFull(p) \/ ReadCount(p) \/ WriteCount(p) \/ ReadNumber(p)
Playing(p) == AddNumber(p) \/ PassTurn(p) \/ LeaveGame(p) \/ ReadDetached(p)
Follower(p) == Joining(p) \/ Playing(p)

Next == Leader \/ \E p \in Procs : Start(p) \/ Follower(p)

\* Nobody need start a follower; a process that runs goes on.
Spec == Init /\ [][Next]_vars /\ WF_vars(Leader) /\ \A p \in Procs : WF_vars(Follower(p))

-----------------------------------------------------------------------------
(* Properties.  LA5.pdf p. 1 accepts that races while the followers join may *)
(* spoil the numbers; what follows is promised when they did not.            *)

Joined == {p \in Procs : f_no[p] # 0}

\* Nobody was counted twice or not at all, and nobody of follower.c read M[0] before
\* the leader wrote it.
NumbersProper ==
  /\ \A p \in Joined : f_no[p] <= n /\ (version = "own" => limit[p] = n)
  /\ \A p, q \in Joined : f_no[p] = f_no[q] => p = q

\* leader.c l. 54-60, sol_LA5/leader.c l. 31-38: a sum is made of numbers of its own
\* round: each of the n + 1 cells was written exactly once since the last sum.
FreshSums == lpc = "sum" /\ NumbersProper => \A i \in Writers : wrote[i] = 1

\* leader.c l. 74-80: when the leader removes the segment every follower that joined
\* has passed on its last turn and uses the segment no more.
NobodyLeftBehind ==
  lpc = "done" /\ NumbersProper =>
    \A p \in Joined : fpc[p] \in {"detached", "killed", "exited"}

\* A game that n followers join under numbers of their own, with M[1] to show for it,
\* ends, since there are only so many sums, and ends for everyone; that follower.c's
\* followers read detached memory (l. 63) stops none of the others, for they have passed
\* the turn on before.
GameEnds ==
  <>[](NumbersProper /\ Cardinality(Joined) = n /\ M[1] = n)
    => <>(lpc = "done" /\ \A p \in Joined : fpc[p] \in {"killed", "exited"})

=============================================================================
