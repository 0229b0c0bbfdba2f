----------------------------- MODULE MCBoating -----------------------------
(* Two boats and three visitors with different ride times for TLC, who use   *)
(* one of the two programs: boating.c, or the solution, whose state is kept  *)
(* in the same variables where it means the same.                            *)
EXTENDS Boating

VARIABLES
  program,       \* "boating" or "solution"
  rides, main    \* the solution's rides to come, and its main thread

Sol == INSTANCE SolBoating WITH
  b <- m, r <- n, n <- rides,
  boat <- boat_sem, rider <- rider_sem,
  rno <- visitor_id, brtime <- ride_time, rpc <- vpc, bno <- boat_index

DifferentTimes == [v \in Visitors |-> 14 + v]

OfBoating  == <<bmtx, exit_barriers, ready_exit, finished, done, rung>>
OfSolution == <<rides, main>>

MCInit ==
  \/ /\ program = "boating" /\ Init
     /\ rides = 0 /\ main = "exit"
  \/ /\ program = "solution" /\ Sol!Init
     /\ bmtx = NOBODY /\ finished = 0 /\ done = FALSE /\ rung = 0
     /\ exit_barriers = [i \in Boats |-> {}] /\ ready_exit = [i \in Boats |-> FALSE]

MCNext ==
  /\ UNCHANGED program
  /\ \/ program = "boating" /\ Next /\ UNCHANGED OfSolution
     \/ program = "solution" /\ Sol!Next /\ UNCHANGED OfBoating

MCSpec ==
  /\ MCInit /\ [][MCNext]_<<vars, program, rides, main>>
  /\ program = "boating" => Fairness
  /\ program = "solution" => Sol!Fairness

\* In both programs boat and visitor agree about their ride, and no boat has two
\* (boating.c l. 84-98, 127-131, sol_boating.c l. 70-78, 114-126).
RidesMatchInBoth == IF program = "boating" THEN RidesMatch ELSE Sol!RidesMatch

\* In boating.c nobody uses a barrier that is not there (l. 79-80, 89, 99-100,
\* 131, 150); the solution lets riders do so and is left out.
BarriersReadyInBoating == program = "boating" => BarriersReady

\* In both programs the two semaphores let as many through as will pair up:
\* calls and boats that answered balance in boating.c (l. 67-83, 119-139), in
\* sol_boating.c whoever may search finds a boat at once (l. 67-83, 110-124).
CallsMatchInBoth == IF program = "boating" THEN CallsMatch ELSE Sol!SearchNeverSpins

\* boating.c always ends (l. 226-233); sol_boating.c ends after the last ride
\* unless a rider is stranded in a boat that nobody called (l. 67-70, 109-126).
TerminatesUnlessStranded ==
  /\ program = "boating" => Terminates
  /\ program = "solution" => Sol!OnlyTheStrandedHang

\* boating.c implements the jetty, fairness included (LA7.pdf p. 1).
BoatingImplementsJetty ==
  /\ program = "boating" => Abstract!Init
  /\ [][program = "boating" => Abstract!Next]_(Abstract!vars)
  /\ program = "boating" => Abstract!Fairness
=============================================================================
