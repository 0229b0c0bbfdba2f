---------------------------- MODULE SolScheduler ----------------------------
(***************************************************************************)
(* The second simulation of LA3, src/LA3/sol_schedule.c, as a function of  *)
(* the input file and the quantum.  It keeps one record per job, with the  *)
(* job's one event in it, a heap of jobs that is built in place, and a     *)
(* circular ready queue.  The heap is a sequence whose root is at 1.       *)
(***************************************************************************)
EXTENDS Integers, Sequences, FiniteSets

ARRIVAL     == 1
CPUBURSTEND == 2
TIMEOUT     == 3

\* Mutant: at one time a timeout may come before an arrival.
eventcmp_NoKind(J, E1, E2) ==
  \/ J[E1].time < J[E2].time
  \/ J[E1].time = J[E2].time /\ J[E1].srno < J[E2].srno

\* The event of job E1 comes before that of E2.
eventcmp(J, E1, E2) ==
  \/ J[E1].time < J[E2].time
  \/ J[E1].time = J[E2].time /\ J[E1].state < J[E2].state
  \/ J[E1].time = J[E2].time /\ J[E1].state = J[E2].state /\ J[E1].srno < J[E2].srno

Swapped(H, i, k) == [H EXCEPT ![i] = H[k], ![k] = H[i]]

\* The job at i sinks, each time below the child that comes first.
heapify(J, Q, i) ==
  LET size == Len(Q)
      min(H, k) == IF 2 * k = size \/ eventcmp(J, H[2 * k], H[2 * k + 1]) THEN 2 * k ELSE 2 * k + 1
      sink[H \in Seq(Nat), k \in Nat] ==
        IF 2 * k > size \/ ~ eventcmp(J, H[min(H, k)], H[k]) THEN H
        ELSE sink[Swapped(H, k, min(H, k)), min(H, k)]
  IN  sink[Q, i]

makeheap(J, Q) ==
  LET down[i \in Nat] == IF i > Len(Q) \div 2 THEN Q ELSE heapify(J, down[i + 1], i)
  IN  down[1]

\* Job x is added at the end and rises above every parent that comes later.
insert(J, Q, x) ==
  LET rise[H \in Seq(Nat), i \in Nat] ==
        IF i = 1 \/ eventcmp(J, H[i \div 2], H[i]) THEN H ELSE rise[Swapped(H, i, i \div 2), i \div 2]
  IN  rise[Append(Q, x), Len(Q) + 1]

delmin(J, Q) ==
  IF Len(Q) = 1 THEN <<>>
  ELSE heapify(J, [SubSeq(Q, 1, Len(Q) - 1) EXCEPT ![1] = Q[Len(Q)]], 1)

-----------------------------------------------------------------------------
(* The ready queue: its array A of MAXSIZE cells, the front F and the back B. *)

MAXSIZE(Q)   == Cardinality(DOMAIN Q.A)
initRQ(n)    == [A |-> [c \in 0 .. n |-> 0], F |-> 0, B |-> n]
isempty(Q)   == Q.F = (Q.B + 1) % MAXSIZE(Q)
front(Q)     == Q.A[Q.F]
dequeue(Q)   == [Q EXCEPT !.F = (@ + 1) % MAXSIZE(Q)]
isfull(Q)    == Q.F = (Q.B + 2) % MAXSIZE(Q)
enqueue(Q, srno) ==
  LET B == (Q.B + 1) % MAXSIZE(Q) IN [Q EXCEPT !.A[B] = srno, !.B = B]

-----------------------------------------------------------------------------
(* One run.  A state s of it has the jobs J, both queues, the time t,      *)
(* whether the CPU is free, and what has been reported of the jobs that    *)
(* have left: <<job, turnaround time, wait time>>.                         *)

Sum(seq) == LET add[i \in 0 .. Len(seq)] == IF i = 0 THEN 0 ELSE add[i - 1] + seq[i] IN add[Len(seq)]

\* schedule, l. 194-199: every job is about to arrive.
Started(n, file) ==
  [t \in 0 .. n - 1 |->
     [srno |-> file.task_id[t], time |-> file.start_time[t], state |-> ARRIVAL,
      bno |-> 0, rbt |-> file.compute_times[t][1]]]

\* Job p joins the ready queue: it arrives, or its time slice is over.
Joins(s, p) == s.J[p].state = ARRIVAL \/ s.J[p].rbt > 0

\* The event of job p: it arrives, or its burst or its time slice is over.
Handled(s, p, file) ==
  LET job   == s.J[p]
      queue == delmin(s.J, s.EQ)
      Enqueued == [s EXCEPT !.t = job.time, !.EQ = queue, !.RQ = enqueue(@, p)]
      tat == job.time - file.start_time[p]
      wtt == tat - Sum(file.compute_times[p]) - Sum(file.wait_times[p])
      io == [job EXCEPT !.state = ARRIVAL, !.time = @ + file.wait_times[p][job.bno + 1],
                        !.bno = @ + 1, !.rbt = file.compute_times[p][job.bno + 2]]
      J  == [s.J EXCEPT ![p] = io]
  IN  CASE Joins(s, p) -> [Enqueued EXCEPT !.cpufree = @ \/ job.state # ARRIVAL]
        [] OTHER ->
             IF job.bno = Len(file.compute_times[p]) - 1
             THEN [s EXCEPT !.t = job.time, !.EQ = queue, !.cpufree = TRUE,
                               !.exits = Append(@, <<p, tat, wtt>>)]
             ELSE [s EXCEPT !.t = job.time, !.EQ = insert(J, queue, p), !.J = J, !.cpufree = TRUE]

\* A free CPU takes the job at the front of the ready queue.
Dispatched(s, q) ==
  IF ~ s.cpufree \/ isempty(s.RQ) THEN s
  ELSE LET p       == front(s.RQ)
           cputime == IF s.J[p].rbt <= q THEN s.J[p].rbt ELSE q
           J == [s.J EXCEPT ![p].rbt = @ - cputime, ![p].time = s.t + cputime,
                            ![p].state = IF s.J[p].rbt > cputime THEN TIMEOUT ELSE CPUBURSTEND]
       IN  [s EXCEPT !.J = J, !.RQ = dequeue(@), !.EQ = insert(J, @, p), !.cpufree = FALSE]

\* schedule: the run, which ends with the last event, or in an error when a job joins
\* a full queue, and the idle time that is derived at its end.
schedule(n, file, q) ==
  LET Jobs   == [srno : Nat, time : Nat, state : Nat, bno : Nat, rbt : Nat]
      Queues == [A : [0 .. n -> Nat], F : 0 .. n, B : 0 .. n]
      run[s \in [J : [0 .. n - 1 -> Jobs], EQ : Seq(Nat), RQ : Queues, t : Nat,
                 cpufree : BOOLEAN, exits : Seq(Nat \X Nat \X Int)]] ==
        IF s.EQ = <<>> THEN s
        ELSE IF Joins(s, s.EQ[1]) /\ isfull(s.RQ) THEN s
        ELSE run[Dispatched(Handled(s, s.EQ[1], file), q)]
      J   == Started(n, file)
      end == run[[J |-> J, EQ |-> makeheap(J, [i \in 1 .. n |-> i - 1]), RQ |-> initRQ(n), t |-> 0,
                  cpufree |-> TRUE, exits |-> <<>>]]
  IN  [exits |-> end.exits, t |-> end.t,
       cpuidle |-> end.t - Sum([i \in 1 .. n |-> Sum(file.compute_times[i - 1])])]
=============================================================================
