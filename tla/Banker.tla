------------------------------- MODULE Banker -------------------------------
(***************************************************************************)
(* The pure half of src/LA8/resource.cpp (and, at the end, of              *)
(* sol_resource.c): vectors of resource instances,                         *)
(* the safety test and the test that decides whether a queued request can  *)
(* be served.  Threads and resource types are numbered from zero, as in    *)
(* the code; a vector is a function on Resources.                          *)
(***************************************************************************)
EXTENDS Integers

CONSTANTS
  n,   \* number of user threads
  m    \* number of resource types

ASSUME CountsAssumption == n \in Nat \ {0} /\ m \in Nat \ {0}

Threads   == 0 .. n-1
Resources == 0 .. m-1
Vectors   == [Resources -> Int]

u \oplus v  == [j \in Resources |-> u[j] + v[j]]
u \ominus v == [j \in Resources |-> u[j] - v[j]]
u \preceq v == \A j \in Resources : u[j] <= v[j]
Zero        == [j \in Resources |-> 0]

\* The local arrays of the safety test; finish is the set of indices whose
\* entry is true.
Trials == [work : Vectors, finish : SUBSET Threads]

\* An unfinished thread whose need is covered by work gives back what it holds.
LetFinish(s, i, ALLOC, NEED) ==
  IF i \notin s.finish /\ NEED[i] \preceq s.work
  THEN [work |-> s.work \oplus ALLOC[i], finish |-> s.finish \cup {i}]
  ELSE s

\* The for loop over the threads.
Pass(s, ALLOC, NEED) ==
  LET upto[i \in 0..n] == IF i = 0 THEN s ELSE LetFinish(upto[i-1], i-1, ALLOC, NEED)
  IN  upto[n]

\* Mutant: a single pass of the for loop, without the do-while around it.
is_safe_state_OnePass(ALLOC, NEED, AVAILABLE, active) ==
  active \subseteq Pass([work |-> AVAILABLE, finish |-> Threads \ active], ALLOC, NEED).finish

(***************************************************************************)
(* is_safe_state.  The do-while loop repeats passes until one finds        *)
(* nobody.                                                                 *)
(***************************************************************************)
is_safe_state(ALLOC, NEED, AVAILABLE, active) ==
  LET loop[s \in Trials] ==
        LET next == Pass(s, ALLOC, NEED)
        IN  IF next.finish = s.finish THEN s.finish ELSE loop[next]
  IN  active \subseteq loop[[work |-> AVAILABLE, finish |-> Threads \ active]]

\* Mutant: the safety of the state before the grant is tested.
can_fulfill_req_Untried(lr, ALLOC, NEED, AVAILABLE, active, dlavoid) ==
  /\ lr.req \preceq NEED[lr.thread_id]
  /\ lr.req \preceq AVAILABLE
  /\ dlavoid => is_safe_state(ALLOC, NEED, AVAILABLE, active)

(***************************************************************************)
(* can_fulfill_req: the request must fit NEED and AVAILABLE and, in the    *)
(* build that avoids deadlocks, the tentative copies must be safe.         *)
(***************************************************************************)
can_fulfill_req(lr, ALLOC, NEED, AVAILABLE, active, dlavoid) ==
  LET t == lr.thread_id
  IN  /\ lr.req \preceq NEED[t]
      /\ lr.req \preceq AVAILABLE
      /\ dlavoid => is_safe_state([ALLOC EXCEPT ![t] = @ \oplus lr.req],
                                  [NEED  EXCEPT ![t] = @ \ominus lr.req],
                                  AVAILABLE \ominus lr.req, active)

(***************************************************************************)
(* issafe of sol_resource.c: the search for a thread that can finish       *)
(* starts again at index 0 whenever it has found one.                      *)
(***************************************************************************)
Fit(s, NEED)   == {i \in Threads \ s.finish : NEED[i] \preceq s.work}
First(s, NEED) == CHOOSE i \in Fit(s, NEED) : \A k \in Fit(s, NEED) : i <= k

issafe(ALLOC, NEED, AVAILABLE, active) ==
  LET loop[s \in Trials] ==
        IF Fit(s, NEED) = {} THEN s.finish
        ELSE loop[LetFinish(s, First(s, NEED), ALLOC, NEED)]
  IN  loop[[work |-> AVAILABLE, finish |-> Threads \ active]] = Threads

resourceavailable(q, AVAILABLE) == q.req \preceq AVAILABLE

\* safetoallocate: books the request, tests, and takes it back.
safetoallocate(q, ALLOC, NEED, AVAILABLE, active) ==
  issafe([ALLOC EXCEPT ![q.thread_id] = @ \oplus q.req],
         [NEED  EXCEPT ![q.thread_id] = @ \ominus q.req], AVAILABLE \ominus q.req, active)

canserve(q, ALLOC, NEED, AVAILABLE, active, dlavoid) ==
  /\ resourceavailable(q, AVAILABLE)
  /\ dlavoid => safetoallocate(q, ALLOC, NEED, AVAILABLE, active)

=============================================================================
