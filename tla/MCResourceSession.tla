-------------------------- MODULE MCResourceSession --------------------------
(***************************************************************************)
(* Small sessions for TLC.                                                 *)
(***************************************************************************)
EXTENDS ResourceSession, MCBanker

\* The safety tests of both programs on every table of two threads and two types with
\* entries up to 2.  It does not depend on the state.
TablesAgree == SafetyTestsExact(2) /\ SafeMeansProgress(2)

\* Two threads whose maximum needs together exceed the pool, two resources:
\* the smallest session in which two grants can be unsafe together.
TwoByTwoTotal == [j \in 0..1 |-> IF j = 0 THEN 1 ELSE 2]
TwoByTwoNeed  == [t \in 0..1 |-> [j \in 0..1 |-> IF j = 0 THEN 1 ELSE 1 + t]]

\* Bound on the number of request lines in each file: enough for a thread to
\* take, give back in part while asking for more, or take twice.
TwoTwo == [t \in 0..1 |-> 2]

\* On every small table, and in every state of either build, the unsafe ones that the
\* build without avoidance reaches included, the scan of is_safe_state (l. 524-574) gives
\* what the definition says; so does the scan of sol_resource.c (l. 247-285) on the tables.
\* The tables are gone through once, before the first thread reaches the barrier BOS.
AgreesWithDefinition ==
  /\ BOS = {} /\ (\A p \in Procs : pc[p] = "bos") => TablesAgree
  /\ is_safe_state(ALLOC, NEED, AVAILABLE, active)
       <=> SafeByDefinition(AVAILABLE, ALLOC, NEED, active, Resources)

=============================================================================
