------------------------------ MODULE MCBanker ------------------------------
(***************************************************************************)
(* The safety tests on every small table.  There is no behaviour here: the *)
(* statements are part of AgreesWithDefinition in MCResourceSession.       *)
(***************************************************************************)
EXTENDS Banker, SafeState

\* Every table with entries up to largest.
TablesUpTo(largest) ==
  LET V == [Resources -> 0 .. largest]
  IN  [pool : V, alloc : [Threads -> V], need : [Threads -> V], active : SUBSET Threads]

Ask(T, t) == [thread_id |-> t, req |-> T.need[t]]

\* The scan of is_safe_state (l. 524-574) and that of issafe (sol_resource.c l. 247-285)
\* find a table safe exactly when the threads can be put in an order in which all can
\* finish, whatever the order in which the scans look at them.
SafetyTestsExact(largest) ==
  \A T \in TablesUpTo(largest) :
    LET safe == SafeByDefinition(T.pool, T.alloc, T.need, T.active, Resources)
    IN  /\ is_safe_state(T.alloc, T.need, T.pool, T.active) <=> safe
        /\ issafe(T.alloc, T.need, T.pool, T.active) <=> safe

\* In a safe table the request for all that a thread may still need can be served for at
\* least one live thread: a safe state is never a dead end.  Both programs serve the same.
SafeMeansProgress(largest) ==
  \A T \in TablesUpTo(largest) :
    LET served == {t \in T.active : can_fulfill_req(Ask(T, t), T.alloc, T.need, T.pool, T.active, TRUE)}
    IN  /\ T.active # {} /\ issafe(T.alloc, T.need, T.pool, T.active) => served # {}
        /\ served = {t \in T.active : canserve(Ask(T, t), T.alloc, T.need, T.pool, T.active, TRUE)}

=============================================================================
