------------------------------ MODULE Allocator ------------------------------
(***************************************************************************)
(* What the resource manager of LA8 promises, without threads, messages,   *)
(* barriers or a queue: threads give back and ask for instances, and a     *)
(* request is granted in one step, when the pool covers it and, with       *)
(* avoidance, only into a safe state.  A request that stays servable is    *)
(* served.                                                                 *)
(***************************************************************************)
EXTENDS SafeState

CONSTANTS Clients, Kinds, Limit, Pool

VARIABLES avoid, pool, alloc, wants, live

avars == <<avoid, pool, alloc, wants, live>>

Nothing == [j \in Kinds |-> 0]
Vector  == [Kinds -> Nat]
Covers(u, v) == \A j \in Kinds : v[j] <= u[j]
Add(u, v)    == [j \in Kinds |-> u[j] + v[j]]
Less(u, v)   == [j \in Kinds |-> u[j] - v[j]]
Need(a)      == [t \in Clients |-> Less(Limit[t], a[t])]

Start ==
  /\ avoid \in BOOLEAN
  /\ pool = Pool
  /\ alloc = [t \in Clients |-> Nothing]
  /\ wants = [t \in Clients |-> Nothing]
  /\ live = Clients

\* A thread that waits for nothing gives back some of what it holds and may
\* ask for more in the same breath.
GiveAndAsk(t) ==
  /\ t \in live /\ wants[t] = Nothing
  /\ pool' \in [Kinds -> UNION {0 .. Pool[j] : j \in Kinds}]
  /\ LET given == Less(pool', pool)
     IN  /\ Covers(given, Nothing) /\ Covers(alloc[t], given)
         /\ alloc' = [alloc EXCEPT ![t] = Less(@, given)]
  /\ \E w \in [Kinds -> UNION {0 .. Pool[j] : j \in Kinds}] :
       /\ Covers(Less(Limit[t], alloc'[t]), w)
       /\ wants' = [wants EXCEPT ![t] = w]
  /\ UNCHANGED <<avoid, live>>

Granted(t) == [alloc EXCEPT ![t] = Add(@, wants[t])]

GrantTo(t) ==
  /\ wants[t] # Nothing
  /\ Covers(pool, wants[t])
  /\ avoid => SafeByDefinition(Less(pool, wants[t]), Granted(t),
                               Need(Granted(t)), live, Kinds)
  /\ pool' = Less(pool, wants[t])
  /\ alloc' = Granted(t)
  /\ wants' = [wants EXCEPT ![t] = Nothing]
  /\ UNCHANGED <<avoid, live>>

Leave(t) ==
  /\ t \in live /\ wants[t] = Nothing
  /\ pool' = Add(pool, alloc[t])
  /\ alloc' = [alloc EXCEPT ![t] = Nothing]
  /\ live' = live \ {t}
  /\ UNCHANGED <<avoid, wants>>

Work == \E t \in Clients : GiveAndAsk(t) \/ GrantTo(t) \/ Leave(t)

Safety == Start /\ [][Work]_avars

Service ==
  /\ Safety
  /\ \A t \in Clients : WF_avars(GrantTo(t))

=============================================================================
