------------------------------- MODULE Jetty -------------------------------
(* What the boating program of LA7 promises: every visitor has one ride, in  *)
(* a boat of its own (LA7.pdf p. 1: "Each boat can accommodate a single      *)
(* visitor ... After the boat ride, the visitor leaves").                    *)
EXTENDS Integers

CONSTANTS Boats, Visitors, Nobody

VARIABLES
  riding,   \* the visitor in each boat, or Nobody
  rode      \* the visitors whose ride is over

vars == <<riding, rode>>

Init == riding = [b \in Boats |-> Nobody] /\ rode = {}

Waiting == Visitors \ (rode \cup {riding[b] : b \in Boats})

Board(v, b) ==
  /\ v \in Waiting /\ riding[b] = Nobody
  /\ riding' = [riding EXCEPT ![b] = v]
  /\ UNCHANGED rode

Land(b) ==
  /\ riding[b] # Nobody
  /\ rode' = rode \cup {riding[b]}
  /\ riding' = [riding EXCEPT ![b] = Nobody]

Next == \E b \in Boats : Land(b) \/ \E v \in Visitors : Board(v, b)

\* Rides end, and nobody waits while a boat is free for ever.
Fairness ==
  /\ \A b \in Boats : WF_vars(Land(b))
  /\ WF_vars(\E b \in Boats, v \in Visitors : Board(v, b))

Service == Init /\ [][Next]_vars /\ Fairness

=============================================================================
