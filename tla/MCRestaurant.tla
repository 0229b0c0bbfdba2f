---------------------------- MODULE MCRestaurant ----------------------------
(* The last minutes of lunch sessions for TLC.                               *)
EXTENDS Restaurant

\* Two customers who share one waiter and keep both cooks busy at closing
\* time, or of whom one comes too late.
TwoCustomers == {[arrival |-> <<234, 240>>, count |-> <<1, 1>>],
                 [arrival |-> <<240, 241>>, count |-> <<1, 1>>]}

\* Three customers who come while two cooks are busy.
ThreeCustomers == {[arrival |-> <<230, 231, 239>>, count |-> <<4, 4, 1>>]}
=============================================================================
