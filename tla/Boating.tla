------------------------------ MODULE Boating ------------------------------
(* boating.c of LA7: m boat threads and n visitor threads pair up through    *)
(* two counting semaphores, a search in shared arrays and two barriers per   *)
(* boat.  A section under bmtx is one step, except that a visitor that found *)
(* a boat keeps bmtx while it waits at the boat's barrier.  A search that    *)
(* finds nothing changes nothing and is left out, like the sleeps: the       *)
(* others may take any number of steps in between.                           *)
EXTENDS Integers, FiniteSets

CONSTANTS
  m,        \* the number of boats
  n,        \* the number of visitors
  rtime     \* the ride time each visitor draws

ASSUME SizeAssumption == m \in Nat \ {0} /\ n \in Nat \ {0}

Boats    == 0 .. m - 1
Visitors == 1 .. n
RideTimes == 15 .. 60

ASSUME TimeAssumption == rtime \in [Visitors -> RideTimes]

BOAT   == 0       \* a barrier's waiting parties: visitors and its boat
NONE   == -1      \* no visitor, no boat
NOBODY == 0       \* bmtx is free

VARIABLES
  rider_sem, boat_sem,     \* the values of the semaphores
  BA, BC, BT,              \* per boat: available, customer, ride time
  bmtx,                    \* the visitor that keeps bmtx between steps
  BB, exit_barriers,       \* per boat: who waits at the barrier
  ready_BB, ready_exit,    \* per boat: the barrier is initialised
  finished, done,
  bpc, visitor_id, ride_time,    \* boats
  vpc, boat_index, rung          \* visitors; rung: V(boat_sem) calls of the last visitor

sems     == <<rider_sem, boat_sem>>
arrays   == <<BA, BC, BT>>
barriers == <<BB, exit_barriers, ready_BB, ready_exit>>
boats    == <<bpc, visitor_id, ride_time>>
visitors == <<vpc, boat_index, rung>>
vars     == <<sems, arrays, bmtx, barriers, finished, done, boats, visitors>>

BoatLabels == {"signal", "await", "waiting", "check", "offer", "bb", "in_bb",
               "depart", "riding", "in_exit", "destroy", "gone"}
VisitorLabels == {"sights", "called", "waiting", "search", "bb", "in_bb", "unlock",
                  "riding", "in_exit", "count", "ring", "left"}

Init ==
  /\ rider_sem = 0 /\ boat_sem = 0
  /\ BA = [i \in Boats |-> 0] /\ BC = [i \in Boats |-> NONE] /\ BT = [i \in Boats |-> 0]
  /\ bmtx = NOBODY
  /\ BB = [i \in Boats |-> {}] /\ exit_barriers = [i \in Boats |-> {}]
  /\ ready_BB = [i \in Boats |-> FALSE] /\ ready_exit = [i \in Boats |-> FALSE]
  /\ finished = 0 /\ done = FALSE
  /\ bpc = [i \in Boats |-> "signal"]
  /\ visitor_id = [i \in Boats |-> NONE] /\ ride_time = [i \in Boats |-> 0]
  /\ vpc = [v \in Visitors |-> "sights"] /\ boat_index = [v \in Visitors |-> NONE]
  /\ rung = 0

-----------------------------------------------------------------------------
(* The semaphores.  P waits without a loop: whoever is signalled goes on.    *)

\* P(&boat_sem) of boat i.
P_boat(i) ==
  /\ boat_sem' = boat_sem - 1
  /\ bpc' = [bpc EXCEPT ![i] = IF boat_sem' < 0 THEN "waiting" ELSE "check"]

\* V(&boat_sem): wakes some waiting boat when the value says that there is one.
V_boat ==
  /\ boat_sem' = boat_sem + 1
  /\ IF boat_sem' <= 0
     THEN \E i \in Boats : bpc[i] = "waiting" /\ bpc' = [bpc EXCEPT ![i] = "check"]
     ELSE bpc' = bpc

P_rider(v) ==
  /\ rider_sem' = rider_sem - 1
  /\ vpc' = [vpc EXCEPT ![v] = IF rider_sem' < 0 THEN "waiting" ELSE "search"]

V_rider ==
  /\ rider_sem' = rider_sem + 1
  /\ IF rider_sem' <= 0
     THEN \E v \in Visitors : vpc[v] = "waiting" /\ vpc' = [vpc EXCEPT ![v] = "search"]
     ELSE vpc' = vpc

-----------------------------------------------------------------------------
(* Boats.                                                                  *)

SignalRider(i) ==
  /\ bpc[i] = "signal" /\ bpc' = [bpc EXCEPT ![i] = "await"]
  /\ V_rider
  /\ UNCHANGED <<boat_sem, arrays, bmtx, barriers, finished, done, visitor_id, ride_time,
                 boat_index, rung>>

AwaitVisitor(i) ==
  /\ bpc[i] = "await" /\ P_boat(i)
  /\ UNCHANGED <<rider_sem, arrays, bmtx, barriers, finished, done, visitor_id, ride_time, visitors>>

\* The test of done, without a lock.
CheckDone(i) ==
  /\ bpc[i] = "check" /\ bpc' = [bpc EXCEPT ![i] = IF done THEN "gone" ELSE "offer"]
  /\ UNCHANGED <<sems, arrays, bmtx, barriers, finished, done, visitor_id, ride_time, visitors>>

Offer_NoExitBarrier(i) ==
  /\ bpc[i] = "offer" /\ bpc' = [bpc EXCEPT ![i] = "bb"]
  /\ bmtx = NOBODY
  /\ BC' = [BC EXCEPT ![i] = NONE] /\ BA' = [BA EXCEPT ![i] = 1] /\ UNCHANGED BT
  /\ BB' = [BB EXCEPT ![i] = {}] /\ ready_BB' = [ready_BB EXCEPT ![i] = TRUE]
  /\ UNCHANGED <<sems, bmtx, exit_barriers, ready_exit, finished, done, visitor_id, ride_time, visitors>>

\* Under bmtx: no visitor yet, available, fresh barriers.
Offer(i) ==
  /\ bpc[i] = "offer" /\ bpc' = [bpc EXCEPT ![i] = "bb"]
  /\ bmtx = NOBODY
  /\ BC' = [BC EXCEPT ![i] = NONE] /\ BA' = [BA EXCEPT ![i] = 1] /\ UNCHANGED BT
  /\ BB' = [BB EXCEPT ![i] = {}] /\ ready_BB' = [ready_BB EXCEPT ![i] = TRUE]
  /\ exit_barriers' = [exit_barriers EXCEPT ![i] = {}]
  /\ ready_exit' = [ready_exit EXCEPT ![i] = TRUE]
  /\ UNCHANGED <<sems, bmtx, finished, done, visitor_id, ride_time, visitors>>

\* The boat meets its visitor at BB[i].
BoatAtBB(i) ==
  /\ bpc[i] = "bb" /\ ready_BB[i]
  /\ \/ /\ BB[i] = {} /\ BB' = [BB EXCEPT ![i] = {BOAT}]
        /\ bpc' = [bpc EXCEPT ![i] = "in_bb"] /\ UNCHANGED vpc
     \/ \E v \in BB[i] :
        /\ BB' = [BB EXCEPT ![i] = {}]
        /\ bpc' = [bpc EXCEPT ![i] = "depart"] /\ vpc' = [vpc EXCEPT ![v] = "unlock"]
  /\ UNCHANGED <<sems, arrays, bmtx, exit_barriers, ready_BB, ready_exit, finished, done,
                 visitor_id, ride_time, boat_index, rung>>

\* Under bmtx: not available any more, who rides and how long, end of BB[i].
Depart(i) ==
  /\ bpc[i] = "depart" /\ bpc' = [bpc EXCEPT ![i] = "riding"]
  /\ bmtx = NOBODY
  /\ BA' = [BA EXCEPT ![i] = 0] /\ UNCHANGED <<BC, BT>>
  /\ visitor_id' = [visitor_id EXCEPT ![i] = BC[i]]
  /\ ride_time' = [ride_time EXCEPT ![i] = BT[i]]
  /\ ready_BB' = [ready_BB EXCEPT ![i] = FALSE]
  /\ UNCHANGED <<sems, bmtx, BB, exit_barriers, ready_exit, finished, done, visitors>>

\* After the ride the boat waits for its visitor at exit_barriers[i].
BoatAtExit(i) ==
  /\ bpc[i] = "riding" /\ ready_exit[i]
  /\ \/ /\ exit_barriers[i] = {}
        /\ exit_barriers' = [exit_barriers EXCEPT ![i] = {BOAT}]
        /\ bpc' = [bpc EXCEPT ![i] = "in_exit"] /\ UNCHANGED vpc
     \/ \E v \in exit_barriers[i] :
        /\ exit_barriers' = [exit_barriers EXCEPT ![i] = {}]
        /\ bpc' = [bpc EXCEPT ![i] = "destroy"] /\ vpc' = [vpc EXCEPT ![v] = "count"]
  /\ UNCHANGED <<sems, arrays, bmtx, BB, ready_BB, ready_exit, finished, done,
                 visitor_id, ride_time, boat_index, rung>>

DestroyExit(i) ==
  /\ bpc[i] = "destroy" /\ bpc' = [bpc EXCEPT ![i] = "signal"]
  /\ ready_exit' = [ready_exit EXCEPT ![i] = FALSE]
  /\ visitor_id' = [visitor_id EXCEPT ![i] = NONE] /\ ride_time' = [ride_time EXCEPT ![i] = 0]
  /\ UNCHANGED <<sems, arrays, bmtx, BB, exit_barriers, ready_BB, finished, done, visitors>>

boat_thread(i) ==
  \/ SignalRider(i) \/ AwaitVisitor(i) \/ CheckDone(i) \/ Offer(i) \/ BoatAtBB(i)
  \/ Depart(i) \/ BoatAtExit(i) \/ DestroyExit(i)

-----------------------------------------------------------------------------
(* Visitors.                                                               *)

CallBoat(v) ==
  /\ vpc[v] = "sights" /\ vpc' = [vpc EXCEPT ![v] = "called"]
  /\ V_boat
  /\ UNCHANGED <<rider_sem, arrays, bmtx, barriers, finished, done, visitor_id, ride_time,
                 boat_index, rung>>

AwaitBoat(v) ==
  /\ vpc[v] = "called" /\ P_rider(v)
  /\ UNCHANGED <<boat_sem, arrays, bmtx, barriers, finished, done, boats, boat_index, rung>>

Offered_AnyAvailable == {i \in Boats : BA[i] = 1}

Offered == {i \in Boats : BA[i] = 1 /\ BC[i] = NONE}

\* The search that succeeds takes the first boat on offer and keeps bmtx.
Search(v) ==
  /\ vpc[v] = "search" /\ vpc' = [vpc EXCEPT ![v] = "bb"]
  /\ bmtx = NOBODY /\ bmtx' = v
  /\ \E i \in Offered :
       /\ \A j \in Offered : i <= j
       /\ boat_index' = [boat_index EXCEPT ![v] = i]
       /\ BT' = [BT EXCEPT ![i] = rtime[v]] /\ BC' = [BC EXCEPT ![i] = v] /\ UNCHANGED BA
  /\ UNCHANGED <<sems, barriers, finished, done, boats, rung>>

VisitorAtBB(v) ==
  LET i == boat_index[v] IN
  /\ vpc[v] = "bb" /\ ready_BB[i]
  /\ \/ /\ BB[i] = {} /\ BB' = [BB EXCEPT ![i] = {v}]
        /\ vpc' = [vpc EXCEPT ![v] = "in_bb"] /\ UNCHANGED bpc
     \/ /\ BB[i] = {BOAT} /\ BB' = [BB EXCEPT ![i] = {}]
        /\ vpc' = [vpc EXCEPT ![v] = "unlock"] /\ bpc' = [bpc EXCEPT ![i] = "depart"]
  /\ UNCHANGED <<sems, arrays, bmtx, exit_barriers, ready_BB, ready_exit, finished, done,
                 visitor_id, ride_time, boat_index, rung>>

Unlock(v) ==
  /\ vpc[v] = "unlock" /\ vpc' = [vpc EXCEPT ![v] = "riding"]
  /\ bmtx' = NOBODY
  /\ UNCHANGED <<sems, arrays, barriers, finished, done, boats, boat_index, rung>>

VisitorAtExit(v) ==
  LET i == boat_index[v] IN
  /\ vpc[v] = "riding" /\ ready_exit[i]
  /\ \/ /\ exit_barriers[i] = {} /\ exit_barriers' = [exit_barriers EXCEPT ![i] = {v}]
        /\ vpc' = [vpc EXCEPT ![v] = "in_exit"] /\ UNCHANGED bpc
     \/ /\ exit_barriers[i] = {BOAT} /\ exit_barriers' = [exit_barriers EXCEPT ![i] = {}]
        /\ vpc' = [vpc EXCEPT ![v] = "count"] /\ bpc' = [bpc EXCEPT ![i] = "destroy"]
  /\ UNCHANGED <<sems, arrays, bmtx, BB, ready_BB, ready_exit, finished, done,
                 visitor_id, ride_time, boat_index, rung>>

IsLast == finished' >= n

\* The visitor that counts n is the last and closes the jetty.
Count(v) ==
  /\ vpc[v] = "count" /\ finished' = finished + 1
  /\ vpc' = [vpc EXCEPT ![v] = IF IsLast THEN "ring" ELSE "left"]
  /\ UNCHANGED <<sems, arrays, bmtx, barriers, done, boats, boat_index, rung>>

\* done is set, then every boat is woken once.
Ring(v) ==
  /\ vpc[v] = "ring"
  /\ IF ~ done
     THEN done' = TRUE /\ UNCHANGED <<boat_sem, bpc, vpc, rung>>
     ELSE /\ V_boat /\ rung' = rung + 1
          /\ vpc' = [vpc EXCEPT ![v] = IF rung' = m THEN "left" ELSE "ring"]
          /\ UNCHANGED done
  /\ UNCHANGED <<rider_sem, arrays, bmtx, barriers, finished, visitor_id, ride_time, boat_index>>

visitor_thread(v) ==
  \/ CallBoat(v) \/ AwaitBoat(v) \/ Search(v) \/ VisitorAtBB(v) \/ Unlock(v)
  \/ VisitorAtExit(v) \/ Count(v) \/ Ring(v)

-----------------------------------------------------------------------------

\* main has joined all threads.
Ended == (\A i \in Boats : bpc[i] = "gone") /\ (\A v \in Visitors : vpc[v] = "left")

Next ==
  \/ \E i \in Boats : boat_thread(i)
  \/ \E v \in Visitors : visitor_thread(v)
  \/ Ended /\ UNCHANGED vars

\* The operating system runs every thread that can run.  A visitor that finds
\* no boat sleeps 5 ms between two searches (l. 137), so the boats get bmtx.
Fairness ==
  /\ \A i \in Boats : WF_vars(boat_thread(i))
  /\ \A v \in Visitors : WF_vars(visitor_thread(v))

Spec == Init /\ [][Next]_vars /\ Fairness

-----------------------------------------------------------------------------
(* Properties.                                                             *)

\* What values the variables take.
TypeOK ==
  /\ rider_sem \in Int /\ boat_sem \in Int
  /\ BA \in [Boats -> {0, 1}] /\ BC \in [Boats -> Visitors \cup {NONE}]
  /\ BT \in [Boats -> RideTimes \cup {0}]
  /\ bmtx \in Visitors \cup {NOBODY}
  /\ BB \in [Boats -> SUBSET (Visitors \cup {BOAT})]
  /\ exit_barriers \in [Boats -> SUBSET (Visitors \cup {BOAT})]
  /\ ready_BB \in [Boats -> BOOLEAN] /\ ready_exit \in [Boats -> BOOLEAN]
  /\ finished \in 0 .. n /\ done \in BOOLEAN
  /\ bpc \in [Boats -> BoatLabels] /\ visitor_id \in [Boats -> Visitors \cup {NONE}]
  /\ ride_time \in [Boats -> RideTimes \cup {0}]
  /\ vpc \in [Visitors -> VisitorLabels] /\ boat_index \in [Visitors -> Boats \cup {NONE}]
  /\ rung \in 0 .. m

\* A visitor between finding a boat and getting off it.
Aboard(v) == vpc[v] \in {"bb", "in_bb", "unlock", "riding", "in_exit"}

\* Boat and visitor agree about their ride: a boat under way carries exactly
\* the visitor it believes to carry, for the time that visitor drew, and no
\* two visitors are in one boat (l. 84-98, 127-131; LA7.pdf p. 1, p. 2 "distinct
\* visitors must be selected by the available boats").
RidesMatch ==
  /\ \A v, w \in Visitors :
       Aboard(v) /\ Aboard(w) /\ boat_index[v] = boat_index[w] => v = w
  /\ \A v \in Visitors : Aboard(v) => BC[boat_index[v]] = v
  /\ \A i \in Boats : bpc[i] \in {"depart", "riding", "in_exit"} =>
       /\ BC[i] \in Visitors /\ BT[i] = rtime[BC[i]]
       /\ boat_index[BC[i]] = i /\ Aboard(BC[i])
       /\ bpc[i] # "depart" => visitor_id[i] = BC[i] /\ ride_time[i] = BT[i]

\* Nobody reaches a barrier that is not initialised or already destroyed, and
\* no barrier is destroyed or set up again while somebody waits at it
\* (l. 79-80, 89, 99-100, 131, 150; LA7.pdf p. 3 "An attempt to join an
\* uninitialized barrier results is an error").
BarriersReady ==
  /\ \A i \in Boats :
       /\ bpc[i] \in {"bb", "in_bb"} => ready_BB[i]
       /\ bpc[i] \in {"riding", "in_exit"} => ready_exit[i]
       /\ bpc[i] \in {"offer", "depart"} => BB[i] = {}
       /\ bpc[i] \in {"offer", "destroy"} => exit_barriers[i] = {}
       /\ i \in Offered => ready_BB[i] /\ ready_exit[i]
  /\ \A v \in Visitors :
       /\ vpc[v] \in {"bb", "in_bb"} => ready_BB[boat_index[v]]
       /\ vpc[v] \in {"riding", "in_exit"} => ready_exit[boat_index[v]]

\* A boat that was called by a visitor and has none yet.
Called(i) == \/ bpc[i] \in {"check", "offer"}
             \/ bpc[i] \in {"bb", "in_bb"} /\ BC[i] = NONE
Calling(v) == vpc[v] \in {"called", "waiting", "search"}
Positive(k) == IF k > 0 THEN k ELSE 0

\* Until the jetty closes, the visitors who called and have no boat are as
\* many as the boats that answered and have no visitor, plus the calls nobody
\* has answered: no boat is ever left without the visitor who woke it, nor a
\* visitor who may search without a boat to come, although they pair up by
\* search and not by who woke whom (l. 67-83, 119-139).  The jetty closes only
\* when every visitor has had its ride: no boat goes home before (l. 71, 152-161).
CallsMatch ==
  IF done \/ (\E i \in Boats : bpc[i] = "gone")
  THEN \A v \in Visitors : vpc[v] \in {"ring", "left"}
  ELSE
    /\ Cardinality({v \in Visitors : Calling(v)})
         = Cardinality({i \in Boats : Called(i)}) + Positive(boat_sem)
    /\ Cardinality({v \in Visitors : vpc[v] = "search"})
         <= Cardinality({i \in Boats : Called(i) \/ bpc[i] \in {"await", "waiting"}})

\* All threads come to their end, boats included: the program never hangs in
\* a semaphore, a barrier or the search (l. 226-233).
Terminates == <> Ended

\* The visitor in boat i, from finding the boat to getting off.
Rider(i) == IF \E v \in Visitors : Aboard(v) /\ boat_index[v] = i
            THEN CHOOSE v \in Visitors : Aboard(v) /\ boat_index[v] = i
            ELSE NONE

Abstract == INSTANCE Jetty WITH
  Nobody <- NONE,
  riding <- [i \in Boats |-> Rider(i)],
  rode   <- {v \in Visitors : vpc[v] \in {"count", "ring", "left"}}

\* The program implements the jetty, fairness included: everybody gets a boat.
ImplementsJetty == Abstract!Service

=============================================================================
