----------------------------- MODULE SolBoating -----------------------------
(* sol_boating.c of LA7: b boats and r riders as in Boating, but a boat is   *)
(* on offer before it is called, and a rider does not keep bmtx at the       *)
(* boat's barrier.  A section under bmtx is one step.  The boats stay in     *)
(* their loop until main, which waits at EOS, ends the process.              *)
EXTENDS Integers, FiniteSets

CONSTANTS
  b,        \* the number of boats, not 0
  r,        \* the number of riders
  rtime     \* the ride time each rider draws, in RideTimes

Boats  == 0 .. b - 1      \* the code numbers them from 1
Riders == 1 .. r
RideTimes == 15 .. 60

BOAT == 0       \* the boat among those who wait at its barrier
NONE == -1      \* no rider, no boat

VARIABLES
  n,             \* rides to come
  boat, rider,   \* the values of the semaphores
  BA, BC, BT,    \* per boat: available, customer, ride time
  BB, ready_BB,  \* per boat: who waits at the barrier, is it initialised
  bpc, rno, brtime,   \* per boat: the locals of bmain
  rpc, bno,           \* per rider: the locals of rmain
  main

sems     == <<boat, rider>>
arrays   == <<BA, BC, BT>>
barriers == <<BB, ready_BB>>
bmains   == <<bpc, rno, brtime>>
rmains   == <<rpc, bno>>
vars     == <<n, sems, arrays, barriers, bmains, rmains, main>>

Init ==
  /\ n = r /\ boat = 0 /\ rider = 0
  /\ BA = [i \in Boats |-> 0] /\ BC = [i \in Boats |-> 0] /\ BT = [i \in Boats |-> 0]
  /\ BB = [i \in Boats |-> {}] /\ ready_BB = [i \in Boats |-> FALSE]
  /\ bpc = [i \in Boats |-> "start"]
  /\ rno = [i \in Boats |-> NONE] /\ brtime = [i \in Boats |-> 0]
  /\ rpc = [v \in Riders |-> "sights"] /\ bno = [v \in Riders |-> NONE]
  /\ main = "EOS"

-----------------------------------------------------------------------------
(* The semaphores.  P waits without a loop: whoever is signalled goes on.    *)

P_boat(i) ==
  /\ boat' = boat - 1
  /\ bpc' = [bpc EXCEPT ![i] = IF boat' < 0 THEN "waiting" ELSE "bb"]

V_boat_Strict ==
  /\ boat' = boat + 1
  /\ IF boat' < 0
     THEN \E i \in Boats : bpc[i] = "waiting" /\ bpc' = [bpc EXCEPT ![i] = "bb"]
     ELSE UNCHANGED bpc

\* V(&boat): any of the waiting boats may be the one that wakes.
V_boat ==
  /\ boat' = boat + 1
  /\ IF boat' <= 0
     THEN \E i \in Boats : bpc[i] = "waiting" /\ bpc' = [bpc EXCEPT ![i] = "bb"]
     ELSE UNCHANGED bpc

P_rider(v) ==
  /\ rider' = rider - 1
  /\ rpc' = [rpc EXCEPT ![v] = IF rider' < 0 THEN "waiting" ELSE "search"]

V_rider ==
  /\ rider' = rider + 1
  /\ IF rider' <= 0
     THEN \E v \in Riders : rpc[v] = "waiting" /\ rpc' = [rpc EXCEPT ![v] = "search"]
     ELSE UNCHANGED rpc

-----------------------------------------------------------------------------
(* Boats.                                                                  *)

\* On offer, without bmtx and before the barrier is there.
Launch(i) ==
  /\ bpc[i] = "start" /\ bpc' = [bpc EXCEPT ![i] = "init"]
  /\ BA' = [BA EXCEPT ![i] = 1] /\ BC' = [BC EXCEPT ![i] = NONE] /\ UNCHANGED BT
  /\ UNCHANGED <<n, sems, barriers, rno, brtime, rmains, main>>

InitBB(i) ==
  /\ bpc[i] = "init" /\ bpc' = [bpc EXCEPT ![i] = "signal"]
  /\ ready_BB' = [ready_BB EXCEPT ![i] = TRUE]
  /\ UNCHANGED <<n, sems, arrays, BB, rno, brtime, rmains, main>>

SignalRider(i) ==
  /\ bpc[i] = "signal" /\ bpc' = [bpc EXCEPT ![i] = "await"]
  /\ V_rider
  /\ UNCHANGED <<n, boat, arrays, barriers, rno, brtime, bno, main>>

AwaitCall(i) ==
  /\ bpc[i] = "await" /\ P_boat(i)
  /\ UNCHANGED <<n, rider, arrays, barriers, rno, brtime, rmains, main>>

BoatAtBB(i) ==
  /\ bpc[i] = "bb"
  /\ \/ /\ BB[i] = {} /\ BB' = [BB EXCEPT ![i] = {BOAT}]
        /\ bpc' = [bpc EXCEPT ![i] = "in_bb"] /\ UNCHANGED rpc
     \/ \E v \in BB[i] :
        /\ BB' = [BB EXCEPT ![i] = {}]
        /\ bpc' = [bpc EXCEPT ![i] = "depart"] /\ rpc' = [rpc EXCEPT ![v] = "riding"]
  /\ UNCHANGED <<n, sems, arrays, ready_BB, rno, brtime, bno, main>>

\* Under bmtx: who rides; not available any more.
Depart(i) ==
  /\ bpc[i] = "depart" /\ bpc' = [bpc EXCEPT ![i] = "time"]
  /\ rno' = [rno EXCEPT ![i] = BC[i]]
  /\ BA' = [BA EXCEPT ![i] = 0]
  /\ UNCHANGED <<n, sems, BC, BT, barriers, brtime, rmains, main>>

\* The ride time is read without bmtx.
ReadTime(i) ==
  /\ bpc[i] = "time" /\ bpc' = [bpc EXCEPT ![i] = "riding"]
  /\ brtime' = [brtime EXCEPT ![i] = BT[i]]
  /\ UNCHANGED <<n, sems, arrays, barriers, rno, rmains, main>>

IsLast == n' = 0

Land_NoReset(i) ==
  /\ bpc[i] = "riding"
  /\ BA' = [BA EXCEPT ![i] = 1] /\ UNCHANGED <<BC, BT>>
  /\ n' = n - 1
  /\ IF IsLast
     THEN bpc' = [bpc EXCEPT ![i] = "EOS"] /\ UNCHANGED BB
     ELSE bpc' = [bpc EXCEPT ![i] = "signal"] /\ BB' = [BB EXCEPT ![i] = {}]
  /\ UNCHANGED <<sems, ready_BB, rno, brtime, rmains, main>>

\* Under bmtx: on offer again; the last ride ends the session, any other one
\* sets the barrier up anew.
Land(i) ==
  /\ bpc[i] = "riding"
  /\ BA' = [BA EXCEPT ![i] = 1] /\ BC' = [BC EXCEPT ![i] = NONE] /\ UNCHANGED BT
  /\ n' = n - 1
  /\ IF IsLast
     THEN bpc' = [bpc EXCEPT ![i] = "EOS"] /\ UNCHANGED BB
     ELSE bpc' = [bpc EXCEPT ![i] = "signal"] /\ BB' = [BB EXCEPT ![i] = {}]
  /\ UNCHANGED <<sems, ready_BB, rno, brtime, rmains, main>>

\* The boat of the last ride meets main at EOS.
BoatAtEOS(i) ==
  /\ bpc[i] = "EOS" /\ main = "EOS"
  /\ bpc' = [bpc EXCEPT ![i] = "signal"] /\ main' = "cancel"
  /\ UNCHANGED <<n, sems, arrays, barriers, rno, brtime, rmains>>

bmain(i) ==
  \/ Launch(i) \/ InitBB(i) \/ SignalRider(i) \/ AwaitCall(i) \/ BoatAtBB(i)
  \/ Depart(i) \/ ReadTime(i) \/ Land(i) \/ BoatAtEOS(i)

-----------------------------------------------------------------------------
(* Riders.                                                                 *)

CallBoat(v) ==
  /\ rpc[v] = "sights" /\ rpc' = [rpc EXCEPT ![v] = "called"]
  /\ V_boat
  /\ UNCHANGED <<n, rider, arrays, barriers, rno, brtime, bno, main>>

AwaitBoat(v) ==
  /\ rpc[v] = "called" /\ P_rider(v)
  /\ UNCHANGED <<n, boat, arrays, barriers, bmains, bno, main>>

Offered_AnyAvailable == {i \in Boats : BA[i] = 1}

Offered == {i \in Boats : BA[i] = 1 /\ BC[i] = NONE}

\* Under bmtx: the first boat on offer.
Search(v) ==
  /\ rpc[v] = "search" /\ rpc' = [rpc EXCEPT ![v] = "bb"]
  /\ \E i \in Offered :
       /\ \A j \in Offered : i <= j
       /\ bno' = [bno EXCEPT ![v] = i]
       /\ BC' = [BC EXCEPT ![i] = v] /\ BT' = [BT EXCEPT ![i] = rtime[v]]
  /\ UNCHANGED <<n, sems, BA, barriers, bmains, main>>

\* At a barrier that is not initialised yet the outcome is undefined: the
\* rider may get by, as if it came later, or never return.
RiderAtBB(v) ==
  LET i == bno[v] IN
  /\ rpc[v] = "bb"
  /\ \/ /\ ready_BB[i] /\ BB[i] = {} /\ BB' = [BB EXCEPT ![i] = {v}]
        /\ rpc' = [rpc EXCEPT ![v] = "in_bb"] /\ UNCHANGED bpc
     \/ /\ ready_BB[i] /\ BB[i] = {BOAT} /\ BB' = [BB EXCEPT ![i] = {}]
        /\ rpc' = [rpc EXCEPT ![v] = "riding"] /\ bpc' = [bpc EXCEPT ![i] = "depart"]
     \/ /\ ~ ready_BB[i] /\ rpc' = [rpc EXCEPT ![v] = "lost"]
        /\ UNCHANGED <<BB, bpc>>
  /\ UNCHANGED <<n, sems, arrays, ready_BB, rno, brtime, bno, main>>

Leave(v) ==
  /\ rpc[v] = "riding" /\ rpc' = [rpc EXCEPT ![v] = "left"]
  /\ UNCHANGED <<n, sems, arrays, barriers, bmains, bno, main>>

rmain(v) ==
  CallBoat(v) \/ AwaitBoat(v) \/ Search(v) \/ RiderAtBB(v) \/ Leave(v)

\* main cancels the threads and ends the process.
EndSession ==
  /\ main = "cancel" /\ main' = "exit"
  /\ UNCHANGED <<n, sems, arrays, barriers, bmains, rmains>>

-----------------------------------------------------------------------------

Next ==
  \/ /\ main # "exit"
     /\ \/ \E i \in Boats : bmain(i)
        \/ \E v \in Riders : rmain(v)
        \/ EndSession
  \/ main = "exit" /\ UNCHANGED vars

\* The operating system runs every thread that can run.
Fairness ==
  /\ \A i \in Boats : WF_vars(main # "exit" /\ bmain(i))
  /\ \A v \in Riders : WF_vars(main # "exit" /\ rmain(v))
  /\ WF_vars(EndSession)

Spec == Init /\ [][Next]_vars /\ Fairness

-----------------------------------------------------------------------------
(* Properties.                                                             *)

\* What values the variables take.
TypeOK ==
  /\ n \in 0 .. r /\ boat \in Int /\ rider \in Int
  /\ BA \in [Boats -> {0, 1}] /\ BC \in [Boats -> Riders \cup {0, NONE}]
  /\ BT \in [Boats -> RideTimes \cup {0}]
  /\ BB \in [Boats -> SUBSET (Riders \cup {BOAT})] /\ ready_BB \in [Boats -> BOOLEAN]
  /\ bpc \in [Boats -> {"start", "init", "signal", "await", "waiting", "bb", "in_bb",
                        "depart", "time", "riding", "EOS"}]
  /\ rno \in [Boats -> Riders \cup {NONE}] /\ brtime \in [Boats -> RideTimes \cup {0}]
  /\ rpc \in [Riders -> {"sights", "called", "waiting", "search", "bb", "in_bb",
                         "riding", "left", "lost"}]
  /\ bno \in [Riders -> Boats \cup {NONE}]
  /\ main \in {"EOS", "cancel", "exit"}

\* A rider that found a boat and has not met it yet.
Boarding(v) == rpc[v] \in {"bb", "in_bb", "lost"}

\* Boat and rider agree about their ride although the rider's section ends
\* before the two meet and the time is read outside of one: at most one rider
\* boards a boat, and a boat that met its rider carries that one for the time
\* it drew (l. 70-78, 114-126; LA7.pdf p. 2 "distinct visitors must be
\* selected by the available boats").
RidesMatch ==
  /\ \A v \in Riders : Boarding(v) => BC[bno[v]] = v
  /\ \A i \in Boats : bpc[i] \in {"depart", "time", "riding"} =>
       /\ BC[i] \in Riders /\ bno[BC[i]] = i /\ ~ Boarding(BC[i])
       /\ BT[i] = rtime[BC[i]]
       /\ bpc[i] # "depart" => rno[i] = BC[i]
       /\ bpc[i] = "riding" => brtime[i] = rtime[rno[i]]

\* Every rider that P(&rider) let through finds a boat at its first try: there
\* are always as many boats on offer as riders about to search.  The loop of
\* l. 113 never spins, which is why the model needs no failing search.
SearchNeverSpins ==
  Cardinality({v \in Riders : rpc[v] = "search"}) <= Cardinality(Offered)

\* A rider waits in a boat that nobody called while a boat that was called
\* waits for a rider, or was lost at a barrier that was not there yet.
Stranded(v) ==
  \/ /\ rpc[v] = "in_bb" /\ bpc[bno[v]] = "waiting"
     /\ \E i \in Boats : bpc[i] = "in_bb"
  \/ rpc[v] = "lost"

\* The session ends and every rider has met its boat, unless somebody is
\* stranded: no call and no signal is lost otherwise, and a boat that was called
\* meets a rider, unless that rider sits in another boat that was not (l. 26-40,
\* 66-91, 109-126, 157).
Over == main = "exit" /\ \A v \in Riders : rpc[v] \in {"riding", "left"}
OnlyTheStrandedHang == []<>(Over \/ \E v \in Riders : Stranded(v))

=============================================================================
