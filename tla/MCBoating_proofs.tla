-------------------------- MODULE MCBoating_proofs --------------------------
(***************************************************************************)
(* Proofs about LA7, for any number of boats and visitors and any ride     *)
(* times: first about boating.c (Boating), then about the solution and     *)
(* about the two programs side by side, as the run of MCBoating has them.  *)
(***************************************************************************)
EXTENDS MCBoating, FiniteSetTheorems, TLAPS

-----------------------------------------------------------------------------
(* The inductive invariant: who keeps bmtx, what a boat's program point says *)
(* of its arrays and barriers, and who rides in which boat.                  *)

\* bmtx is kept by the visitor that found a boat and has not met it yet.
LockInv == \A v \in Visitors : vpc[v] \in {"bb", "in_bb", "unlock"} <=> bmtx = v

\* The boat is available, and its barriers exist, exactly in these places.
FlagInv ==
  \A i \in Boats :
    /\ BA[i] = 1   <=> bpc[i] \in {"bb", "in_bb", "depart"}
    /\ ready_BB[i] <=> bpc[i] \in {"bb", "in_bb", "depart"}
    /\ ready_exit[i] <=> bpc[i] \in {"bb", "in_bb", "depart", "riding", "in_exit", "destroy"}

\* Who waits at a boat's barriers.
WaitInv ==
  \A i \in Boats :
    /\ BOAT \in BB[i] <=> bpc[i] = "in_bb"
    /\ BOAT \in exit_barriers[i] <=> bpc[i] = "in_exit"
    /\ \A v \in Visitors :
         /\ v \in BB[i] <=> vpc[v] = "in_bb" /\ boat_index[v] = i
         /\ v \in exit_barriers[i] <=> vpc[v] = "in_exit" /\ boat_index[v] = i

\* Where the boat of a visitor aboard may be.
BoatOf(v, at) ==
  /\ vpc[v] = "bb"      => at \in {"bb", "in_bb"}
  /\ vpc[v] = "in_bb"   => at = "bb"
  /\ vpc[v] = "unlock"  => at = "depart"
  /\ vpc[v] = "riding"  => at \in {"depart", "riding", "in_exit"}
  /\ vpc[v] = "in_exit" => at \in {"depart", "riding"}

\* A visitor and its boat know each other.
VisitorInv ==
  \A v \in Visitors : Aboard(v) =>
    /\ boat_index[v] \in Boats
    /\ BC[boat_index[v]] = v /\ BT[boat_index[v]] = rtime[v]
    /\ BoatOf(v, bpc[boat_index[v]])

\* A boat with a customer has that customer on board.
CustomerInv ==
  \A i \in Boats :
    /\ \/ bpc[i] \in {"bb", "in_bb"} /\ BC[i] # NONE
       \/ bpc[i] \in {"depart", "riding", "in_exit"}
       => BC[i] \in Visitors /\ Aboard(BC[i]) /\ boat_index[BC[i]] = i
    /\ bpc[i] \in {"riding", "in_exit"} => visitor_id[i] = BC[i] /\ ride_time[i] = BT[i]

\* The visitors whose ride was counted, among them the one that rings.
Counted == {v \in Visitors : vpc[v] \in {"ring", "left"}}
CountInv ==
  /\ finished = Cardinality(Counted)
  /\ done => finished = n
  /\ ~ done => rung = 0
  /\ \A v \in Visitors : vpc[v] = "ring" =>
       finished = n /\ rung < m /\ \A w \in Visitors : vpc[w] = "ring" => w = v

PairInv == LockInv /\ FlagInv /\ WaitInv /\ VisitorInv /\ CustomerInv

RideInv == TypeOK /\ CountInv /\ PairInv

-----------------------------------------------------------------------------

USE SizeAssumption, TimeAssumption

\* The places of a boat without and of a visitor without a boat.
Idle   == {"signal", "await", "waiting", "check", "offer", "gone"}
Ashore == {"sights", "called", "waiting", "search", "count", "ring", "left"}

\* A step that moves boats among idle places and visitors ashore, and touches
\* neither lock, arrays nor barriers, keeps the pairs.
LEMMA QuietStep ==
  ASSUME TypeOK, TypeOK', PairInv,
         UNCHANGED <<arrays, bmtx, barriers, visitor_id, ride_time, boat_index>>,
         \A i \in Boats : bpc'[i] = bpc[i] \/ (bpc[i] \in Idle /\ bpc'[i] \in Idle),
         \A v \in Visitors : vpc'[v] = vpc[v] \/ (vpc[v] \in Ashore /\ vpc'[v] \in Ashore)
  PROVE  PairInv'
<1>0. UNCHANGED <<BA, BC, BT, BB, exit_barriers, ready_BB, ready_exit>>
  BY DEF arrays, barriers
<1>a. \A v \in Visitors : Aboard(v)' = Aboard(v) /\ (Aboard(v) => vpc'[v] = vpc[v])
  BY DEF Aboard, Ashore
<1>1. LockInv'
  BY DEF PairInv, LockInv, Ashore
<1>2. FlagInv'
  BY <1>0 DEF PairInv, FlagInv, Idle
<1>3. WaitInv'
  BY <1>0 DEF PairInv, WaitInv, Idle, Ashore
<1>4. VisitorInv'
  BY <1>0, <1>a DEF PairInv, VisitorInv, BoatOf, Idle, Aboard
<1>5. CustomerInv'
  BY <1>0, <1>a DEF PairInv, CustomerInv, Idle
<1>6. QED
  BY <1>1, <1>2, <1>3, <1>4, <1>5 DEF PairInv


\* Steps of boats and visitors on their own.
LEMMA SignalRiderPairs ==
  ASSUME RideInv, NEW i \in Boats, SignalRider(i)
  PROVE  TypeOK' /\ PairInv'
<1>1. TypeOK'
  BY DEF RideInv, TypeOK, SignalRider, V_rider, BoatLabels, VisitorLabels, arrays, barriers
<1>2. \A w \in Visitors : vpc'[w] = vpc[w] \/ (vpc[w] = "waiting" /\ vpc'[w] = "search")
  BY DEF RideInv, TypeOK, SignalRider, V_rider
<1>3. QED
  BY <1>1, <1>2, QuietStep DEF RideInv, TypeOK, SignalRider, Idle, Ashore

\* The pairs stay matched when a boat waits on the semaphore boat.
LEMMA AwaitVisitorPairs ==
  ASSUME RideInv, NEW i \in Boats, AwaitVisitor(i)
  PROVE  TypeOK' /\ PairInv'
<1>1. TypeOK'
  BY DEF RideInv, TypeOK, AwaitVisitor, P_boat, BoatLabels, arrays, barriers, visitors
<1>2. QED
  BY <1>1, QuietStep DEF RideInv, TypeOK, AwaitVisitor, P_boat, visitors, Idle

\* ... when a boat looks whether everybody is done.
LEMMA CheckDonePairs ==
  ASSUME RideInv, NEW i \in Boats, CheckDone(i)
  PROVE  TypeOK' /\ PairInv'
<1>1. TypeOK'
  BY DEF RideInv, TypeOK, CheckDone, BoatLabels, sems, arrays, barriers, visitors
<1>2. QED
  BY <1>1, QuietStep DEF RideInv, TypeOK, CheckDone, visitors, Idle

\* ... when a visitor posts boat.
LEMMA CallBoatPairs ==
  ASSUME RideInv, NEW v \in Visitors, CallBoat(v)
  PROVE  TypeOK' /\ PairInv'
<1>1. TypeOK'
  BY DEF RideInv, TypeOK, CallBoat, V_boat, BoatLabels, VisitorLabels, arrays, barriers
<1>2. \A i \in Boats : bpc'[i] = bpc[i] \/ (bpc[i] = "waiting" /\ bpc'[i] = "check")
  BY DEF RideInv, TypeOK, CallBoat, V_boat
<1>3. QED
  BY <1>1, <1>2, QuietStep DEF RideInv, TypeOK, CallBoat, Idle, Ashore

\* ... when a visitor waits on the semaphore rider.
LEMMA AwaitBoatPairs ==
  ASSUME RideInv, NEW v \in Visitors, AwaitBoat(v)
  PROVE  TypeOK' /\ PairInv'
<1>1. TypeOK'
  BY DEF RideInv, TypeOK, AwaitBoat, P_rider, VisitorLabels, arrays, barriers, boats
<1>2. QED
  BY <1>1, QuietStep DEF RideInv, TypeOK, AwaitBoat, P_rider, boats, Ashore

\* ... when a boat offers itself.
LEMMA OfferPairs ==
  ASSUME RideInv, NEW i \in Boats, Offer(i)
  PROVE  TypeOK' /\ PairInv'
<1> USE DEF RideInv, PairInv, TypeOK, Offer, visitors
<1>1. TypeOK'
  BY DEF sems, BoatLabels
<1>2. LockInv'
  BY DEF LockInv
<1>3. FlagInv'
  BY DEF FlagInv
<1>a. \A v \in Visitors : Aboard(v) => boat_index[v] # i
  BY DEF VisitorInv, BoatOf, Aboard
<1>4. WaitInv'
  BY <1>a DEF WaitInv, Aboard, BOAT
<1>5. VisitorInv'
  BY <1>a DEF VisitorInv, BoatOf, Aboard
<1>6. CustomerInv'
  BY DEF CustomerInv, Aboard
<1>7. QED
  BY <1>1, <1>2, <1>3, <1>4, <1>5, <1>6

\* ... when the boat comes to the barrier BB of its pair.
LEMMA BoatAtBBPairs ==
  ASSUME RideInv, NEW i \in Boats, BoatAtBB(i)
  PROVE  TypeOK' /\ PairInv'
<1> USE DEF RideInv, PairInv, TypeOK, BoatAtBB
<1>a. ~ BOAT \in BB[i]
  BY DEF WaitInv
<1>1. CASE BB[i] = {} /\ BB' = [BB EXCEPT ![i] = {BOAT}]
           /\ bpc' = [bpc EXCEPT ![i] = "in_bb"] /\ UNCHANGED vpc
  <2>1. TypeOK'
    BY <1>1 DEF sems, arrays, BoatLabels
  <2>2. LockInv' /\ FlagInv'
    BY <1>1 DEF LockInv, FlagInv, arrays
  <2>3. WaitInv'
    BY <1>1 DEF WaitInv, BOAT, Visitors
  <2>4. VisitorInv'
    BY <1>1 DEF VisitorInv, WaitInv, BoatOf, Aboard, arrays
  <2>5. CustomerInv'
    BY <1>1 DEF CustomerInv, Aboard, arrays
  <2>6. QED
    BY <2>1, <2>2, <2>3, <2>4, <2>5
<1>2. ASSUME NEW v \in BB[i],
             BB' = [BB EXCEPT ![i] = {}],
             bpc' = [bpc EXCEPT ![i] = "depart"], vpc' = [vpc EXCEPT ![v] = "unlock"]
      PROVE  TypeOK' /\ PairInv'
  <2>a. v \in Visitors /\ vpc[v] = "in_bb" /\ boat_index[v] = i /\ BC[i] = v /\ BT[i] = rtime[v]
    BY <1>a, <1>2 DEF WaitInv, VisitorInv, Aboard
  <2>b. \A w \in Visitors : Aboard(w) /\ boat_index[w] = i => w = v
    BY <2>a DEF VisitorInv
  <2>1. TypeOK'
    BY <1>2, <2>a DEF sems, arrays, BoatLabels, VisitorLabels
  <2>2. LockInv' /\ FlagInv'
    BY <1>2, <2>a DEF LockInv, FlagInv, arrays
  <2>3. WaitInv'
    BY <1>2, <2>a, <2>b DEF WaitInv, Aboard
  <2>4. VisitorInv'
    BY <1>2, <2>a, <2>b DEF VisitorInv, BoatOf, Aboard, arrays
  <2>5. CustomerInv'
    BY <1>2, <2>a, <2>b DEF CustomerInv, Aboard, arrays
  <2>6. QED
    BY <2>1, <2>2, <2>3, <2>4, <2>5
<1>3. QED
  BY <1>1, <1>2

\* ... when a boat sets out with its visitor.
LEMMA DepartPairs ==
  ASSUME RideInv, NEW i \in Boats, Depart(i)
  PROVE  TypeOK' /\ PairInv'
<1> USE DEF RideInv, PairInv, TypeOK, Depart, visitors
<1>1. TypeOK'
  BY DEF sems, BoatLabels
<1>2. LockInv' /\ FlagInv' /\ WaitInv'
  BY DEF LockInv, FlagInv, WaitInv
<1>a. \A v \in Visitors : vpc[v] # "unlock"
  BY DEF LockInv, NOBODY, Visitors
<1>3. VisitorInv'
  BY <1>a DEF VisitorInv, BoatOf, Aboard
<1>4. CustomerInv'
  BY DEF CustomerInv, Aboard
<1>5. QED
  BY <1>1, <1>2, <1>3, <1>4


\* ... when the boat comes to the barrier at the end of the ride.
LEMMA BoatAtExitPairs ==
  ASSUME RideInv, NEW i \in Boats, BoatAtExit(i)
  PROVE  TypeOK' /\ PairInv'
<1> USE DEF RideInv, PairInv, TypeOK, BoatAtExit
<1>a. ~ BOAT \in exit_barriers[i]
  BY DEF WaitInv
<1>1. CASE exit_barriers[i] = {} /\ exit_barriers' = [exit_barriers EXCEPT ![i] = {BOAT}]
           /\ bpc' = [bpc EXCEPT ![i] = "in_exit"] /\ UNCHANGED vpc
  <2>1. TypeOK'
    BY <1>1 DEF sems, arrays, BoatLabels
  <2>2. LockInv' /\ FlagInv'
    BY <1>1 DEF LockInv, FlagInv, arrays
  <2>3. WaitInv'
    BY <1>1 DEF WaitInv, BOAT, Visitors
  <2>4. VisitorInv'
    BY <1>1 DEF VisitorInv, WaitInv, BoatOf, Aboard, arrays
  <2>5. CustomerInv'
    BY <1>1 DEF CustomerInv, Aboard, arrays
  <2>6. QED
    BY <2>1, <2>2, <2>3, <2>4, <2>5
<1>2. ASSUME NEW v \in exit_barriers[i],
             exit_barriers' = [exit_barriers EXCEPT ![i] = {}],
             bpc' = [bpc EXCEPT ![i] = "destroy"], vpc' = [vpc EXCEPT ![v] = "count"]
      PROVE  TypeOK' /\ PairInv'
  <2>a. v \in Visitors /\ vpc[v] = "in_exit" /\ boat_index[v] = i /\ BC[i] = v
    BY <1>a, <1>2 DEF WaitInv, VisitorInv, Aboard
  <2>b. \A w \in Visitors : Aboard(w) /\ boat_index[w] = i => w = v
    BY <2>a DEF VisitorInv
  <2>1. TypeOK'
    BY <1>2, <2>a DEF sems, arrays, BoatLabels, VisitorLabels
  <2>2. LockInv' /\ FlagInv'
    BY <1>2, <2>a DEF LockInv, FlagInv, arrays
  <2>3. WaitInv'
    BY <1>2, <2>a, <2>b DEF WaitInv, Aboard
  <2>4. VisitorInv'
    BY <1>2, <2>a, <2>b DEF VisitorInv, BoatOf, Aboard, arrays
  <2>5. CustomerInv'
    BY <1>2, <2>a, <2>b DEF CustomerInv, Aboard, arrays
  <2>6. QED
    BY <2>1, <2>2, <2>3, <2>4, <2>5
<1>3. QED
  BY <1>1, <1>2

\* ... when that barrier is destroyed.
LEMMA DestroyExitPairs ==
  ASSUME RideInv, NEW i \in Boats, DestroyExit(i)
  PROVE  TypeOK' /\ PairInv'
<1> USE DEF RideInv, PairInv, TypeOK, DestroyExit, visitors, arrays
<1>1. TypeOK'
  BY DEF sems, BoatLabels
<1>2. LockInv' /\ FlagInv' /\ WaitInv'
  BY DEF LockInv, FlagInv, WaitInv
<1>3. VisitorInv'
  BY DEF VisitorInv, BoatOf, Aboard
<1>4. CustomerInv'
  BY DEF CustomerInv, Aboard
<1>5. QED
  BY <1>1, <1>2, <1>3, <1>4

\* ... when a visitor takes the first boat that offers itself.
LEMMA SearchPairs ==
  ASSUME RideInv, NEW v \in Visitors, Search(v)
  PROVE  TypeOK' /\ PairInv'
<1> USE DEF RideInv, PairInv, TypeOK, barriers, boats
<1>1. PICK i \in Offered :
        /\ boat_index' = [boat_index EXCEPT ![v] = i]
        /\ BT' = [BT EXCEPT ![i] = rtime[v]] /\ BC' = [BC EXCEPT ![i] = v] /\ UNCHANGED BA
  BY DEF Search
<1>a. i \in Boats /\ bpc[i] \in {"bb", "in_bb"} /\ BC[i] = NONE
  BY DEF Offered, FlagInv, CustomerInv, NONE, Visitors
<1>b. \A w \in Visitors : Aboard(w) => boat_index[w] # i
  BY <1>a DEF VisitorInv, NONE, Visitors
<1>c. \A w \in Visitors : vpc[w] \notin {"bb", "in_bb", "unlock"}
  BY DEF Search, LockInv, NOBODY, Visitors
<1>2. TypeOK'
  BY <1>1, <1>a DEF Search, sems, VisitorLabels
<1>3. LockInv'
  BY <1>c DEF Search, LockInv
<1>4. FlagInv' /\ WaitInv'
  BY <1>1, <1>a, <1>b DEF Search, FlagInv, WaitInv, Aboard
<1>5. VisitorInv'
  BY <1>1, <1>a, <1>b DEF Search, VisitorInv, BoatOf, Aboard
<1>6. CustomerInv'
  BY <1>1, <1>a, <1>b DEF Search, CustomerInv, Aboard
<1>7. QED
  BY <1>2, <1>3, <1>4, <1>5, <1>6

\* ... when the visitor comes to the barrier BB of its pair.
LEMMA VisitorAtBBPairs ==
  ASSUME RideInv, NEW v \in Visitors, VisitorAtBB(v)
  PROVE  TypeOK' /\ PairInv'
<1> DEFINE i == boat_index[v]
<1> USE DEF RideInv, PairInv, TypeOK, VisitorAtBB, arrays
<1>a. i \in Boats /\ BC[i] = v /\ BT[i] = rtime[v] /\ Aboard(v) /\ bpc[i] \in {"bb", "in_bb"}
  BY DEF VisitorInv, BoatOf, Aboard
<1>b. \A w \in Visitors : Aboard(w) /\ boat_index[w] = i => w = v
  BY <1>a DEF VisitorInv
<1>c. BOAT \notin Visitors
  BY DEF BOAT, Visitors
<1>1. CASE BB[i] = {}
  <2>1. /\ BB' = [BB EXCEPT ![i] = {v}]
        /\ vpc' = [vpc EXCEPT ![v] = "in_bb"] /\ UNCHANGED bpc
    BY <1>1
  <2>2. bpc[i] = "bb"
    BY <1>a, <1>1 DEF WaitInv
  <2> HIDE DEF i
  <2>3. TypeOK'
    BY <1>a, <2>1 DEF sems, VisitorLabels
  <2>4. LockInv' /\ FlagInv'
    BY <1>a, <2>1 DEF LockInv, FlagInv, i
  <2>5. WaitInv'
    BY <1>a, <1>b, <1>c, <1>1, <2>1, <2>2 DEF WaitInv, Aboard, i
  <2>6. VisitorInv'
    BY <1>a, <2>1, <2>2 DEF VisitorInv, BoatOf, Aboard, i
  <2>7. CustomerInv'
    BY <1>a, <2>1 DEF CustomerInv, Aboard
  <2>8. QED
    BY <2>3, <2>4, <2>5, <2>6, <2>7
<1>2. CASE BB[i] = {BOAT}
  <2>1. /\ BB' = [BB EXCEPT ![i] = {}]
        /\ vpc' = [vpc EXCEPT ![v] = "unlock"] /\ bpc' = [bpc EXCEPT ![i] = "depart"]
    BY <1>2
  <2> HIDE DEF i
  <2>3. TypeOK'
    BY <1>a, <2>1 DEF sems, VisitorLabels, BoatLabels
  <2>4. LockInv' /\ FlagInv'
    BY <1>a, <2>1 DEF LockInv, FlagInv, i
  <2>5. WaitInv'
    BY <1>a, <1>b, <2>1 DEF WaitInv, Aboard, i
  <2>6. VisitorInv'
    BY <1>a, <1>b, <2>1 DEF VisitorInv, BoatOf, Aboard, i
  <2>7. CustomerInv'
    BY <1>a, <2>1 DEF CustomerInv, Aboard, i
  <2>8. QED
    BY <2>3, <2>4, <2>5, <2>6, <2>7
<1>3. QED
  BY <1>1, <1>2

\* ... when a visitor leaves the mutex.
LEMMA UnlockPairs ==
  ASSUME RideInv, NEW v \in Visitors, Unlock(v)
  PROVE  TypeOK' /\ PairInv'
<1> USE DEF RideInv, PairInv, TypeOK, Unlock, arrays, barriers, boats
<1>1. TypeOK'
  BY DEF sems, VisitorLabels
<1>2. LockInv'
  BY DEF LockInv, NOBODY, Visitors
<1>3. FlagInv' /\ WaitInv'
  BY DEF FlagInv, WaitInv
<1>4. VisitorInv'
  BY DEF VisitorInv, BoatOf, Aboard
<1>5. CustomerInv'
  BY DEF CustomerInv, Aboard
<1>6. QED
  BY <1>1, <1>2, <1>3, <1>4, <1>5

\* ... when the visitor comes to the barrier at the end of the ride.
LEMMA VisitorAtExitPairs ==
  ASSUME RideInv, NEW v \in Visitors, VisitorAtExit(v)
  PROVE  TypeOK' /\ PairInv'
<1> DEFINE i == boat_index[v]
<1> USE DEF RideInv, PairInv, TypeOK, VisitorAtExit, arrays
<1>a. i \in Boats /\ BC[i] = v /\ Aboard(v) /\ bpc[i] \in {"depart", "riding", "in_exit"}
  BY DEF VisitorInv, BoatOf, Aboard
<1>b. \A w \in Visitors : Aboard(w) /\ boat_index[w] = i => w = v
  BY <1>a DEF VisitorInv
<1>c. BOAT \notin Visitors
  BY DEF BOAT, Visitors
<1>1. CASE exit_barriers[i] = {}
  <2>1. /\ exit_barriers' = [exit_barriers EXCEPT ![i] = {v}]
        /\ vpc' = [vpc EXCEPT ![v] = "in_exit"] /\ UNCHANGED bpc
    BY <1>1
  <2>2. bpc[i] \in {"depart", "riding"}
    BY <1>a, <1>1 DEF WaitInv
  <2> HIDE DEF i
  <2>3. TypeOK'
    BY <1>a, <2>1 DEF sems, VisitorLabels
  <2>4. LockInv' /\ FlagInv'
    BY <1>a, <2>1 DEF LockInv, FlagInv, i
  <2>5. WaitInv'
    BY <1>a, <1>b, <1>c, <1>1, <2>1, <2>2 DEF WaitInv, Aboard, i
  <2>6. VisitorInv'
    BY <1>a, <2>1, <2>2 DEF VisitorInv, BoatOf, Aboard, i
  <2>7. CustomerInv'
    BY <1>a, <2>1 DEF CustomerInv, Aboard
  <2>8. QED
    BY <2>3, <2>4, <2>5, <2>6, <2>7
<1>2. CASE exit_barriers[i] = {BOAT}
  <2>1. /\ exit_barriers' = [exit_barriers EXCEPT ![i] = {}]
        /\ vpc' = [vpc EXCEPT ![v] = "count"] /\ bpc' = [bpc EXCEPT ![i] = "destroy"]
    BY <1>2
  <2>2. bpc[i] = "in_exit"
    BY <1>a, <1>2 DEF WaitInv
  <2> HIDE DEF i
  <2>3. TypeOK'
    BY <1>a, <2>1 DEF sems, VisitorLabels, BoatLabels
  <2>4. LockInv' /\ FlagInv'
    BY <1>a, <2>1, <2>2 DEF LockInv, FlagInv, i
  <2>5. WaitInv'
    BY <1>a, <1>b, <2>1, <2>2 DEF WaitInv, Aboard, i
  <2>6. VisitorInv'
    BY <1>a, <1>b, <2>1 DEF VisitorInv, BoatOf, Aboard, i
  <2>7. CustomerInv'
    BY <1>a, <2>1, <2>2 DEF CustomerInv, Aboard, i
  <2>8. QED
    BY <2>3, <2>4, <2>5, <2>6, <2>7
<1>3. QED
  BY <1>1, <1>2


-----------------------------------------------------------------------------
(* Counting.                                                               *)

\* A set of visitors is finite, with at most n members, and n only if it is all of them.
LEMMA VisitorSets ==
  ASSUME NEW S \in SUBSET Visitors
  PROVE  /\ IsFiniteSet(S) /\ Cardinality(S) \in Nat /\ Cardinality(S) <= n
         /\ Cardinality(S) = n => S = Visitors
<1>1. IsFiniteSet(Visitors) /\ Cardinality(Visitors) = n
  BY FS_Interval DEF Visitors
<1>2. QED
  BY <1>1, FS_Subset, FS_CardinalityType

\* A set of boats is finite, with at most m members.
LEMMA BoatSets ==
  ASSUME NEW S \in SUBSET Boats
  PROVE  IsFiniteSet(S) /\ Cardinality(S) \in Nat /\ Cardinality(S) <= m
<1>1. IsFiniteSet(Boats) /\ Cardinality(Boats) = m
  BY FS_Interval DEF Boats
<1>2. QED
  BY <1>1, FS_Subset, FS_CardinalityType

\* Everyone was counted once finished is n.
LEMMA AllCounted ==
  ASSUME CountInv, finished = n
  PROVE  Counted = Visitors
<1>1. Counted \in SUBSET Visitors
  BY DEF Counted
<1>2. QED
  BY <1>1, VisitorSets DEF CountInv

\* Steps that neither count nor ring.
LEMMA UncountedStep ==
  ASSUME CountInv, UNCHANGED <<finished, done, rung>>,
         \A v \in Visitors : vpc'[v] = vpc[v] \/ {vpc[v], vpc'[v]} \cap {"ring", "left"} = {}
  PROVE  CountInv'
<1>1. \A v \in Visitors : vpc'[v] = vpc[v] \/ (vpc[v] \notin {"ring", "left"} /\ vpc'[v] \notin {"ring", "left"})
  OBVIOUS
<1>2. Counted' = Counted
  BY <1>1 DEF Counted
<1>3. QED
  BY <1>1, <1>2 DEF CountInv

\* The invariant is kept when a visitor counts itself among the finished.
LEMMA CountKeeps ==
  ASSUME RideInv, NEW v \in Visitors, Count(v)
  PROVE  RideInv'
<1> USE DEF RideInv
<1>1. v \notin Counted /\ Counted \in SUBSET Visitors /\ vpc \in [Visitors -> VisitorLabels]
  BY DEF Count, Counted, TypeOK
<1>2. Counted' = Counted \cup {v} /\ Counted' \in SUBSET Visitors
  BY <1>1 DEF Count, Counted, TypeOK
<1>3. finished' = Cardinality(Counted')
  BY <1>1, <1>2, VisitorSets, FS_AddElement DEF Count, CountInv
<1>4. finished < n /\ finished' \in 0 .. n
  BY <1>2, <1>3, VisitorSets DEF Count, TypeOK
<1>5. \A w \in Visitors : vpc[w] # "ring"
  BY <1>4 DEF CountInv
<1>6. ~ done
  BY <1>4 DEF CountInv
<1>7. vpc' = [vpc EXCEPT ![v] = IF finished' = n THEN "ring" ELSE "left"]
  <2>1. finished' >= n <=> finished' = n
    BY <1>4
  <2>2. QED
    BY <2>1 DEF Count, IsLast
<1>8. TypeOK'
  BY <1>4, <1>7 DEF Count, TypeOK, VisitorLabels, sems, arrays, barriers, boats
<1>9. CountInv'
  BY <1>1, <1>3, <1>4, <1>5, <1>6, <1>7 DEF Count, CountInv
<1>10. PairInv'
  BY <1>8, <1>7, QuietStep DEF Count, TypeOK, boats, Ashore
<1>11. QED
  BY <1>8, <1>9, <1>10


\* ... when the last of them rings for the boats.
LEMMA RingKeeps ==
  ASSUME RideInv, NEW v \in Visitors, Ring(v)
  PROVE  RideInv'
<1> USE DEF RideInv
<1>1. /\ vpc[v] = "ring" /\ finished = n /\ rung < m
      /\ \A w \in Visitors : vpc[w] = "ring" => w = v
  BY DEF Ring, CountInv
<1>2. \A i \in Boats : bpc'[i] = bpc[i] \/ (bpc[i] = "waiting" /\ bpc'[i] = "check")
  BY DEF Ring, V_boat, TypeOK
<1>3. vpc' = vpc \/ vpc' = [vpc EXCEPT ![v] = "left"]
  BY DEF Ring, TypeOK
<1>4. TypeOK'
  <2>1. rung' \in 0 .. m /\ boat_sem' \in Int /\ bpc' \in [Boats -> BoatLabels]
    BY <1>1 DEF Ring, V_boat, TypeOK, BoatLabels
  <2>2. QED
    BY <1>3, <2>1 DEF Ring, TypeOK, VisitorLabels, arrays, barriers
<1>5. CountInv'
  <2>1. Counted' = Counted
    BY <1>1, <1>3 DEF Counted, TypeOK
  <2>2. vpc'[v] = "ring" => rung' < m
    BY <1>1 DEF Ring, TypeOK
  <2>3. done' /\ finished' = finished
    BY DEF Ring
  <2>4. \A w \in Visitors : vpc'[w] = "ring" => w = v
    BY <1>1, <1>3 DEF TypeOK
  <2>5. QED
    BY <1>1, <2>1, <2>2, <2>3, <2>4 DEF CountInv
<1>6. PairInv'
  <2>1. \A w \in Visitors : vpc'[w] = vpc[w] \/ (vpc[w] \in Ashore /\ vpc'[w] \in Ashore)
    BY <1>1, <1>3 DEF TypeOK, Ashore
  <2>2. QED
    BY <1>2, <1>4, <2>1, QuietStep DEF Ring, Idle
<1>7. QED
  BY <1>4, <1>5, <1>6

\* Every step keeps the invariant.
LEMMA InitRide == Init => RideInv
<1> SUFFICES ASSUME Init PROVE RideInv
  OBVIOUS
<1>1. TypeOK
  <2>1. finished \in 0 .. n /\ rung \in 0 .. m
    BY DEF Init
  <2>2. /\ BB \in [Boats -> SUBSET (Visitors \cup {BOAT})]
        /\ exit_barriers \in [Boats -> SUBSET (Visitors \cup {BOAT})]
    BY DEF Init
  <2>3. /\ bpc \in [Boats -> BoatLabels] /\ vpc \in [Visitors -> VisitorLabels]
        /\ ready_BB \in [Boats -> BOOLEAN] /\ ready_exit \in [Boats -> BOOLEAN]
    BY DEF Init, BoatLabels, VisitorLabels
  <2>4. BA \in [Boats -> {0, 1}] /\ BT \in [Boats -> RideTimes \cup {0}]
    BY DEF Init
  <2>5. BC \in [Boats -> Visitors \cup {NONE}] /\ visitor_id \in [Boats -> Visitors \cup {NONE}]
    BY DEF Init
  <2>6. ride_time \in [Boats -> RideTimes \cup {0}] /\ boat_index \in [Visitors -> Boats \cup {NONE}]
    BY DEF Init
  <2>7. rider_sem \in Int /\ boat_sem \in Int
    BY DEF Init
  <2>8. bmtx \in Visitors \cup {NOBODY} /\ done \in BOOLEAN
    BY Zenon DEF Init
  <2>9. QED
    BY <2>1, <2>2, <2>3, <2>4, <2>5, <2>6, <2>7, <2>8 DEF TypeOK
<1>2. Counted = {}
  BY DEF Init, Counted
<1>3. CountInv
  BY <1>2, FS_EmptySet DEF Init, CountInv
<1>4. PairInv
  BY DEF Init, PairInv, LockInv, FlagInv, WaitInv, VisitorInv, CustomerInv, Aboard, NOBODY, Visitors
<1>5. QED
  BY <1>1, <1>3, <1>4 DEF RideInv

\* Every step keeps the invariant of the rides.
LEMMA StepRide == RideInv /\ [Next]_vars => RideInv'
<1> SUFFICES ASSUME RideInv, [Next]_vars PROVE RideInv'
  OBVIOUS
<1> USE DEF RideInv
<1>1. ASSUME NEW i \in Boats, boat_thread(i) PROVE RideInv'
  <2>1. TypeOK' /\ PairInv'
    BY <1>1, SignalRiderPairs, AwaitVisitorPairs, CheckDonePairs, OfferPairs, BoatAtBBPairs,
       DepartPairs, BoatAtExitPairs, DestroyExitPairs DEF boat_thread
  <2>2. UNCHANGED <<finished, done, rung>>
    BY <1>1 DEF boat_thread, SignalRider, AwaitVisitor, CheckDone, Offer, BoatAtBB, Depart,
       BoatAtExit, DestroyExit, visitors
  <2>3. \A v \in Visitors : vpc'[v] = vpc[v] \/ {vpc[v], vpc'[v]} \cap {"ring", "left"} = {}
    <3>1. CASE SignalRider(i)
      BY <3>1 DEF SignalRider, V_rider, TypeOK
    <3>2. CASE BoatAtBB(i)
      BY <3>2 DEF BoatAtBB, TypeOK, PairInv, WaitInv
    <3>3. CASE BoatAtExit(i)
      BY <3>3 DEF BoatAtExit, TypeOK, PairInv, WaitInv
    <3>4. CASE AwaitVisitor(i) \/ CheckDone(i) \/ Offer(i) \/ Depart(i) \/ DestroyExit(i)
      BY <3>4 DEF AwaitVisitor, CheckDone, Offer, Depart, DestroyExit, visitors
    <3>5. QED
      BY <1>1, <3>1, <3>2, <3>3, <3>4 DEF boat_thread
  <2>4. QED
    BY <2>1, <2>2, <2>3, UncountedStep
<1>2. ASSUME NEW v \in Visitors, visitor_thread(v), ~ Count(v), ~ Ring(v) PROVE RideInv'
  <2>1. TypeOK' /\ PairInv'
    BY <1>2, CallBoatPairs, AwaitBoatPairs, SearchPairs, VisitorAtBBPairs, UnlockPairs,
       VisitorAtExitPairs DEF visitor_thread
  <2>2. UNCHANGED <<finished, done, rung>>
    BY <1>2 DEF visitor_thread, CallBoat, AwaitBoat, Search, VisitorAtBB, Unlock, VisitorAtExit
  <2>3. \A w \in Visitors : vpc'[w] = vpc[w] \/ {vpc[w], vpc'[w]} \cap {"ring", "left"} = {}
    BY <1>2 DEF visitor_thread, CallBoat, AwaitBoat, P_rider, Search, VisitorAtBB, Unlock,
       VisitorAtExit, TypeOK
  <2>4. QED
    BY <2>1, <2>2, <2>3, UncountedStep
<1>3. CASE UNCHANGED vars
  <2>1. UNCHANGED <<BA, BC, BT, bmtx, BB, exit_barriers, ready_BB, ready_exit, finished, done,
                    bpc, visitor_id, ride_time, vpc, boat_index, rung, rider_sem, boat_sem>>
    BY <1>3 DEF vars, sems, arrays, barriers, boats, visitors
  <2>2. TypeOK'
    BY <2>1 DEF TypeOK
  <2>3. PairInv'
    BY <2>1, <2>2, QuietStep DEF arrays, barriers
  <2>4. CountInv'
    BY <2>1, UncountedStep
  <2>5. QED
    BY <2>2, <2>3, <2>4
<1>4. QED
  BY <1>1, <1>2, <1>3, CountKeeps, RingKeeps DEF Next


\* The invariant holds in every reachable state.
LEMMA RideInvariant == Spec => []RideInv
BY InitRide, StepRide, PTL DEF Spec

-----------------------------------------------------------------------------
(* The safety properties.                                                  *)

\* The type invariant (boating.c l. 34-60).
THEOREM BoatingTypes == Spec => []TypeOK
<1>1. RideInv => TypeOK
  BY DEF RideInv
<1>2. QED
  BY <1>1, RideInvariant, PTL

\* The rides match in every state of the invariant.
LEMMA PairsMatch == RideInv => RidesMatch
BY DEF RideInv, TypeOK, PairInv, VisitorInv, CustomerInv, RidesMatch

\* Nobody uses a barrier that is not ready in a state of the invariant.
LEMMA PairsUseReadyBarriers == RideInv => BarriersReady
<1> SUFFICES ASSUME RideInv PROVE BarriersReady
  OBVIOUS
<1> USE DEF RideInv, TypeOK, PairInv
<1>1. ASSUME NEW v \in Visitors
      PROVE  /\ vpc[v] \in {"bb", "in_bb"} => ready_BB[boat_index[v]]
             /\ vpc[v] \in {"riding", "in_exit"} => ready_exit[boat_index[v]]
  BY DEF VisitorInv, BoatOf, FlagInv, Aboard
<1>2. ASSUME NEW i \in Boats
      PROVE  /\ bpc[i] \in {"bb", "in_bb"} => ready_BB[i]
             /\ bpc[i] \in {"riding", "in_exit"} => ready_exit[i]
             /\ i \in Offered => ready_BB[i] /\ ready_exit[i]
  BY DEF FlagInv, Offered
<1>3. ASSUME NEW i \in Boats, bpc[i] \in {"offer", "depart"} PROVE BB[i] = {}
  BY <1>3 DEF WaitInv, VisitorInv, BoatOf, Aboard
<1>4. ASSUME NEW i \in Boats, bpc[i] \in {"offer", "destroy"} PROVE exit_barriers[i] = {}
  BY <1>4 DEF WaitInv, VisitorInv, BoatOf, Aboard
<1>5. QED
  BY <1>1, <1>2, <1>3, <1>4 DEF BarriersReady


-----------------------------------------------------------------------------
(* Calls and boats: the two balances behind CallsMatch.                      *)

Callers   == {v \in Visitors : Calling(v)}
Searchers == {v \in Visitors : vpc[v] = "search"}
Answering == {i \in Boats : Called(i)}
Unmatched == {i \in Boats : Called(i) \/ bpc[i] \in {"await", "waiting"}}

\* Before the jetty closes: each caller has a boat that answered, or its call is
\* still counted in boat_sem; each boat that signalled and has no rider let one
\* rider search, or its signal is still counted in rider_sem.
BalanceInv ==
  /\ \A i \in Boats : bpc[i] = "gone" => done
  /\ ~ done =>
       /\ Cardinality(Callers) = Cardinality(Answering) + Positive(boat_sem)
       /\ Cardinality(Searchers) + Positive(rider_sem) = Cardinality(Unmatched)

IInv == RideInv /\ BalanceInv

\* One element more, one less, in a set of visitors or of boats.
LEMMA OneMore ==
  ASSUME NEW A, NEW B, NEW x, x \notin A, B = A \cup {x},
         A \in SUBSET Visitors \/ A \in SUBSET Boats
  PROVE  Cardinality(A) \in Nat /\ Cardinality(B) = Cardinality(A) + 1
BY VisitorSets, BoatSets, FS_AddElement

\* Taking one element out of a finite set.
LEMMA OneLess ==
  ASSUME NEW A, NEW B, NEW x, x \in A, B = A \ {x},
         A \in SUBSET Visitors \/ A \in SUBSET Boats
  PROVE  Cardinality(A) \in Nat /\ Cardinality(B) = Cardinality(A) - 1
BY VisitorSets, BoatSets, FS_RemoveElement

\* The four counts are natural numbers.
LEMMA CountsAreNat ==
  /\ Cardinality(Callers) \in Nat /\ Cardinality(Searchers) \in Nat
  /\ Cardinality(Answering) \in Nat /\ Cardinality(Unmatched) \in Nat
<1>1. Callers \in SUBSET Visitors /\ Searchers \in SUBSET Visitors
  BY DEF Callers, Searchers
<1>2. Answering \in SUBSET Boats /\ Unmatched \in SUBSET Boats
  BY DEF Answering, Unmatched
<1>3. QED
  BY <1>1, <1>2, VisitorSets, BoatSets

\* Steps of boats that have or had their rider, and of visitors on board or
\* after their ride.
LEMMA BalancedStep ==
  ASSUME BalanceInv, UNCHANGED <<sems, done>>,
         UNCHANGED <<Callers, Searchers, Answering, Unmatched>>,
         \A i \in Boats : bpc'[i] = "gone" => bpc[i] = "gone" \/ done
  PROVE  BalanceInv'
BY DEF BalanceInv, sems, Positive

\* The balance of calls and offers is kept when a boat posts rider.
LEMMA SignalRiderBalance ==
  ASSUME RideInv, BalanceInv, NEW i \in Boats, SignalRider(i)
  PROVE  BalanceInv'
<1> USE DEF RideInv, TypeOK, SignalRider
<1>1. Callers' = Callers
  BY DEF V_rider, Callers, Calling
<1>2. Answering' = Answering
  BY DEF Answering, Called, arrays
<1>3. Cardinality(Unmatched') = Cardinality(Unmatched) + 1
  <2>1. i \notin Unmatched /\ Unmatched' = Unmatched \cup {i}
    BY DEF Unmatched, Called, arrays
  <2>2. QED
    BY <2>1, OneMore DEF Unmatched
<1>4. Cardinality(Searchers') + Positive(rider_sem')
        = Cardinality(Searchers) + Positive(rider_sem) + 1
  <2>1. CASE rider_sem' <= 0
    <3>1. PICK v \in Visitors : vpc[v] = "waiting" /\ vpc' = [vpc EXCEPT ![v] = "search"]
      BY <2>1 DEF V_rider
    <3>2. v \notin Searchers /\ Searchers' = Searchers \cup {v}
      BY <3>1 DEF Searchers
    <3>3. Cardinality(Searchers') = Cardinality(Searchers) + 1
      BY <3>2, OneMore DEF Searchers
    <3>4. QED
      BY <2>1, <3>3, CountsAreNat DEF V_rider, Positive
  <2>2. CASE rider_sem' > 0
    <3>1. Searchers' = Searchers
      BY <2>2 DEF V_rider, Searchers
    <3>2. QED
      BY <2>2, <3>1, CountsAreNat DEF V_rider, Positive
  <2>3. QED
    BY <2>1, <2>2 DEF V_rider
<1>5. QED
  BY <1>1, <1>2, <1>3, <1>4, CountsAreNat DEF BalanceInv, Positive


\* ... when a boat waits on boat.
LEMMA AwaitVisitorBalance ==
  ASSUME RideInv, BalanceInv, NEW i \in Boats, AwaitVisitor(i)
  PROVE  BalanceInv'
<1> USE DEF RideInv, TypeOK, AwaitVisitor
<1>1. Callers' = Callers /\ Searchers' = Searchers
  BY DEF visitors, Callers, Calling, Searchers
<1>2. Unmatched' = Unmatched
  BY DEF P_boat, Unmatched, Called, arrays
<1>3. Cardinality(Answering') + Positive(boat_sem') = Cardinality(Answering) + Positive(boat_sem)
  <2>1. CASE boat_sem' < 0
    <3>1. Answering' = Answering
      BY <2>1 DEF P_boat, Answering, Called, arrays
    <3>2. QED
      BY <2>1, <3>1 DEF P_boat, Positive
  <2>2. CASE ~ (boat_sem' < 0)
    <3>1. i \notin Answering /\ Answering' = Answering \cup {i}
      BY <2>2 DEF P_boat, Answering, Called, arrays
    <3>2. Cardinality(Answering') = Cardinality(Answering) + 1
      BY <3>1, OneMore DEF Answering
    <3>3. QED
      BY <2>2, <3>2, CountsAreNat DEF P_boat, Positive
  <2>3. QED
    BY <2>1, <2>2
<1>4. \A j \in Boats : bpc'[j] = "gone" => bpc[j] = "gone"
  BY DEF P_boat
<1>5. QED
  BY <1>1, <1>2, <1>3, <1>4 DEF BalanceInv

\* ... when a visitor posts boat.
LEMMA CallBoatBalance ==
  ASSUME RideInv, BalanceInv, NEW v \in Visitors, CallBoat(v)
  PROVE  BalanceInv'
<1> USE DEF RideInv, TypeOK, CallBoat
<1>1. Searchers' = Searchers
  BY DEF Searchers
<1>2. Unmatched' = Unmatched
  BY DEF V_boat, Unmatched, Called, arrays
<1>3. Cardinality(Callers') = Cardinality(Callers) + 1
  <2>1. v \notin Callers /\ Callers' = Callers \cup {v}
    BY DEF Callers, Calling
  <2>2. QED
    BY <2>1, OneMore DEF Callers
<1>4. Cardinality(Answering') + Positive(boat_sem')
        = Cardinality(Answering) + Positive(boat_sem) + 1
  <2>1. CASE boat_sem' <= 0
    <3>1. PICK i \in Boats : bpc[i] = "waiting" /\ bpc' = [bpc EXCEPT ![i] = "check"]
      BY <2>1 DEF V_boat
    <3>2. i \notin Answering /\ Answering' = Answering \cup {i}
      BY <3>1 DEF Answering, Called, arrays
    <3>3. Cardinality(Answering') = Cardinality(Answering) + 1
      BY <3>2, OneMore DEF Answering
    <3>4. QED
      BY <2>1, <3>3, CountsAreNat DEF V_boat, Positive
  <2>2. CASE boat_sem' > 0
    <3>1. Answering' = Answering
      BY <2>2 DEF V_boat, Answering, Called, arrays
    <3>2. QED
      BY <2>2, <3>1, CountsAreNat DEF V_boat, Positive
  <2>3. QED
    BY <2>1, <2>2 DEF V_boat
<1>5. \A j \in Boats : bpc'[j] = "gone" => bpc[j] = "gone"
  BY DEF V_boat
<1>6. QED
  BY <1>1, <1>2, <1>3, <1>4, <1>5, CountsAreNat DEF BalanceInv, Positive

\* ... when a visitor waits on rider.
LEMMA AwaitBoatBalance ==
  ASSUME RideInv, BalanceInv, NEW v \in Visitors, AwaitBoat(v)
  PROVE  BalanceInv'
<1> USE DEF RideInv, TypeOK, AwaitBoat
<1>1. Callers' = Callers
  BY DEF P_rider, Callers, Calling
<1>2. Answering' = Answering /\ Unmatched' = Unmatched
  BY DEF Answering, Unmatched, Called, arrays, boats
<1>3. Cardinality(Searchers') + Positive(rider_sem')
        = Cardinality(Searchers) + Positive(rider_sem)
  <2>1. CASE rider_sem' < 0
    <3>1. Searchers' = Searchers
      BY <2>1 DEF P_rider, Searchers
    <3>2. QED
      BY <2>1, <3>1 DEF P_rider, Positive
  <2>2. CASE ~ (rider_sem' < 0)
    <3>1. v \notin Searchers /\ Searchers' = Searchers \cup {v}
      BY <2>2 DEF P_rider, Searchers
    <3>2. Cardinality(Searchers') = Cardinality(Searchers) + 1
      BY <3>1, OneMore DEF Searchers
    <3>3. QED
      BY <2>2, <3>2, CountsAreNat DEF P_rider, Positive
  <2>3. QED
    BY <2>1, <2>2
<1>4. QED
  BY <1>1, <1>2, <1>3 DEF BalanceInv, boats

\* ... when a visitor takes a boat.
LEMMA SearchBalance ==
  ASSUME RideInv, BalanceInv, NEW v \in Visitors, Search(v)
  PROVE  BalanceInv'
<1> USE DEF RideInv, TypeOK, PairInv
<1>1. PICK i \in Offered : BC' = [BC EXCEPT ![i] = v] /\ UNCHANGED BA
  BY DEF Search
<1>2. i \in Boats /\ bpc[i] \in {"bb", "in_bb"} /\ BC[i] = NONE
  BY <1>1 DEF Offered, FlagInv, CustomerInv, NONE, Visitors
<1>3. v # NONE
  BY DEF NONE, Visitors
<1>4. i \in Answering /\ Answering' = Answering \ {i}
  BY <1>1, <1>2, <1>3 DEF Search, boats, Answering, Called
<1>5. i \in Unmatched /\ Unmatched' = Unmatched \ {i}
  BY <1>1, <1>2, <1>3 DEF Search, boats, Unmatched, Called
<1>6. v \in Callers /\ Callers' = Callers \ {v}
  BY DEF Search, Callers, Calling
<1>7. v \in Searchers /\ Searchers' = Searchers \ {v}
  BY DEF Search, Searchers
<1>8. /\ Cardinality(Answering') = Cardinality(Answering) - 1
      /\ Cardinality(Unmatched') = Cardinality(Unmatched) - 1
      /\ Cardinality(Callers') = Cardinality(Callers) - 1
      /\ Cardinality(Searchers') = Cardinality(Searchers) - 1
  <2>1. Callers \in SUBSET Visitors /\ Searchers \in SUBSET Visitors
    BY DEF Callers, Searchers
  <2>2. Answering \in SUBSET Boats /\ Unmatched \in SUBSET Boats
    BY DEF Answering, Unmatched
  <2>3. QED
    BY <1>4, <1>5, <1>6, <1>7, <2>1, <2>2, OneLess
<1>9. UNCHANGED <<rider_sem, boat_sem, done, bpc>> /\ rider_sem \in Int /\ boat_sem \in Int
  BY DEF Search, boats, sems
<1> HIDE DEF RideInv, TypeOK, PairInv
<1>10. QED
  BY <1>8, <1>9, CountsAreNat DEF BalanceInv, Positive

\* The other steps of a boat: it keeps its place in the balances, or it had left
\* them when its rider came; a boat goes home only when the jetty is closed.
LEMMA BoatBalance ==
  ASSUME RideInv, BalanceInv, NEW i \in Boats,
         CheckDone(i) \/ Offer(i) \/ BoatAtBB(i) \/ Depart(i) \/ BoatAtExit(i) \/ DestroyExit(i)
  PROVE  BalanceInv'
<1> USE DEF RideInv, TypeOK, PairInv, Callers, Searchers, Answering, Unmatched, Calling, Called
<1>1. CASE CheckDone(i) /\ ~ done
  BY <1>1, BalancedStep DEF CheckDone, visitors, arrays
<1>2. CASE CheckDone(i) /\ done
  BY <1>2 DEF CheckDone, BalanceInv
<1>3. CASE Offer(i)
  BY <1>3, BalancedStep DEF Offer, visitors
<1>4. CASE BoatAtBB(i)
  <2>1. CASE UNCHANGED vpc /\ bpc' = [bpc EXCEPT ![i] = "in_bb"]
    BY <1>4, <2>1, BalancedStep DEF BoatAtBB, arrays
  <2>2. ASSUME NEW v \in BB[i], bpc' = [bpc EXCEPT ![i] = "depart"],
               vpc' = [vpc EXCEPT ![v] = "unlock"]
        PROVE  BalanceInv'
    <3>1. v \in Visitors /\ vpc[v] = "in_bb" /\ BC[i] = v
      BY <1>4, <2>2 DEF BoatAtBB, WaitInv, VisitorInv, Aboard
    <3>2. BC[i] # NONE
      BY <3>1 DEF Visitors, NONE
    <3>3. QED
      BY <1>4, <2>2, <3>1, <3>2, BalancedStep DEF BoatAtBB, arrays
  <2>3. QED
    BY <1>4, <2>1, <2>2 DEF BoatAtBB
<1>5. CASE Depart(i)
  BY <1>5, BalancedStep DEF Depart, visitors
<1>6. CASE BoatAtExit(i)
  <2>1. CASE UNCHANGED vpc /\ bpc' = [bpc EXCEPT ![i] = "in_exit"]
    BY <1>6, <2>1, BalancedStep DEF BoatAtExit, arrays
  <2>2. ASSUME NEW v \in exit_barriers[i], bpc' = [bpc EXCEPT ![i] = "destroy"],
               vpc' = [vpc EXCEPT ![v] = "count"]
        PROVE  BalanceInv'
    <3>1. v \in Visitors /\ vpc[v] = "in_exit"
      BY <1>6, <2>2 DEF BoatAtExit, WaitInv
    <3>2. QED
      BY <1>6, <2>2, <3>1, BalancedStep DEF BoatAtExit, arrays
  <2>3. QED
    BY <1>6, <2>1, <2>2 DEF BoatAtExit
<1>7. CASE DestroyExit(i)
  BY <1>7, BalancedStep DEF DestroyExit, visitors, arrays
<1>8. QED
  BY <1>1, <1>2, <1>3, <1>4, <1>5, <1>6, <1>7

\* The other steps of a visitor.
LEMMA VisitorBalance ==
  ASSUME RideInv, BalanceInv, NEW v \in Visitors,
         VisitorAtBB(v) \/ Unlock(v) \/ VisitorAtExit(v) \/ Count(v) \/ Ring(v)
  PROVE  BalanceInv'
<1> USE DEF RideInv, TypeOK, PairInv, Callers, Searchers, Answering, Unmatched, Calling, Called
<1>1. CASE VisitorAtBB(v)
  <2>1. boat_index[v] \in Boats /\ BC[boat_index[v]] = v /\ v # NONE
    BY <1>1 DEF VisitorAtBB, VisitorInv, Aboard, Visitors, NONE
  <2>2. bpc[boat_index[v]] \in {"bb", "in_bb"}
    BY <1>1 DEF VisitorAtBB, VisitorInv, BoatOf, Aboard
  <2>3. CASE UNCHANGED bpc /\ vpc' = [vpc EXCEPT ![v] = "in_bb"]
    BY <1>1, <2>3, BalancedStep DEF VisitorAtBB, arrays
  <2>4. CASE bpc' = [bpc EXCEPT ![boat_index[v]] = "depart"] /\ vpc' = [vpc EXCEPT ![v] = "unlock"]
    BY <1>1, <2>1, <2>2, <2>4, BalancedStep DEF VisitorAtBB, arrays
  <2>5. QED
    BY <1>1, <2>3, <2>4 DEF VisitorAtBB
<1>2. CASE Unlock(v)
  BY <1>2, BalancedStep DEF Unlock, boats, arrays
<1>3. CASE VisitorAtExit(v)
  <2>1. boat_index[v] \in Boats /\ bpc[boat_index[v]] \in {"depart", "riding", "in_exit"}
    BY <1>3 DEF VisitorAtExit, VisitorInv, BoatOf, Aboard
  <2>2. QED
    BY <1>3, <2>1, BalancedStep DEF VisitorAtExit, arrays
<1>4. CASE Count(v)
  BY <1>4, BalancedStep DEF Count, boats, arrays
<1>5. CASE Ring(v)
  BY <1>5 DEF Ring, V_boat, BalanceInv
<1>6. QED
  BY <1>1, <1>2, <1>3, <1>4, <1>5

\* Every step keeps the balances.
LEMMA StepBalance == RideInv /\ BalanceInv /\ [Next]_vars => BalanceInv'
<1> SUFFICES ASSUME RideInv, BalanceInv, [Next]_vars PROVE BalanceInv'
  OBVIOUS
<1>1. ASSUME NEW i \in Boats, boat_thread(i) PROVE BalanceInv'
  BY <1>1, SignalRiderBalance, AwaitVisitorBalance, BoatBalance DEF boat_thread
<1>2. ASSUME NEW v \in Visitors, visitor_thread(v) PROVE BalanceInv'
  BY <1>2, CallBoatBalance, AwaitBoatBalance, SearchBalance, VisitorBalance DEF visitor_thread
<1>3. CASE UNCHANGED vars
  <2>1. UNCHANGED <<sems, done, bpc, vpc, BC>>
    BY <1>3 DEF vars, arrays, boats, visitors
  <2>2. QED
    BY <2>1, BalancedStep DEF Callers, Searchers, Answering, Unmatched, Calling, Called
<1>4. QED
  BY <1>1, <1>2, <1>3 DEF Next

\* At the start nobody called and no boat answered.
LEMMA InitBalance == Init => BalanceInv
<1> SUFFICES ASSUME Init PROVE BalanceInv
  OBVIOUS
<1>1. Callers = {} /\ Searchers = {} /\ Answering = {} /\ Unmatched = {}
  BY DEF Init, Callers, Searchers, Answering, Unmatched, Calling, Called
<1>2. QED
  BY <1>1, FS_EmptySet DEF Init, BalanceInv, Positive

\* The whole invariant holds at the start.
LEMMA InitIInv == Init => IInv
BY InitRide, InitBalance DEF IInv

\* Every step keeps the whole invariant.
LEMMA StepIInv == IInv /\ [Next]_vars => IInv'
BY StepRide, StepBalance DEF IInv

\* The whole invariant holds in every reachable state.
LEMMA IInvariant == Spec => []IInv
BY InitIInv, StepIInv, PTL DEF Spec

\* What the balances are for: once the jetty is closed everybody has been
\* counted, and until then the calls and the boats that answered agree.
LEMMA BalancesMatch == IInv => CallsMatch
<1> SUFFICES ASSUME IInv PROVE CallsMatch
  OBVIOUS
<1>1. CASE done \/ \E i \in Boats : bpc[i] = "gone"
  <2>1. done
    BY <1>1 DEF IInv, BalanceInv
  <2>2. Counted = Visitors
    BY <2>1, AllCounted DEF IInv, RideInv, CountInv
  <2>3. QED
    BY <1>1, <2>2 DEF CallsMatch, Counted
<1>2. CASE ~ (done \/ \E i \in Boats : bpc[i] = "gone")
  <2>1. /\ Cardinality(Callers) = Cardinality(Answering) + Positive(boat_sem)
        /\ Cardinality(Searchers) + Positive(rider_sem) = Cardinality(Unmatched)
    BY <1>2 DEF IInv, BalanceInv
  <2>2. Positive(rider_sem) \in Nat
    BY DEF Positive, IInv, RideInv, TypeOK
  <2>3. Cardinality(Searchers) <= Cardinality(Unmatched)
    BY <2>1, <2>2, CountsAreNat
  <2>4. QED
    BY <1>2, <2>1, <2>3 DEF CallsMatch, Callers, Searchers, Answering, Unmatched
<1>3. QED
  BY <1>1, <1>2

\* Boat and visitor agree about their ride (boating.c l. 84-98, 127-131).
THEOREM RidesAlwaysMatch == Spec => []RidesMatch
BY PairsMatch, RideInvariant, PTL

\* Nobody reaches a barrier that is not there (boating.c l. 79-80, 89, 99-100, 131, 150).
THEOREM BarriersAlwaysReady == Spec => []BarriersReady
BY PairsUseReadyBarriers, RideInvariant, PTL

\* The calls and the boats that answered balance until all have had their ride,
\* and no boat goes home before (boating.c l. 67-83, 119-139, 152-161).
THEOREM CallsAlwaysMatch == Spec => []CallsMatch
BY BalancesMatch, IInvariant, PTL

-----------------------------------------------------------------------------
(* The program implements the jetty: its steps are the jetty's or stutter.   *)

\* The riders of the boats, as VisitorInv knows them.
RiderInv ==
  /\ \A v \in Visitors : Aboard(v) => boat_index[v] \in Boats /\ Rider(boat_index[v]) = v
  /\ \A i \in Boats : Rider(i) = NONE
       \/ (Rider(i) \in Visitors /\ Aboard(Rider(i)) /\ boat_index[Rider(i)] = i)

\* Who rides with whom can be read off the invariant.
LEMMA RidersKnown == RideInv => RiderInv
<1> SUFFICES ASSUME RideInv PROVE RiderInv
  OBVIOUS
<1> USE DEF RideInv, PairInv, VisitorInv
<1>1. \A v, w \in Visitors : Aboard(v) /\ Aboard(w) /\ boat_index[v] = boat_index[w] => v = w
  OBVIOUS
<1>2. ASSUME NEW v \in Visitors, Aboard(v) PROVE Rider(boat_index[v]) = v
  BY <1>1, <1>2 DEF Rider
<1>3. ASSUME NEW i \in Boats
      PROVE  Rider(i) = NONE
             \/ (Rider(i) \in Visitors /\ Aboard(Rider(i)) /\ boat_index[Rider(i)] = i)
  BY DEF Rider
<1>4. QED
  BY <1>2, <1>3 DEF RiderInv

\* The same after a step.
LEMMA RidersKnownNext == RideInv' => RiderInv'
BY RidersKnown, PTL

Landed == {v \in Visitors : vpc[v] \in {"count", "ring", "left"}}
Riders == [i \in Boats |-> Rider(i)]

\* The same visitors in the same boats, and the same landed: the jetty stutters.
LEMMA SameRiders ==
  ASSUME RiderInv, RiderInv', NEW i \in Boats,
         \A v \in Visitors : Aboard(v)' /\ boat_index'[v] = i <=> Aboard(v) /\ boat_index[v] = i
  PROVE  Rider(i)' = Rider(i)
BY DEF RiderInv, NONE, Visitors

\* A step that starts or ends no ride is none of the jetty's.
LEMMA JettyStutters ==
  ASSUME RideInv, RideInv',
         \A v \in Visitors :
           /\ Aboard(v)' <=> Aboard(v)
           /\ Aboard(v) => boat_index'[v] = boat_index[v]
           /\ vpc'[v] \in {"count", "ring", "left"} <=> vpc[v] \in {"count", "ring", "left"}
  PROVE  UNCHANGED Abstract!vars
<1>1. \A i \in Boats : Rider(i)' = Rider(i)
  BY RidersKnown, RidersKnownNext, SameRiders
<1>2. Landed' = Landed
  BY DEF Landed
<1>3. QED
  BY <1>1, <1>2 DEF Landed, Abstract!vars

\* The search that finds a boat: a visitor not yet on board takes a free boat.
LEMMA SearchBoards ==
  ASSUME RideInv, RideInv', NEW v \in Visitors, Search(v)
  PROVE  \E i \in Boats : Abstract!Board(v, i)
<1>a. RiderInv /\ RiderInv'
  BY RidersKnown, RidersKnownNext
<1>1. PICK i \in Offered : boat_index' = [boat_index EXCEPT ![v] = i] /\ BC[i] = NONE
  BY DEF Search, Offered
<1>2. i \in Boats /\ ~ Aboard(v) /\ Aboard(v)' /\ boat_index'[v] = i /\ vpc[v] = "search"
  BY <1>1 DEF Search, Offered, Aboard, RideInv, TypeOK
<1>3. \A w \in Visitors \ {v} : vpc'[w] = vpc[w] /\ boat_index'[w] = boat_index[w]
  BY <1>1 DEF Search, RideInv, TypeOK
<1>4. \A w \in Visitors : Aboard(w) => boat_index[w] # i
  BY <1>1 DEF RideInv, PairInv, VisitorInv, NONE, Visitors
<1>5. Rider(i) = NONE
  BY <1>a, <1>2, <1>4 DEF RiderInv
<1>6. Rider(i)' = v
  BY <1>a, <1>2 DEF RiderInv
<1>7. \A j \in Boats \ {i} : Rider(j)' = Rider(j)
  BY <1>a, <1>2, <1>3, SameRiders DEF Aboard
<1>8. Landed' = Landed
  BY <1>2, <1>3 DEF Landed, Aboard
<1>9. \A j \in Boats : Rider(j) # v
  BY <1>a, <1>2 DEF RiderInv, NONE, Visitors
<1>10. v \notin Landed
  BY <1>2 DEF Landed
<1>11. v \in Abstract!Waiting
  BY <1>9, <1>10 DEF Abstract!Waiting, Landed
<1>12. QED
  BY <1>2, <1>5, <1>6, <1>7, <1>8, <1>11 DEF Abstract!Board, Landed

\* A visitor gets off its boat.
LEMMA ExitLands ==
  ASSUME RideInv, RideInv', NEW v \in Visitors, Aboard(v),
         vpc' = [vpc EXCEPT ![v] = "count"], UNCHANGED boat_index
  PROVE  \E i \in Boats : Abstract!Land(i)
<1>a. RiderInv /\ RiderInv'
  BY RidersKnown, RidersKnownNext
<1>b. PICK i \in Boats : i = boat_index[v]
  BY <1>a DEF RiderInv
<1>1. i \in Boats /\ Rider(i) = v /\ v # NONE
  BY <1>a, <1>b DEF RiderInv, NONE, Visitors
<1>2. /\ vpc'[v] = "count"
      /\ \A w \in Visitors \ {v} : vpc'[w] = vpc[w] /\ boat_index'[w] = boat_index[w]
  BY DEF RideInv, TypeOK
<1>3. \A w \in Visitors : Aboard(w)' => boat_index'[w] # i
  BY <1>2, <1>b DEF RideInv, PairInv, VisitorInv, Aboard
<1>4. Rider(i)' = NONE
  BY <1>a, <1>1, <1>3 DEF RiderInv
<1>5. \A j \in Boats \ {i} : Rider(j)' = Rider(j)
  BY <1>a, <1>2, <1>b, SameRiders DEF Aboard
<1>6. Landed' = Landed \cup {v}
  BY <1>2 DEF Landed
<1>7. Riders' = [Riders EXCEPT ![i] = NONE] /\ Riders[i] = v
  <2>1. \A j \in Boats : Rider(j)' = IF j = i THEN NONE ELSE Rider(j)
    BY <1>4, <1>5
  <2>2. QED
    BY <1>1, <2>1 DEF Riders
<1>8. Abstract!Land(i)
  BY <1>1, <1>6, <1>7 DEF Abstract!Land, Landed, Riders
<1>9. QED
  BY <1>1, <1>8

\* The jetty starts where the boating does.
LEMMA JettyInit == Init => Abstract!Init
<1> SUFFICES ASSUME Init PROVE Abstract!Init
  OBVIOUS
<1>1. \A v \in Visitors : vpc[v] = "sights"
  BY DEF Init
<1>2. \A i \in Boats : Rider(i) = NONE
  BY <1>1 DEF Rider, Aboard
<1>3. QED
  BY <1>1, <1>2 DEF Abstract!Init

\* Every step of the boating is one of the jetty's or none of its.
LEMMA JettyStep == RideInv /\ RideInv' /\ [Next]_vars => [Abstract!Next]_(Abstract!vars)
<1> SUFFICES ASSUME RideInv, RideInv', [Next]_vars
             PROVE  Abstract!Next \/ UNCHANGED Abstract!vars
  OBVIOUS
<1> USE DEF RideInv, TypeOK
<1>1. ASSUME NEW i \in Boats,
             AwaitVisitor(i) \/ CheckDone(i) \/ Offer(i) \/ Depart(i) \/ DestroyExit(i)
      PROVE  UNCHANGED Abstract!vars
  BY <1>1, JettyStutters
     DEF AwaitVisitor, CheckDone, Offer, Depart, DestroyExit, visitors, Aboard
<1>2. ASSUME NEW i \in Boats, SignalRider(i) PROVE UNCHANGED Abstract!vars
  <2>1. \A w \in Visitors : vpc'[w] = vpc[w] \/ (vpc[w] = "waiting" /\ vpc'[w] = "search")
    BY <1>2 DEF SignalRider, V_rider
  <2>2. QED
    BY <1>2, <2>1, JettyStutters DEF SignalRider, Aboard
<1>3. ASSUME NEW i \in Boats, BoatAtBB(i) PROVE UNCHANGED Abstract!vars
  <2>1. \A w \in Visitors : vpc'[w] = vpc[w] \/ (vpc[w] = "in_bb" /\ vpc'[w] = "unlock")
    BY <1>3 DEF BoatAtBB, PairInv, WaitInv
  <2>2. QED
    BY <1>3, <2>1, JettyStutters DEF BoatAtBB, Aboard
<1>4. ASSUME NEW i \in Boats, BoatAtExit(i) PROVE Abstract!Next \/ UNCHANGED Abstract!vars
  <2>1. CASE UNCHANGED vpc
    BY <1>4, <2>1, JettyStutters DEF BoatAtExit, Aboard
  <2>2. ASSUME NEW v \in exit_barriers[i], vpc' = [vpc EXCEPT ![v] = "count"]
        PROVE  Abstract!Next
    <3>1. v \in Visitors /\ Aboard(v)
      BY <1>4, <2>2 DEF BoatAtExit, PairInv, WaitInv, Aboard
    <3>2. QED
      BY <1>4, <2>2, <3>1, ExitLands DEF BoatAtExit, Abstract!Next
  <2>3. QED
    BY <1>4, <2>1, <2>2 DEF BoatAtExit
<1>5. ASSUME NEW v \in Visitors,
             CallBoat(v) \/ AwaitBoat(v) \/ VisitorAtBB(v) \/ Unlock(v) \/ Count(v) \/ Ring(v)
      PROVE  UNCHANGED Abstract!vars
  BY <1>5, JettyStutters
     DEF CallBoat, AwaitBoat, P_rider, VisitorAtBB, Unlock, Count, Ring, boats, Aboard
<1>6. ASSUME NEW v \in Visitors, Search(v) PROVE Abstract!Next
  BY <1>6, SearchBoards DEF Abstract!Next
<1>7. ASSUME NEW v \in Visitors, VisitorAtExit(v) PROVE Abstract!Next \/ UNCHANGED Abstract!vars
  <2>1. CASE vpc' = [vpc EXCEPT ![v] = "in_exit"]
    BY <1>7, <2>1, JettyStutters DEF VisitorAtExit, Aboard
  <2>2. CASE vpc' = [vpc EXCEPT ![v] = "count"]
    BY <1>7, <2>2, ExitLands DEF VisitorAtExit, Aboard, Abstract!Next
  <2>3. QED
    BY <1>7, <2>1, <2>2 DEF VisitorAtExit
<1>8. CASE UNCHANGED vars
  BY <1>8, JettyStutters DEF vars, visitors, Aboard
<1>9. QED
  BY <1>1, <1>2, <1>3, <1>4, <1>5, <1>6, <1>7, <1>8 DEF Next, boat_thread, visitor_thread

\* boating.c implements the jetty, fairness apart: a visitor boards a free boat
\* once, when its search finds it, and leaves it when it meets it at the exit
\* (LA7.pdf p. 1).
THEOREM BoatingIsAJetty == Spec => Abstract!Init /\ [][Abstract!Next]_(Abstract!vars)
<1>1. RideInv /\ RideInv' /\ [Next]_vars => [Abstract!Next]_(Abstract!vars)
  BY JettyStep
<1>2. QED
  BY <1>1, JettyInit, RideInvariant, PTL DEF Spec

-----------------------------------------------------------------------------
(* The solution's invariant.                                               *)

SolTypes ==
  /\ rides \in Int /\ rider_sem \in Int /\ boat_sem \in Int
  /\ BA \in [Boats -> {0, 1}] /\ BC \in [Boats -> Visitors \cup {0, NONE}]
  /\ BT \in [Boats -> RideTimes \cup {0}]
  /\ BB \in [Boats -> SUBSET (Visitors \cup {BOAT})] /\ ready_BB \in [Boats -> BOOLEAN]
  /\ bpc \in [Boats -> {"start", "init", "signal", "await", "waiting", "bb", "in_bb",
                        "depart", "time", "riding", "EOS"}]
  /\ visitor_id \in [Boats -> Visitors \cup {NONE}]
  /\ ride_time \in [Boats -> RideTimes \cup {0}]
  /\ vpc \in [Visitors -> {"sights", "called", "waiting", "search", "bb", "in_bb",
                           "riding", "left", "lost"}]
  /\ boat_index \in [Visitors -> Boats \cup {NONE}]

\* The boat met its rider and has not landed yet.
Met(i) == bpc[i] \in {"depart", "time", "riding"}

\* When a boat is available, and who waits at its barrier.
SolBoatInv ==
  \A i \in Boats :
    /\ BA[i] = 1 <=> bpc[i] \notin {"start", "time", "riding"}
    /\ bpc[i] = "start" => BC[i] = 0
    /\ bpc[i] # "start" => BC[i] \in Visitors \cup {NONE}
    /\ BOAT \in BB[i] <=> bpc[i] = "in_bb"
    /\ \A v \in Visitors : v \in BB[i] <=> vpc[v] = "in_bb" /\ boat_index[v] = i

\* A rider that boards and its boat know each other, and have not met.
BoardingInv ==
  \A v \in Visitors : Sol!Boarding(v) =>
    /\ boat_index[v] \in Boats
    /\ BC[boat_index[v]] = v /\ BT[boat_index[v]] = rtime[v]
    /\ bpc[boat_index[v]] # "start" /\ ~ Met(boat_index[v])

\* A boat under way carries the rider it believes to carry.
MetInv ==
  \A i \in Boats : Met(i) =>
    /\ BC[i] \in Visitors /\ boat_index[BC[i]] = i /\ vpc[BC[i]] \in {"riding", "left"}
    /\ BT[i] = rtime[BC[i]]
    /\ bpc[i] # "depart" => visitor_id[i] = BC[i]
    /\ bpc[i] = "riding" => ride_time[i] = BT[i]

SolPairInv == SolBoatInv /\ BoardingInv /\ MetInv

\* The boats that signalled since their last ride, and those that a rider took:
\* whoever may search, or will without waiting, has a boat left over for it.
Signalled == {i \in Boats : bpc[i] \notin {"start", "init", "signal", "EOS"}}
Launched  == {i \in Boats : bpc[i] # "start"}
Taken     == {i \in Launched : BC[i] # NONE}
SearchBalanced ==
  Cardinality(Searchers) + Positive(rider_sem) + Cardinality(Taken) = Cardinality(Signalled)

SolInv == SolTypes /\ SolPairInv /\ SearchBalanced

-----------------------------------------------------------------------------
(* Its steps keep types and pairs.                                         *)

\* The solution numbers and names the same things as boating.c.
LEMMA SameNames ==
  Sol!Boats = Boats /\ Sol!Riders = Visitors /\ Sol!NONE = NONE /\ Sol!BOAT = BOAT
BY DEF Sol!Boats, Sol!Riders, Sol!NONE, Sol!BOAT, Boats, Visitors, NONE, BOAT

SolKeeps == SolTypes' /\ SolPairInv'

\* A step of the semaphores: boats and riders that have not met move on.
LEMMA SolQuietStep ==
  ASSUME SolTypes, SolTypes', SolPairInv,
         UNCHANGED <<BA, BC, BT, BB, visitor_id, ride_time, boat_index>>,
         \A i \in Boats : bpc'[i] = bpc[i]
           \/ {bpc[i], bpc'[i]} \cap {"start", "in_bb", "depart", "time", "riding"} = {},
         \A v \in Visitors : vpc'[v] = vpc[v]
           \/ {vpc[v], vpc'[v]} \cap {"bb", "in_bb", "lost", "riding", "left"} = {}
  PROVE  SolPairInv'
<1>1. \A i \in Boats : bpc'[i] = bpc[i]
        \/ (bpc[i] \notin {"start", "in_bb", "depart", "time", "riding"}
            /\ bpc'[i] \notin {"start", "in_bb", "depart", "time", "riding"})
  OBVIOUS
<1>2. \A v \in Visitors : vpc'[v] = vpc[v]
        \/ (vpc[v] \notin {"bb", "in_bb", "lost", "riding", "left"}
            /\ vpc'[v] \notin {"bb", "in_bb", "lost", "riding", "left"})
  OBVIOUS
<1>3. SolBoatInv'
  BY <1>1, <1>2 DEF SolPairInv, SolBoatInv
<1>4. BoardingInv'
  BY <1>1, <1>2 DEF SolPairInv, BoardingInv, Sol!Boarding, Met
<1>5. MetInv'
  BY <1>1, <1>2 DEF SolPairInv, MetInv, Met
<1>6. QED
  BY <1>3, <1>4, <1>5 DEF SolPairInv

\* The invariant of the instructor's boating is kept when a boat is launched.
LEMMA SolLaunch ==
  ASSUME SolTypes, SolPairInv, NEW i \in Boats, Sol!Launch(i)
  PROVE  SolKeeps
<1> USE SameNames DEF SolTypes, SolPairInv, Sol!Launch, Sol!sems, Sol!barriers, Sol!rmains
<1>1. SolTypes'
  OBVIOUS
<1>2. SolBoatInv'
  BY DEF SolBoatInv
<1>3. BoardingInv'
  BY DEF BoardingInv, Sol!Boarding, Met
<1>4. MetInv'
  BY DEF MetInv, Met
<1>5. QED
  BY <1>1, <1>2, <1>3, <1>4 DEF SolKeeps

\* InitBB, the semaphores, EOS, and a rider that leaves.
LEMMA SolBoatMoves ==
  ASSUME SolTypes, SolPairInv, NEW i \in Boats,
         Sol!InitBB(i) \/ Sol!SignalRider(i) \/ Sol!AwaitCall(i) \/ Sol!BoatAtEOS(i)
  PROVE  SolKeeps
<1> USE SameNames DEF SolTypes, Sol!sems, Sol!arrays, Sol!barriers, Sol!rmains
<1>1. CASE Sol!InitBB(i)
  <2>1. SolTypes'
    BY <1>1 DEF Sol!InitBB
  <2>2. QED
    BY <1>1, <2>1, SolQuietStep DEF Sol!InitBB, SolKeeps
<1>2. CASE Sol!SignalRider(i)
  <2>1. SolTypes'
    BY <1>2 DEF Sol!SignalRider, Sol!V_rider
  <2>2. \A v \in Visitors : vpc'[v] = vpc[v] \/ (vpc[v] = "waiting" /\ vpc'[v] = "search")
    BY <1>2 DEF Sol!SignalRider, Sol!V_rider
  <2>3. QED
    BY <1>2, <2>1, <2>2, SolQuietStep DEF Sol!SignalRider, SolKeeps
<1>3. CASE Sol!AwaitCall(i)
  <2>1. SolTypes'
    BY <1>3 DEF Sol!AwaitCall, Sol!P_boat
  <2>2. QED
    BY <1>3, <2>1, SolQuietStep DEF Sol!AwaitCall, Sol!P_boat, SolKeeps
<1>4. CASE Sol!BoatAtEOS(i)
  <2>1. SolTypes'
    BY <1>4 DEF Sol!BoatAtEOS
  <2>2. QED
    BY <1>4, <2>1, SolQuietStep DEF Sol!BoatAtEOS, SolKeeps
<1>5. QED
  BY <1>1, <1>2, <1>3, <1>4

\* ... when a rider calls for a boat or waits for one.
LEMMA SolRiderMoves ==
  ASSUME SolTypes, SolPairInv, NEW v \in Visitors, Sol!CallBoat(v) \/ Sol!AwaitBoat(v)
  PROVE  SolKeeps
<1> USE SameNames DEF SolTypes, Sol!sems, Sol!arrays, Sol!barriers, Sol!bmains
<1>1. CASE Sol!CallBoat(v)
  <2>1. SolTypes'
    BY <1>1 DEF Sol!CallBoat, Sol!V_boat
  <2>2. \A i \in Boats : bpc'[i] = bpc[i] \/ (bpc[i] = "waiting" /\ bpc'[i] = "bb")
    BY <1>1 DEF Sol!CallBoat, Sol!V_boat
  <2>3. QED
    BY <1>1, <2>1, <2>2, SolQuietStep DEF Sol!CallBoat, SolKeeps
<1>2. CASE Sol!AwaitBoat(v)
  <2>1. SolTypes'
    BY <1>2 DEF Sol!AwaitBoat, Sol!P_rider
  <2>2. QED
    BY <1>2, <2>1, SolQuietStep DEF Sol!AwaitBoat, Sol!P_rider, SolKeeps
<1>3. QED
  BY <1>1, <1>2

\* ... when a rider leaves.
LEMMA SolLeave ==
  ASSUME SolTypes, SolPairInv, NEW v \in Visitors, Sol!Leave(v)
  PROVE  SolKeeps
<1> USE DEF SolTypes, SolPairInv, Sol!Leave, Sol!sems, Sol!arrays, Sol!barriers, Sol!bmains
<1>1. SolTypes'
  OBVIOUS
<1>2. SolBoatInv' /\ BoardingInv' /\ MetInv'
  BY DEF SolBoatInv, BoardingInv, Sol!Boarding, MetInv, Met
<1>3. QED
  BY <1>1, <1>2 DEF SolKeeps

\* ... when a boat reads its time or sets out.
LEMMA SolDepart ==
  ASSUME SolTypes, SolPairInv, NEW i \in Boats, Sol!Depart(i) \/ Sol!ReadTime(i)
  PROVE  SolKeeps
<1> USE DEF SolTypes, SolPairInv, Sol!sems, Sol!arrays, Sol!barriers, Sol!rmains
<1>1. Met(i) /\ Met(i)' /\ bpc' = [bpc EXCEPT ![i] = bpc'[i]] /\ UNCHANGED <<BC, BT, BB, vpc, boat_index>>
  BY DEF Sol!Depart, Sol!ReadTime, Met
<1>2. SolTypes'
  BY <1>1 DEF Sol!Depart, Sol!ReadTime, MetInv
<1>3. SolBoatInv'
  BY DEF Sol!Depart, Sol!ReadTime, SolBoatInv
<1>4. BoardingInv'
  BY <1>1 DEF BoardingInv, Sol!Boarding, Met
<1>5. MetInv'
  BY DEF Sol!Depart, Sol!ReadTime, MetInv, Met
<1>6. QED
  BY <1>2, <1>3, <1>4, <1>5 DEF SolKeeps

\* ... when a boat comes back.
LEMMA SolLand ==
  ASSUME SolTypes, SolPairInv, NEW i \in Boats, Sol!Land(i)
  PROVE  SolKeeps
<1> USE SameNames DEF SolTypes, SolPairInv, Sol!sems, Sol!rmains
<1>1. /\ Met(i) /\ BA' = [BA EXCEPT ![i] = 1] /\ BC' = [BC EXCEPT ![i] = NONE]
      /\ UNCHANGED <<BT, vpc, boat_index, visitor_id, ride_time>>
      /\ BB' = BB \/ BB' = [BB EXCEPT ![i] = {}]
      /\ bpc' = [bpc EXCEPT ![i] = "EOS"] \/ bpc' = [bpc EXCEPT ![i] = "signal"]
      /\ rides' = rides - 1
  BY DEF Sol!Land, Met
<1>2. \A v \in Visitors : Sol!Boarding(v) => boat_index[v] # i
  BY <1>1 DEF BoardingInv
<1>3. SolTypes'
  BY <1>1 DEF Sol!Land
<1>4. SolBoatInv'
  BY <1>1, <1>2 DEF SolBoatInv, Sol!Boarding, Met
<1>5. BoardingInv'
  BY <1>1, <1>2 DEF BoardingInv, Sol!Boarding, Met
<1>6. MetInv'
  BY <1>1 DEF MetInv, Met
<1>7. QED
  BY <1>3, <1>4, <1>5, <1>6 DEF SolKeeps

\* ... when a rider takes a boat.
LEMMA SolSearch ==
  ASSUME SolTypes, SolPairInv, NEW v \in Visitors, Sol!Search(v)
  PROVE  SolKeeps
<1> USE SameNames DEF SolTypes, SolPairInv, Sol!sems, Sol!barriers, Sol!bmains
<1>1. PICK i \in Sol!Offered :
        /\ boat_index' = [boat_index EXCEPT ![v] = i]
        /\ BC' = [BC EXCEPT ![i] = v] /\ BT' = [BT EXCEPT ![i] = rtime[v]]
  BY DEF Sol!Search
<1>2. i \in Boats /\ BC[i] = NONE /\ BA[i] = 1
  BY DEF Sol!Offered
<1>3. bpc[i] # "start" /\ ~ Met(i)
  BY <1>2 DEF SolBoatInv, MetInv, NONE, Visitors, Met
<1>4. \A w \in Visitors : Sol!Boarding(w) => boat_index[w] # i
  BY <1>2 DEF BoardingInv, NONE, Visitors
<1>5. vpc[v] = "search" /\ vpc' = [vpc EXCEPT ![v] = "bb"] /\ UNCHANGED <<bpc, BA, BB>>
  BY DEF Sol!Search
<1>6. \A j \in Boats : Met(j) => BC[j] # v
  BY <1>5 DEF MetInv
<1>7. SolTypes'
  <2>1. rtime[v] \in RideTimes
    BY TimeAssumption
  <2>2. BT' \in [Boats -> RideTimes \cup {0}] /\ BC' \in [Boats -> Visitors \cup {0, NONE}]
    BY <1>1, <1>2, <2>1
  <2>3. QED
    BY <1>1, <1>2, <1>5, <2>2 DEF Sol!Search
<1>8. SolBoatInv'
  BY <1>1, <1>2, <1>3, <1>4, <1>5 DEF SolBoatInv, Sol!Boarding
<1>9. BoardingInv'
  BY <1>1, <1>2, <1>3, <1>4, <1>5 DEF BoardingInv, Sol!Boarding, Met
<1>10. MetInv'
  BY <1>1, <1>2, <1>3, <1>5, <1>6 DEF MetInv, Met, Sol!Search
<1>11. QED
  BY <1>7, <1>8, <1>9, <1>10 DEF SolKeeps

\* ... when the boat comes to its barrier.
LEMMA SolBoatAtBB ==
  ASSUME SolTypes, SolPairInv, NEW i \in Boats, Sol!BoatAtBB(i)
  PROVE  SolKeeps
<1> USE SameNames DEF SolTypes, SolPairInv, Sol!sems, Sol!arrays
<1>0. bpc[i] = "bb" /\ UNCHANGED <<BA, BC, BT, boat_index, visitor_id, ride_time>>
  BY DEF Sol!BoatAtBB
<1>1. CASE BB[i] = {} /\ BB' = [BB EXCEPT ![i] = {BOAT}]
           /\ bpc' = [bpc EXCEPT ![i] = "in_bb"] /\ UNCHANGED vpc
  <2>1. SolTypes'
    BY <1>1 DEF Sol!BoatAtBB
  <2>2. SolBoatInv'
    BY <1>0, <1>1 DEF SolBoatInv, BOAT, Visitors
  <2>3. BoardingInv' /\ MetInv'
    BY <1>0, <1>1 DEF BoardingInv, MetInv, Sol!Boarding, Met
  <2>4. QED
    BY <2>1, <2>2, <2>3 DEF SolKeeps
<1>2. ASSUME NEW v \in BB[i], BB' = [BB EXCEPT ![i] = {}],
             bpc' = [bpc EXCEPT ![i] = "depart"], vpc' = [vpc EXCEPT ![v] = "riding"]
      PROVE  SolKeeps
  <2>1. v \in Visitors
    BY <1>0, <1>2 DEF SolBoatInv
  <2>2. vpc[v] = "in_bb" /\ boat_index[v] = i
    BY <2>1, <1>2 DEF SolBoatInv
  <2>3. BC[i] = v /\ BT[i] = rtime[v]
    BY <2>1, <2>2 DEF BoardingInv, Sol!Boarding
  <2>4. \A w \in Visitors : Sol!Boarding(w) /\ boat_index[w] = i => w = v
    BY <2>3 DEF BoardingInv
  <2>5. SolTypes'
    BY <1>2, <2>1 DEF Sol!BoatAtBB
  <2>6. SolBoatInv'
    BY <1>0, <1>2, <2>1, <2>2, <2>4 DEF SolBoatInv, Sol!Boarding
  <2>7. BoardingInv'
    BY <1>0, <1>2, <2>1, <2>4 DEF BoardingInv, Sol!Boarding, Met
  <2>8. MetInv'
    BY <1>0, <1>2, <2>1, <2>2, <2>3 DEF MetInv, Met
  <2>9. QED
    BY <2>5, <2>6, <2>7, <2>8 DEF SolKeeps
<1>3. QED
  BY <1>1, <1>2 DEF Sol!BoatAtBB

\* ... when the rider comes to it.
LEMMA SolRiderAtBB ==
  ASSUME SolTypes, SolPairInv, NEW v \in Visitors, Sol!RiderAtBB(v)
  PROVE  SolKeeps
<1> USE SameNames DEF SolTypes, SolPairInv, Sol!sems, Sol!arrays
<1>0. vpc[v] = "bb" /\ UNCHANGED <<BA, BC, BT, boat_index, visitor_id, ride_time>>
  BY DEF Sol!RiderAtBB
<1>a. PICK i \in Boats : i = boat_index[v]
  BY <1>0 DEF BoardingInv, Sol!Boarding
<1>b. BC[i] = v /\ BT[i] = rtime[v] /\ bpc[i] # "start" /\ ~ Met(i)
  BY <1>0, <1>a DEF BoardingInv, Sol!Boarding
<1>c. \A w \in Visitors : Sol!Boarding(w) /\ boat_index[w] = i => w = v
  BY <1>b DEF BoardingInv
<1>1. CASE BB[i] = {} /\ BB' = [BB EXCEPT ![i] = {v}]
           /\ vpc' = [vpc EXCEPT ![v] = "in_bb"] /\ UNCHANGED bpc
  <2>1. SolTypes'
    BY <1>1 DEF Sol!RiderAtBB
  <2>2. SolBoatInv'
    BY <1>0, <1>1, <1>a, <1>c DEF SolBoatInv, BOAT, Visitors, Sol!Boarding
  <2>3. BoardingInv' /\ MetInv'
    BY <1>0, <1>1 DEF BoardingInv, MetInv, Sol!Boarding, Met
  <2>4. QED
    BY <2>1, <2>2, <2>3 DEF SolKeeps
<1>2. CASE BB[i] = {BOAT} /\ BB' = [BB EXCEPT ![i] = {}]
           /\ vpc' = [vpc EXCEPT ![v] = "riding"] /\ bpc' = [bpc EXCEPT ![i] = "depart"]
  <2>0. bpc[i] = "in_bb"
    BY <1>2 DEF SolBoatInv
  <2>1. SolTypes'
    BY <1>2 DEF Sol!RiderAtBB
  <2>2. SolBoatInv'
    BY <1>0, <1>2, <1>a, <1>c, <2>0 DEF SolBoatInv, BOAT, Visitors, Sol!Boarding
  <2>3. BoardingInv'
    BY <1>0, <1>2, <1>a, <1>c, <2>0 DEF BoardingInv, Sol!Boarding, Met
  <2>4. MetInv'
    BY <1>0, <1>2, <1>a, <1>b DEF MetInv, Met
  <2>5. QED
    BY <2>1, <2>2, <2>3, <2>4 DEF SolKeeps
<1>3. CASE vpc' = [vpc EXCEPT ![v] = "lost"] /\ UNCHANGED <<BB, bpc>>
  <2>1. SolTypes'
    BY <1>3 DEF Sol!RiderAtBB
  <2>2. SolBoatInv' /\ BoardingInv' /\ MetInv'
    BY <1>0, <1>3 DEF SolBoatInv, BoardingInv, MetInv, Sol!Boarding, Met
  <2>3. QED
    BY <2>1, <2>2 DEF SolKeeps
<1>4. QED
  BY <1>1, <1>2, <1>3, <1>a DEF Sol!RiderAtBB

\* A step of the solution keeps types and pairs.
LEMMA SolPairsStep == SolTypes /\ SolPairInv /\ Sol!Next => SolKeeps
<1> SUFFICES ASSUME SolTypes, SolPairInv, Sol!Next PROVE SolKeeps
  OBVIOUS
<1>1. ASSUME NEW i \in Boats, Sol!bmain(i) PROVE SolKeeps
  BY <1>1, SolLaunch, SolBoatMoves, SolBoatAtBB, SolDepart, SolLand DEF Sol!bmain
<1>2. ASSUME NEW v \in Visitors, Sol!rmain(v) PROVE SolKeeps
  BY <1>2, SolRiderMoves, SolSearch, SolRiderAtBB, SolLeave DEF Sol!rmain
<1>3. CASE Sol!EndSession \/ UNCHANGED Sol!vars
  <2>1. UNCHANGED <<rides, rider_sem, boat_sem, BA, BC, BT, BB, ready_BB, bpc, visitor_id,
                    ride_time, vpc, boat_index>>
    BY <1>3 DEF Sol!EndSession, Sol!vars, Sol!sems, Sol!arrays, Sol!barriers, Sol!bmains,
       Sol!rmains
  <2>2. SolTypes'
    BY <2>1 DEF SolTypes
  <2>3. QED
    BY <2>1, <2>2, SolQuietStep DEF SolKeeps
<1>4. QED
  BY <1>1, <1>2, <1>3, SameNames DEF Sol!Next

\* A rider that finds no boat is not let through: what the balance is for.
\* The instance brings its own copy of FiniteSets.
LEMMA SameCardinality == \A S : Sol!Cardinality(S) = Cardinality(S)
BY Zenon DEF Sol!Cardinality, Cardinality

\* Where there are no more riders inside than boats offered, a boat is found.
LEMMA EnoughBoats ==
  ASSUME SolTypes, SolPairInv, SearchBalanced
  PROVE  Sol!SearchNeverSpins
<1>1. Sol!Offered = Launched \ Taken
  <2>1. ASSUME NEW i \in Boats
        PROVE  i \in Sol!Offered <=> i \in Launched \ Taken
    BY SameNames DEF SolTypes, SolPairInv, SolBoatInv, MetInv, Met, Sol!Offered, Launched, Taken, NONE, Visitors
  <2>2. QED
    BY <2>1, SameNames DEF Sol!Offered, Launched, Taken
<1>2. /\ Launched \in SUBSET Boats /\ Taken \in SUBSET Launched
      /\ Signalled \in SUBSET Launched /\ Searchers \in SUBSET Visitors
  BY DEF Launched, Taken, Signalled, Searchers
<1>3. /\ Cardinality(Sol!Offered) = Cardinality(Launched) - Cardinality(Taken)
      /\ Cardinality(Signalled) <= Cardinality(Launched)
  <2>1. Launched \cap Taken = Taken
    BY <1>2
  <2>2. IsFiniteSet(Launched)
    BY <1>2, BoatSets
  <2>3. Cardinality(Launched \ Taken) = Cardinality(Launched) - Cardinality(Launched \cap Taken)
    BY <2>2, FS_Difference
  <2>4. Cardinality(Signalled) <= Cardinality(Launched)
    BY <1>2, <2>2, FS_Subset
  <2>5. QED
    BY <1>1, <2>1, <2>3, <2>4
<1>4. Positive(rider_sem) \in Nat
  BY DEF Positive, SolTypes
<1>5. /\ Cardinality(Launched) \in Nat /\ Cardinality(Taken) \in Nat
      /\ Cardinality(Signalled) \in Nat /\ Cardinality(Searchers) \in Nat
  BY <1>2, BoatSets, VisitorSets
<1>6. Cardinality(Searchers) <= Cardinality(Sol!Offered)
  BY <1>3, <1>4, <1>5 DEF SearchBalanced
<1>7. {v \in Sol!Riders : vpc[v] = "search"} = Searchers
  BY SameNames DEF Searchers
<1>8. QED
  BY <1>6, <1>7, SameCardinality DEF Sol!SearchNeverSpins

-----------------------------------------------------------------------------
(* Its steps keep the balance.                                             *)

\* The counts are numbers.
LEMMA SolCountsAreNat ==
  /\ Cardinality(Searchers) \in Nat /\ Cardinality(Taken) \in Nat
  /\ Cardinality(Signalled) \in Nat
<1>1. Searchers \in SUBSET Visitors /\ Taken \in SUBSET Boats /\ Signalled \in SUBSET Boats
  BY DEF Searchers, Taken, Launched, Signalled
<1>2. QED
  BY <1>1, VisitorSets, BoatSets

\* A step that touches neither the semaphore nor the three sets keeps the balance.
LEMMA SolBalancedStep ==
  ASSUME SearchBalanced, UNCHANGED <<rider_sem, Searchers, Taken, Signalled>>
  PROVE  SearchBalanced'
BY DEF SearchBalanced, Positive

\* A signal: one boat more that signalled, one rider more that may search.
LEMMA SolSignalBalance ==
  ASSUME SolTypes, SearchBalanced, NEW i \in Boats, Sol!SignalRider(i)
  PROVE  SearchBalanced'
<1> USE SameNames DEF SolTypes, Sol!SignalRider, Sol!arrays
<1>1. Cardinality(Signalled') = Cardinality(Signalled) + 1
  <2>1. i \notin Signalled /\ Signalled' = Signalled \cup {i}
    BY DEF Signalled
  <2>2. QED
    BY <2>1, OneMore DEF Signalled
<1>2. Taken' = Taken
  BY DEF Taken, Launched
<1>3. Cardinality(Searchers') + Positive(rider_sem')
        = Cardinality(Searchers) + Positive(rider_sem) + 1
  <2>1. CASE rider_sem' <= 0
    <3>1. PICK v \in Visitors : vpc[v] = "waiting" /\ vpc' = [vpc EXCEPT ![v] = "search"]
      BY <2>1 DEF Sol!V_rider
    <3>2. v \notin Searchers /\ Searchers' = Searchers \cup {v}
      BY <3>1 DEF Searchers
    <3>3. Cardinality(Searchers') = Cardinality(Searchers) + 1
      BY <3>2, OneMore DEF Searchers
    <3>4. QED
      BY <2>1, <3>3, SolCountsAreNat DEF Sol!V_rider, Positive
  <2>2. CASE rider_sem' > 0
    <3>1. Searchers' = Searchers
      BY <2>2 DEF Sol!V_rider, Searchers
    <3>2. QED
      BY <2>2, <3>1, SolCountsAreNat DEF Sol!V_rider, Positive
  <2>3. QED
    BY <2>1, <2>2 DEF Sol!V_rider
<1>4. Positive(rider_sem) \in Nat /\ Positive(rider_sem') \in Nat
  BY DEF Sol!V_rider, Positive
<1>5. QED
  BY <1>1, <1>2, <1>3, <1>4, SolCountsAreNat DEF SearchBalanced

\* The balance when a rider waits on boat.
LEMMA SolAwaitBoatBalance ==
  ASSUME SolTypes, SearchBalanced, NEW v \in Visitors, Sol!AwaitBoat(v)
  PROVE  SearchBalanced'
<1> USE DEF SolTypes, Sol!AwaitBoat, Sol!arrays, Sol!bmains
<1>1. Signalled' = Signalled /\ Taken' = Taken
  BY DEF Signalled, Taken, Launched
<1>2. Cardinality(Searchers') + Positive(rider_sem')
        = Cardinality(Searchers) + Positive(rider_sem)
  <2>1. CASE rider_sem' < 0
    <3>1. Searchers' = Searchers
      BY <2>1 DEF Sol!P_rider, Searchers
    <3>2. QED
      BY <2>1, <3>1 DEF Sol!P_rider, Positive
  <2>2. CASE ~ (rider_sem' < 0)
    <3>1. v \notin Searchers /\ Searchers' = Searchers \cup {v}
      BY <2>2 DEF Sol!P_rider, Searchers
    <3>2. Cardinality(Searchers') = Cardinality(Searchers) + 1
      BY <3>1, OneMore DEF Searchers
    <3>3. QED
      BY <2>2, <3>2, SolCountsAreNat DEF Sol!P_rider, Positive
  <2>3. QED
    BY <2>1, <2>2
<1>3. QED
  BY <1>1, <1>2 DEF SearchBalanced

\* A search moves one rider and one boat.
LEMMA SolSearchBalance ==
  ASSUME SolTypes, SolPairInv, SearchBalanced, NEW v \in Visitors, Sol!Search(v)
  PROVE  SearchBalanced'
<1> USE SameNames DEF SolTypes, Sol!sems, Sol!bmains
<1>1. PICK i \in Sol!Offered : BC' = [BC EXCEPT ![i] = v]
  BY DEF Sol!Search
<1>2. i \in Boats /\ BC[i] = NONE /\ bpc[i] # "start" /\ v # NONE
  BY DEF Sol!Offered, SolPairInv, SolBoatInv, NONE, Visitors
<1>3. i \notin Taken /\ Taken' = Taken \cup {i}
  BY <1>1, <1>2 DEF Sol!Search, Taken, Launched
<1>4. v \in Searchers /\ Searchers' = Searchers \ {v}
  BY DEF Sol!Search, Searchers
<1>5. Signalled' = Signalled /\ rider_sem' = rider_sem
  BY DEF Sol!Search, Signalled
<1>6. Cardinality(Taken') = Cardinality(Taken) + 1
  BY <1>3, OneMore DEF Taken, Launched
<1>7. Cardinality(Searchers') = Cardinality(Searchers) - 1
  BY <1>4, OneLess DEF Searchers
<1>8. Positive(rider_sem') = Positive(rider_sem) /\ Positive(rider_sem) \in Nat
  BY <1>5 DEF Positive
<1>9. QED
  BY <1>5, <1>6, <1>7, <1>8, SolCountsAreNat DEF SearchBalanced

\* A landing returns the boat of both.
LEMMA SolLandBalance ==
  ASSUME SolTypes, SolPairInv, SearchBalanced, NEW i \in Boats, Sol!Land(i)
  PROVE  SearchBalanced'
<1> USE SameNames DEF SolTypes, Sol!sems, Sol!rmains
<1>1. /\ bpc[i] = "riding" /\ BC' = [BC EXCEPT ![i] = NONE]
      /\ bpc' = [bpc EXCEPT ![i] = "EOS"] \/ bpc' = [bpc EXCEPT ![i] = "signal"]
      /\ UNCHANGED <<rider_sem, vpc>>
  BY DEF Sol!Land
<1>2. BC[i] \in Visitors /\ BC[i] # NONE
  BY <1>1 DEF SolPairInv, MetInv, Met, NONE, Visitors
<1>3. i \in Taken /\ Taken' = Taken \ {i}
  BY <1>1, <1>2 DEF Taken, Launched
<1>4. i \in Signalled /\ Signalled' = Signalled \ {i}
  BY <1>1 DEF Signalled
<1>5. Searchers' = Searchers
  BY <1>1 DEF Searchers
<1>6. Cardinality(Taken') = Cardinality(Taken) - 1
  BY <1>3, OneLess DEF Taken, Launched
<1>7. Cardinality(Signalled') = Cardinality(Signalled) - 1
  BY <1>4, OneLess DEF Signalled
<1>8. Positive(rider_sem') = Positive(rider_sem) /\ Positive(rider_sem) \in Nat
  BY <1>1 DEF Positive
<1>9. QED
  BY <1>5, <1>6, <1>7, <1>8, SolCountsAreNat DEF SearchBalanced

\* Every step keeps the balance.
LEMMA SolBalanceStep ==
  SolTypes /\ SolPairInv /\ SearchBalanced /\ Sol!Next => SearchBalanced'
<1> SUFFICES ASSUME SolTypes, SolPairInv, SearchBalanced, Sol!Next PROVE SearchBalanced'
  OBVIOUS
<1> USE SameNames DEF SolTypes, Searchers, Taken, Launched, Signalled
<1>1. ASSUME NEW i \in Boats, Sol!Launch(i) PROVE SearchBalanced'
  BY <1>1, SolBalancedStep DEF Sol!Launch, Sol!sems, Sol!rmains
<1>2. ASSUME NEW i \in Boats, Sol!InitBB(i) \/ Sol!BoatAtEOS(i) \/ Sol!AwaitCall(i)
      PROVE  SearchBalanced'
  BY <1>2, SolBalancedStep
     DEF Sol!InitBB, Sol!BoatAtEOS, Sol!AwaitCall, Sol!P_boat, Sol!sems, Sol!arrays, Sol!rmains
<1>3. ASSUME NEW i \in Boats, Sol!Depart(i) \/ Sol!ReadTime(i) PROVE SearchBalanced'
  BY <1>3, SolBalancedStep DEF Sol!Depart, Sol!ReadTime, Sol!sems, Sol!arrays, Sol!rmains
<1>4. ASSUME NEW i \in Boats, Sol!BoatAtBB(i) PROVE SearchBalanced'
  <2>1. \A v \in Visitors : vpc'[v] = "search" <=> vpc[v] = "search"
    BY <1>4 DEF Sol!BoatAtBB, SolPairInv, SolBoatInv
  <2>2. Searchers' = Searchers
    BY <2>1
  <2>3. Taken' = Taken /\ Signalled' = Signalled /\ rider_sem' = rider_sem
    BY <1>4 DEF Sol!BoatAtBB, Sol!sems, Sol!arrays
  <2>4. QED
    BY <2>2, <2>3, SolBalancedStep
<1>5. ASSUME NEW v \in Visitors, Sol!CallBoat(v) PROVE SearchBalanced'
  <2>1. \A i \in Boats : bpc'[i] = bpc[i] \/ (bpc[i] = "waiting" /\ bpc'[i] = "bb")
    BY <1>5 DEF Sol!CallBoat, Sol!V_boat
  <2>2. QED
    BY <1>5, <2>1, SolBalancedStep DEF Sol!CallBoat, Sol!arrays
<1>6. ASSUME NEW v \in Visitors, Sol!RiderAtBB(v) PROVE SearchBalanced'
  <2>1. PICK i \in Boats : i = boat_index[v] /\ bpc[i] # "start"
    BY <1>6 DEF Sol!RiderAtBB, SolPairInv, BoardingInv, Sol!Boarding
  <2>2. Searchers' = Searchers
    BY <1>6 DEF Sol!RiderAtBB
  <2>3. bpc' = bpc \/ (bpc[i] = "in_bb" /\ bpc' = [bpc EXCEPT ![i] = "depart"])
    BY <1>6, <2>1 DEF Sol!RiderAtBB, SolPairInv, SolBoatInv
  <2>4. Taken' = Taken /\ Signalled' = Signalled /\ rider_sem' = rider_sem
    BY <1>6, <2>3 DEF Sol!RiderAtBB, Sol!sems, Sol!arrays
  <2>5. QED
    BY <2>2, <2>4, SolBalancedStep
<1>7. ASSUME NEW v \in Visitors, Sol!Leave(v) PROVE SearchBalanced'
  BY <1>7, SolBalancedStep DEF Sol!Leave, Sol!sems, Sol!arrays, Sol!bmains
<1>8. CASE Sol!EndSession \/ UNCHANGED Sol!vars
  BY <1>8, SolBalancedStep
     DEF Sol!EndSession, Sol!vars, Sol!sems, Sol!arrays, Sol!bmains, Sol!rmains
<1>9. QED
  BY <1>1, <1>2, <1>3, <1>4, <1>5, <1>6, <1>7, <1>8, SolSignalBalance, SolAwaitBoatBalance,
     SolSearchBalance, SolLandBalance DEF Sol!Next, Sol!bmain, Sol!rmain

\* Every step of the instructor's program keeps its invariant.
LEMMA SolStep == SolInv /\ Sol!Next => SolInv'
BY SolPairsStep, SolBalanceStep DEF SolInv, SolKeeps

\* Its invariant holds at the start.
LEMMA SolStart == Sol!Init => SolInv
<1> SUFFICES ASSUME Sol!Init PROVE SolInv
  OBVIOUS
<1> USE SameNames DEF Sol!Init
<1>1. /\ BA \in [Boats -> {0, 1}] /\ BC \in [Boats -> Visitors \cup {0, NONE}]
      /\ BT \in [Boats -> RideTimes \cup {0}]
  OBVIOUS
<1>2. /\ BB \in [Boats -> SUBSET (Visitors \cup {BOAT})] /\ ready_BB \in [Boats -> BOOLEAN]
  OBVIOUS
<1>3. /\ visitor_id \in [Boats -> Visitors \cup {NONE}]
      /\ ride_time \in [Boats -> RideTimes \cup {0}]
      /\ boat_index \in [Visitors -> Boats \cup {NONE}]
  OBVIOUS
<1>4. rides \in Int /\ rider_sem \in Int /\ boat_sem \in Int
  BY SizeAssumption
<1>5. SolTypes
  BY <1>1, <1>2, <1>3, <1>4 DEF SolTypes
<1>6. SolPairInv
  BY DEF SolPairInv, SolBoatInv, BoardingInv, MetInv, Met, Sol!Boarding
<1>7. Searchers = {} /\ Taken = {} /\ Signalled = {}
  BY DEF Searchers, Taken, Launched, Signalled
<1>8. SearchBalanced
  BY <1>7, FS_EmptySet DEF SearchBalanced, Positive
<1>9. QED
  BY <1>5, <1>6, <1>8 DEF SolInv

-----------------------------------------------------------------------------
(* Both programs.                                                          *)

MCInv == IF program = "boating" THEN IInv ELSE SolInv

\* The invariant of whichever program runs holds at the start.
LEMMA MCStart == MCInit => MCInv
BY InitIInv, SolStart DEF MCInit, MCInv

\* Every step keeps it.
LEMMA MCStep == MCInv /\ [MCNext]_<<vars, program, rides, main>> => MCInv'
<1> SUFFICES ASSUME MCInv, [MCNext]_<<vars, program, rides, main>> PROVE MCInv'
  OBVIOUS
<1>1. CASE program = "boating"
  BY <1>1, StepIInv DEF MCInv, MCNext
<1>2. CASE program # "boating" /\ Sol!Next
  BY <1>2, SolStep DEF MCInv, MCNext
<1>3. CASE program # "boating" /\ UNCHANGED <<vars, program, rides, main>>
  <2>1. UNCHANGED <<rides, rider_sem, boat_sem, BA, BC, BT, BB, ready_BB, bpc, visitor_id,
                    ride_time, vpc, boat_index>>
    BY <1>3 DEF vars, sems, arrays, barriers, boats, visitors
  <2>2. SolTypes'
    BY <1>3, <2>1 DEF MCInv, SolInv, SolTypes
  <2>3. SolPairInv'
    BY <1>3, <2>1, <2>2, SolQuietStep DEF MCInv, SolInv
  <2>4. SearchBalanced'
    BY <1>3, <2>1, SolBalancedStep
       DEF MCInv, SolInv, Searchers, Taken, Launched, Signalled
  <2>5. QED
    BY <1>3, <2>2, <2>3, <2>4 DEF MCInv, SolInv
<1>4. QED
  BY <1>1, <1>2, <1>3 DEF MCNext

\* It holds in every reachable state.
LEMMA MCInvariant == MCSpec => []MCInv
BY MCStart, MCStep, PTL DEF MCSpec

\* Boat and visitor agree about their ride in both programs (boating.c l. 84-98,
\* 127-131, sol_boating.c l. 70-78, 114-126).
THEOREM RidesAlwaysMatchInBoth == MCSpec => []RidesMatchInBoth
<1>1. SolInv => Sol!RidesMatch
  BY SameNames DEF SolInv, SolPairInv, BoardingInv, MetInv, Met, Sol!RidesMatch, Sol!Boarding
<1>2. MCInv => RidesMatchInBoth
  BY <1>1, PairsMatch DEF MCInv, IInv, RidesMatchInBoth
<1>3. QED
  BY <1>2, MCInvariant, PTL

\* Nobody uses a barrier of boating.c that is not there (l. 79-80, 89, 99-100,
\* 131, 150).
THEOREM BarriersAlwaysReadyInBoating == MCSpec => []BarriersReadyInBoating
<1>1. MCInv => BarriersReadyInBoating
  BY PairsUseReadyBarriers DEF MCInv, IInv, BarriersReadyInBoating
<1>2. QED
  BY <1>1, MCInvariant, PTL

\* Whoever gets through a semaphore will pair up: the calls balance in boating.c
\* (l. 67-83, 119-139), and no search of sol_boating.c spins (l. 67-83, 110-124).
THEOREM CallsAlwaysMatchInBoth == MCSpec => []CallsMatchInBoth
<1>1. MCInv => CallsMatchInBoth
  BY BalancesMatch, EnoughBoats DEF MCInv, SolInv, CallsMatchInBoth
<1>2. QED
  BY <1>1, MCInvariant, PTL

=============================================================================
