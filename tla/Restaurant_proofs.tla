-------------------------- MODULE Restaurant_proofs --------------------------
(***************************************************************************)
(* Theorems on the lunch session of LA6, for any number of customers,      *)
(* waiters and tables and any times of arrival.                            *)
(***************************************************************************)
EXTENDS Restaurant, FiniteSetTheorems, SequenceTheorems, TLAPS

\* The tables taken and those left are all there are.
Sitting == {c \in Customers : cpc[c] \in {"seated", "chosen", "queued", "await_order",
              "await_food", "served", "eating", "set_time", "finished"}}

SeatInv == ETid + Cardinality(Sitting) = TABLES

Busy(w)  == AtTable(w) \/ wpc[w] \in {"call_cook", "call_customer", "serve", "bring"}
Stove(k) == kpc[k] \in {"cooking", "set_time", "reread", "ready"}

\* Whoever works has something to work on, and orders are somebody's.
HandInv ==
  /\ \A w \in Waiters : Busy(w) => wcus[w] \in Customers
  /\ \A i \in DOMAIN CQ : CQ[i].cus_id \in Customers
  /\ \A k \in Cooks : /\ Stove(k) => korder[k].cus_id \in Customers
                      /\ ~ Stove(k) /\ kpc[k] # "notify" => korder[k] = NoOrder
  /\ \A w \in Waiters : wpc[w] = "serve" => FR[w] # NOBODY

\* Customers come in the order of the file, and the segment goes when all have left.
DoorInv ==
  /\ \A c \in Customers : cpc[c] = "absent" <=> c > arrived
  /\ ~ ipc => \A c \in Customers : cpc[c] = "left"

\* Customers are with the waiter they chose, wherever they stand in the queues.
LineInv ==
  /\ \A w \in Waiters :
       /\ \A i \in DOMAIN WQ[w] : cwaiter[WQ[w][i]] = w
       /\ \A i, j \in DOMAIN WQ[w] : WQ[w][i] = WQ[w][j] => i = j
       /\ Busy(w) => cwaiter[wcus[w]] = w
       /\ FR[w] # NOBODY => cwaiter[FR[w]] = w
  /\ \A i \in DOMAIN CQ : CQ[i].waiter_id = cwaiter[CQ[i].cus_id]
  /\ \A i, j \in DOMAIN CQ : CQ[i].cus_id = CQ[j].cus_id => i = j
  /\ \A k \in Cooks : Stove(k) => korder[k].waiter_id = cwaiter[korder[k].cus_id]
  /\ \A k, l \in Cooks : Stove(k) /\ Stove(l) /\ korder[k].cus_id = korder[l].cus_id => k = l

\* The places of a customer's wish, and what it is told.
InLine(c)  == \E i \in DOMAIN WQ[cwaiter[c]] : WQ[cwaiter[c]][i] = c
InHand(c)  == AtTable(cwaiter[c]) /\ wcus[cwaiter[c]] = c
Called(c)  == wpc[cwaiter[c]] \in {"call_cook", "call_customer"} /\ wcus[cwaiter[c]] = c
Listed(c)  == \E i \in DOMAIN CQ : CQ[i].cus_id = c
Cooking(c) == \E k \in Cooks : Stove(k) /\ korder[k].cus_id = c
Marked(c)  == FR[cwaiter[c]] = c
Serving(c) == wpc[cwaiter[c]] \in {"serve", "bring"} /\ wcus[cwaiter[c]] = c

Untold(c)   == cpc[c] \in {"queued", "await_order"} /\ cus[c] = 0
ToldOnce(c) == \/ cpc[c] \in {"queued", "await_order"} /\ cus[c] = 1
               \/ cpc[c] = "await_food" /\ cus[c] = 0

\* The order of the places, and what the customer has been told at each.
StageOf(c) ==
  /\ InLine(c) => ~ InHand(c) /\ ~ Called(c)
  /\ InLine(c) \/ InHand(c) => ~ Listed(c) /\ ~ Cooking(c) /\ ~ Marked(c) /\ ~ Serving(c)
  /\ Listed(c)  => ~ Cooking(c) /\ ~ Marked(c) /\ ~ Serving(c)
  /\ Cooking(c) => ~ Marked(c) /\ ~ Serving(c)
  /\ Serving(c) /\ wpc[cwaiter[c]] = "bring" => ~ Marked(c)
  /\ InLine(c) \/ InHand(c) \/ Called(c) <=> Untold(c)
  /\ Listed(c) \/ Cooking(c) \/ Marked(c) => Called(c) \/ ToldOnce(c)
  /\ Serving(c) => ToldOnce(c)
  /\ cus[c] <= CASE cpc[c] \in {"queued", "await_order"} -> 2
                 [] cpc[c] = "await_food" -> 1
                 [] OTHER -> 0

StageInv == \A c \in Customers : StageOf(c)

Notifying(w) == {k \in Cooks : kpc[k] = "notify" /\ korder[k].waiter_id = w}

\* A mark that was not there when the waiter looked is announced.
MarkInv == \A w \in Waiters : wpc[w] = "take" /\ FR[w] # NOBODY =>
             waiter[w] > 0 \/ Notifying(w) # {}

\* The pending counts, with the order that is being put into the queue.
PendingInv ==
  \A w \in Waiters :
    /\ PO[w] >= OrdersOf(w) + Num(wpc[w] = "post")
    /\ ipc /\ wpc[w] = "left" => OrdersOf(w) = 0
-----------------------------------------------------------------------------
(* Types.                                                                    *)

\* Sets of processes are finite.
LEMMA ProcessesAreFinite ==
  /\ \A S \in SUBSET Customers : IsFiniteSet(S) /\ Cardinality(S) \in Nat
  /\ \A S \in SUBSET Waiters : IsFiniteSet(S) /\ Cardinality(S) \in Nat
  /\ \A S \in SUBSET Cooks : IsFiniteSet(S) /\ Cardinality(S) \in Nat
<1>1. IsFiniteSet(Customers) /\ IsFiniteSet(Waiters)
  BY FS_Interval, FilesAssumption, StaffAssumption DEF Customers, Waiters
<1>2. IsFiniteSet(Cooks)
  <2>1. IsFiniteSet({"C"}) /\ IsFiniteSet({"D"})
    BY FS_Singleton
  <2>2. IsFiniteSet({"C"} \cup {"D"})
    BY <2>1, FS_Union
  <2>3. Cooks = {"C"} \cup {"D"}
    BY DEF Cooks
  <2>4. QED
    BY <2>2, <2>3
<1>3. QED
  BY <1>1, <1>2, FS_Subset, FS_CardinalityType

\* One element more, one less.
LEMMA CountOne ==
  ASSUME NEW S, IsFiniteSet(S), NEW x
  PROVE  /\ x \notin S => Cardinality(S \cup {x}) = Cardinality(S) + 1
         /\ x \in S => Cardinality(S \ {x}) = Cardinality(S) - 1 /\ Cardinality(S) >= 1
         /\ Cardinality(S) \in Nat
         /\ Cardinality(S) = 0 <=> S = {}
<1>1. Cardinality(S) \in Nat /\ (Cardinality(S) = 0 <=> S = {})
  BY FS_CardinalityType, FS_EmptySet
<1>2. x \notin S => Cardinality(S \cup {x}) = Cardinality(S) + 1
  BY FS_AddElement
<1>3. x \in S => Cardinality(S \ {x}) = Cardinality(S) - 1
  BY FS_RemoveElement
<1>4. QED
  BY <1>1, <1>2, <1>3

\* The numbers that tell nobody and no order from somebody and some.
LEMMA Sizes ==
  /\ NCUSTOMERS \in Nat /\ NWAITERS \in Nat /\ NWAITERS > 0 /\ TABLES \in Nat /\ TABLES > 0
  /\ 0 \in Waiters /\ NOBODY \notin Customers /\ Customers \subseteq Nat
  /\ NoOrder \in Orders /\ NoOrder.cus_id = NOBODY
BY FilesAssumption, StaffAssumption DEF Waiters, Customers, NOBODY, NoOrder, Orders

\* A line of the file.
LEMMA FileFields ==
  ASSUME TypeOK, NEW c \in Customers
  PROVE  file.arrival[c] \in Nat /\ file.count[c] \in 1 .. 4
BY FilesAssumption DEF TypeOK

\* The first of a queue and the rest.
LEMMA FirstAndRest ==
  ASSUME NEW T, NEW s \in Seq(T), s # <<>>
  PROVE  /\ Head(s) \in T /\ Tail(s) \in Seq(T) /\ Head(s) = s[1]
         /\ Len(s) \in Nat /\ Len(s) >= 1 /\ DOMAIN s = 1 .. Len(s)
         /\ Len(Tail(s)) = Len(s) - 1 /\ DOMAIN Tail(s) = 1 .. Len(s) - 1
         /\ \A i \in 1 .. Len(s) - 1 : Tail(s)[i] = s[i + 1]
<1>1. Len(s) \in Nat /\ Len(s) # 0 /\ DOMAIN s = 1 .. Len(s)
  BY EmptySeq, LenProperties
<1>2. Head(s) \in T /\ Tail(s) \in Seq(T) /\ Head(s) = s[1] /\ Len(Tail(s)) = Len(s) - 1
      /\ \A i \in 1 .. Len(s) - 1 : Tail(s)[i] = s[i + 1]
  BY <1>1, HeadTailProperties
<1>3. DOMAIN Tail(s) = 1 .. Len(s) - 1
  BY <1>2, LenProperties
<1>4. QED
  BY <1>1, <1>2, <1>3

TypeInv == TypeOK /\ SeatInv /\ HandInv

\* At the start the variables have their types and nobody sits.
LEMMA InitTypes == Init => TypeInv
<1> SUFFICES ASSUME Init PROVE TypeInv
  OBVIOUS
<1>1. TypeOK
  BY Sizes DEF Init, TypeOK, CustomerLabels, WaiterLabels, CookLabels
<1>2. SeatInv
  <2>1. Sitting = {}
    BY DEF Init, Sitting
  <2>2. QED
    BY <2>1, Sizes, FS_EmptySet DEF Init, SeatInv
<1>3. HandInv
  BY DEF Init, HandInv, Busy, AtTable, Stove, Cooks
<1>4. QED
  BY <1>1, <1>2, <1>3 DEF TypeInv

\* The set of those who sit, when c comes, goes or does something else.
LEMMA SittingMoves ==
  ASSUME TypeOK, SeatInv, NEW c \in Customers, NEW label,
         cpc' = [cpc EXCEPT ![c] = label]
  PROVE  LET s == Sitting
             sits == c \in Sitting'
         IN  /\ IsFiniteSet(s) /\ Cardinality(s) \in Nat
             /\ c \notin s /\ sits => Cardinality(Sitting') = Cardinality(s) + 1
             /\ c \in s /\ ~ sits => Cardinality(Sitting') = Cardinality(s) - 1
             /\ (c \in s <=> sits) => Cardinality(Sitting') = Cardinality(s)
<1>1. Sitting \in SUBSET Customers
  BY DEF Sitting
<1>2. /\ c \notin Sitting /\ c \in Sitting' => Sitting' = Sitting \cup {c}
      /\ c \in Sitting /\ c \notin Sitting' => Sitting' = Sitting \ {c}
      /\ (c \in Sitting <=> c \in Sitting') => Sitting' = Sitting
  BY DEF Sitting, TypeOK
<1>3. IsFiniteSet(Sitting) /\ Cardinality(Sitting) \in Nat
  BY <1>1, ProcessesAreFinite
<1>4. QED
  BY <1>2, <1>3, CountOne
\* The types, variable group by variable group.
SegmentTypes ==
  /\ Tid \in Nat /\ ETid \in 0 .. TABLES /\ NWid \in Waiters
  /\ CQ \in Seq(Orders) /\ WQ \in [Waiters -> Seq(Customers)]
  /\ FR \in [Waiters -> Customers \cup {NOBODY}] /\ PO \in [Waiters -> Int]
SemaphoreTypes ==
  /\ cook \in Nat /\ waiter \in [Waiters -> Nat] /\ cus \in [Customers -> Nat] /\ ipc \in BOOLEAN
CustomerVars ==
  /\ file \in Files /\ arrived \in Customers \cup {0}
  /\ cpc \in [Customers -> CustomerLabels] /\ cwaiter \in [Customers -> Waiters]
  /\ ctime \in [Customers -> Nat]
WaiterVars ==
  /\ wpc \in [Waiters -> WaiterLabels] /\ wcus \in [Waiters -> Customers \cup {NOBODY}]
  /\ wtime \in [Waiters -> Nat]
CookVars ==
  /\ kpc \in [Cooks -> CookLabels] /\ korder \in [Cooks -> Orders]
  /\ kret \in [Cooks -> {0, 1}] /\ ktime \in [Cooks -> Nat] /\ woken \in [Cooks -> Waiters]

\* TypeOK is the types of the five groups.
LEMMA TypeGroups ==
  /\ TypeOK <=> SegmentTypes /\ SemaphoreTypes /\ CustomerVars /\ WaiterVars /\ CookVars
  /\ TypeOK' <=> SegmentTypes' /\ SemaphoreTypes' /\ CustomerVars' /\ WaiterVars' /\ CookVars'
BY DEF TypeOK, SegmentTypes, SemaphoreTypes, CustomerVars, WaiterVars, CookVars

\* What a step does not touch keeps its types.
LEMMA GroupsKept ==
  /\ SegmentTypes /\ UNCHANGED <<Tid, ETid, NWid, CQ, WQ, FR, PO>> => SegmentTypes'
  /\ SemaphoreTypes /\ UNCHANGED <<cook, waiter, cus, ipc>> => SemaphoreTypes'
  /\ CustomerVars /\ UNCHANGED <<file, arrived, cpc, cwaiter, ctime>> => CustomerVars'
  /\ WaiterVars /\ UNCHANGED <<wpc, wcus, wtime>> => WaiterVars'
  /\ CookVars /\ UNCHANGED <<kpc, korder, kret, ktime, woken>> => CookVars'
BY DEF SegmentTypes, SemaphoreTypes, CustomerVars, WaiterVars, CookVars

\* The customers' steps keep the types.
LEMMA CustomerGroups ==
  ASSUME TypeOK, NEW c \in Customers, CustomerStep(c), ETid' \in 0 .. TABLES
  PROVE  TypeOK'
<1>0. SegmentTypes /\ SemaphoreTypes /\ CustomerVars /\ WaiterVars /\ CookVars
  BY TypeGroups
<1>1. WaiterVars' /\ CookVars'
  BY <1>0, GroupsKept DEF CustomerStep, Enter, ChooseWaiter, eq_WQ, WakeWaiter, AwaitSignal, Eat,
     CheckEatingTime, SetEatingTime, FreeTable, waiters, cooks
<1>2. SemaphoreTypes'
  <2>1. CASE WakeWaiter(c) \/ AwaitSignal(c)
    BY <1>0, <2>1 DEF SemaphoreTypes, CustomerVars, WakeWaiter, AwaitSignal
  <2>2. CASE ~ (WakeWaiter(c) \/ AwaitSignal(c))
    BY <1>0, <2>2, GroupsKept DEF CustomerStep, Enter, ChooseWaiter, eq_WQ, Eat,
       CheckEatingTime, SetEatingTime, FreeTable, sems
  <2>3. QED
    BY <2>1, <2>2
<1>3. CustomerVars'
  <2>1. cpc' \in [Customers -> CustomerLabels]
    <3>1. PICK label \in CustomerLabels : cpc' = [cpc EXCEPT ![c] = label]
      BY DEF CustomerStep, CustomerGoes, Enter, ChooseWaiter, eq_WQ, WakeWaiter,
         AwaitSignal, Eat, CheckEatingTime, SetEatingTime, FreeTable, CustomerLabels
    <3>2. QED
      BY <1>0, <3>1 DEF CustomerVars
  <2>2. cwaiter' \in [Customers -> Waiters]
    BY <1>0 DEF CustomerVars, SegmentTypes, CustomerStep, Enter, ChooseWaiter, eq_WQ,
       WakeWaiter, AwaitSignal, Eat, CheckEatingTime, SetEatingTime, FreeTable
  <2>3. ctime' \in [Customers -> Nat]
    <3>1. ctime' = ctime \/ \E t \in Nat : ctime' = [ctime EXCEPT ![c] = t]
      <4>1. Tid \in Nat /\ Tid + EatDelay \in Nat
        BY <1>0 DEF SegmentTypes, EatDelay
      <4>2. QED
        BY <4>1 DEF CustomerStep, Enter, ChooseWaiter, eq_WQ, WakeWaiter, AwaitSignal, Eat,
           CheckEatingTime, SetEatingTime, FreeTable
    <3>2. QED
      BY <1>0, <3>1 DEF CustomerVars
  <2>4. file' = file /\ arrived' = arrived
    BY DEF CustomerStep, Enter, ChooseWaiter, eq_WQ,
       WakeWaiter, AwaitSignal, Eat, CheckEatingTime, SetEatingTime, FreeTable
  <2>5. QED
    BY <1>0, <2>1, <2>2, <2>3, <2>4 DEF CustomerVars
<1>4. SegmentTypes'
  <2>1. CASE ChooseWaiter(c)
    <3>1. (NWid + 1) % NWAITERS \in Waiters
      BY <1>0, Sizes DEF SegmentTypes, Waiters
    <3>2. QED
      BY <1>0, <2>1, <3>1 DEF ChooseWaiter, SegmentTypes
  <2>2. CASE eq_WQ(c)
    <3>1. Append(WQ[cwaiter[c]], c) \in Seq(Customers)
      BY <1>0 DEF SegmentTypes, CustomerVars
    <3>2. QED
      BY <1>0, <2>2, <3>1 DEF eq_WQ, SegmentTypes
  <2>3. CASE Enter(c) \/ FreeTable(c)
    BY <1>0, <2>3 DEF Enter, FreeTable, SegmentTypes
  <2>4. CASE SetEatingTime(c)
    BY <1>0, <2>4 DEF SetEatingTime, SegmentTypes, CustomerVars
  <2>5. CASE WakeWaiter(c) \/ AwaitSignal(c) \/ Eat(c) \/ CheckEatingTime(c)
    BY <1>0, <2>5, GroupsKept DEF WakeWaiter, AwaitSignal, Eat, CheckEatingTime, M
  <2>6. QED
    BY <2>1, <2>2, <2>3, <2>4, <2>5 DEF CustomerStep
<1>5. QED
  BY <1>1, <1>2, <1>3, <1>4, TypeGroups

\* The waiters' steps keep the types.
LEMMA WaiterGroups ==
  ASSUME TypeOK, HandInv, NEW w \in Waiters, WaiterStep(w)
  PROVE  TypeOK'
<1>0. SegmentTypes /\ SemaphoreTypes /\ CustomerVars /\ WaiterVars /\ CookVars
  BY TypeGroups
<1>1. CustomerVars' /\ CookVars'
  BY <1>0, GroupsKept DEF WaiterStep, WaitForWork, Look, dq_WQ, CheckTakingTime, SetTakingTime,
     BookOrder, eq_CQ, CallCook, CallCustomer, Serve, WaiterFails, customers, cooks
<1>2. SemaphoreTypes'
  <2>1. CASE WaitForWork(w)
    BY <1>0, <2>1 DEF SemaphoreTypes, WaitForWork
  <2>2. CASE CallCook(w)
    BY <1>0, <2>2 DEF SemaphoreTypes, CallCook
  <2>3. CASE CallCustomer(w)
    <3>1. wcus[w] \in Customers
      BY <2>3 DEF CallCustomer, HandInv, Busy
    <3>2. QED
      BY <1>0, <2>3, <3>1 DEF SemaphoreTypes, CallCustomer
  <2>4. CASE ~ (WaitForWork(w) \/ CallCook(w) \/ CallCustomer(w))
    BY <1>0, <2>4, GroupsKept DEF WaiterStep, Look, dq_WQ, CheckTakingTime, SetTakingTime,
       BookOrder, eq_CQ, Serve, WaiterFails, sems
  <2>5. QED
    BY <2>1, <2>2, <2>3, <2>4
<1>q. /\ WQ[w] \in Seq(Customers)
      /\ WQ[w] # <<>> => Head(WQ[w]) \in Customers /\ Tail(WQ[w]) \in Seq(Customers)
  BY <1>0, FirstAndRest DEF SegmentTypes
<1>3. WaiterVars'
  <2>1. wpc' \in [Waiters -> WaiterLabels]
    <3>1. PICK label \in WaiterLabels : wpc' = [wpc EXCEPT ![w] = label]
      BY DEF WaiterStep, WaiterGoes, WaitForWork, Look, dq_WQ, CheckTakingTime,
         SetTakingTime, BookOrder, eq_CQ, CallCook, CallCustomer, Serve, WaiterFails, WaiterLabels
    <3>2. QED
      BY <1>0, <3>1 DEF WaiterVars
  <2>2. wcus' \in [Waiters -> Customers \cup {NOBODY}]
    <3>1. wcus' = wcus \/ \E c \in Customers \cup {NOBODY} : wcus' = [wcus EXCEPT ![w] = c]
      <4>1. FR[w] \in Customers \cup {NOBODY}
        BY <1>0 DEF SegmentTypes
      <4>2. QED
        BY <1>q, <4>1 DEF WaiterStep, WaitForWork, Look, dq_WQ, CheckTakingTime,
           SetTakingTime, BookOrder, eq_CQ, CallCook, CallCustomer, Serve, WaiterFails
    <3>2. QED
      BY <1>0, <3>1 DEF WaiterVars
  <2>3. wtime' \in [Waiters -> Nat]
    <3>1. wtime' = wtime \/ \E t \in Nat : wtime' = [wtime EXCEPT ![w] = t]
      <4>1. Tid \in Nat /\ wtime[w] \in Nat
        BY <1>0 DEF SegmentTypes, WaiterVars
      <4>2. QED
        BY <4>1 DEF WaiterStep, WaitForWork, Look, dq_WQ, CheckTakingTime, SetTakingTime,
           BookOrder, eq_CQ, CallCook, CallCustomer, Serve, WaiterFails, TakeDelay
    <3>2. QED
      BY <1>0, <3>1 DEF WaiterVars
  <2>4. QED
    BY <2>1, <2>2, <2>3 DEF WaiterVars
<1>4. SegmentTypes'
  <2>1. CASE dq_WQ(w)
    BY <1>0, <1>q, <2>1 DEF SegmentTypes, dq_WQ
  <2>2. CASE eq_CQ(w)
    <3>1. PICK c \in Customers : c = wcus[w]
      BY <2>2 DEF eq_CQ, HandInv, Busy, AtTable
    <3>2. file.count[c] \in 0 .. 4
      BY FileFields
    <3>3. [waiter_id |-> w, cus_id |-> c, cus_cnt |-> file.count[c]] \in Orders
      BY <3>2 DEF Orders
    <3>4. CQ' = Append(CQ, [waiter_id |-> w, cus_id |-> c, cus_cnt |-> file.count[c]])
      BY <2>2, <3>1 DEF eq_CQ
    <3>5. CQ' \in Seq(Orders)
      BY <1>0, <3>3, <3>4, AppendProperties DEF SegmentTypes
    <3>6. QED
      BY <1>0, <2>2, <3>5 DEF SegmentTypes, eq_CQ
  <2>3. CASE SetTakingTime(w)
    BY <1>0, <2>3 DEF SegmentTypes, WaiterVars, SetTakingTime
  <2>6. CASE BookOrder(w)
    BY <1>0, <2>6 DEF SegmentTypes, BookOrder
  <2>7. CASE Serve(w)
    BY <1>0, <2>7 DEF SegmentTypes, Serve
  <2>4. CASE WaitForWork(w) \/ Look(w) \/ CheckTakingTime(w) \/ CallCook(w) \/ CallCustomer(w)
             \/ WaiterFails(w)
    BY <1>0, <2>4, GroupsKept DEF WaitForWork, Look, CheckTakingTime, CallCook, CallCustomer,
       WaiterFails, M
  <2>5. QED
    BY <2>1, <2>2, <2>3, <2>4, <2>6, <2>7 DEF WaiterStep
<1>5. QED
  BY <1>1, <1>2, <1>3, <1>4, TypeGroups

\* The cooks' steps keep the types.
LEMMA CookGroups ==
  ASSUME TypeOK, NEW k \in Cooks, CookStep(k)
  PROVE  TypeOK'
<1>0. SegmentTypes /\ SemaphoreTypes /\ CustomerVars /\ WaiterVars /\ CookVars
  BY TypeGroups
<1>1. CustomerVars' /\ WaiterVars'
  BY <1>0, GroupsKept DEF CookStep, WaitForOrder, dq_CQ, CheckCookingTime, SetCookingTime, FoodReady,
     NotifyWaiter, wake_all_waiters, CookFails, customers, waiters
<1>o. korder[k].cus_id \in Customers \cup {NOBODY} /\ korder[k].waiter_id \in Waiters
      /\ woken[k] \in Waiters
  BY <1>0 DEF CookVars, Orders
<1>2. SemaphoreTypes'
  BY <1>0, <1>o DEF SemaphoreTypes, CookStep, WaitForOrder, dq_CQ, CheckCookingTime, SetCookingTime,
     FoodReady, NotifyWaiter, wake_all_waiters, CookFails, sems
<1>q. CQ # <<>> => /\ Head(CQ) \in Orders /\ Tail(CQ) \in Seq(Orders)
                   /\ CookDelay(Head(CQ).cus_cnt) \in Nat
  <2>1. CQ # <<>> => Head(CQ) \in Orders /\ Tail(CQ) \in Seq(Orders)
    BY <1>0, FirstAndRest DEF SegmentTypes
  <2>2. CQ # <<>> => Head(CQ).cus_cnt \in Nat
    BY <2>1 DEF Orders
  <2>3. QED
    BY <2>1, <2>2 DEF CookDelay
<1>3. CookVars'
  <2>1. CASE dq_CQ(k)
    <3>1. kpc' \in [Cooks -> CookLabels] /\ woken' \in [Cooks -> Waiters]
      BY <1>0, <2>1 DEF CookVars, dq_CQ, CookGoes, CookLabels
    <3>2. korder' \in [Cooks -> Orders] /\ kret' \in [Cooks -> {0, 1}]
      BY <1>0, <1>q, <2>1 DEF CookVars, dq_CQ, Num
    <3>3. ktime' \in [Cooks -> Nat]
      <4>1. ktime \in [Cooks -> Nat] /\ Tid \in Nat
        BY <1>0 DEF CookVars, SegmentTypes
      <4>2. CASE CQ = <<>>
        BY <2>1, <4>1, <4>2 DEF dq_CQ
      <4>3. CASE CQ # <<>>
        <5>1. CookDelay(Head(CQ).cus_cnt) \in Nat
          BY <1>q, <4>3
        <5>2. Tid + CookDelay(Head(CQ).cus_cnt) \in Nat
          BY <4>1, <5>1
        <5>3. ktime' = [ktime EXCEPT ![k] = Tid + CookDelay(Head(CQ).cus_cnt)]
          BY <2>1, <4>3 DEF dq_CQ
        <5>4. QED
          BY <4>1, <5>2, <5>3
      <4>4. QED
        BY <4>2, <4>3
    <3>4. QED
      BY <3>1, <3>2, <3>3 DEF CookVars
  <2>2. CASE wake_all_waiters(k)
    <3>1. (woken[k] + 1) % NWAITERS \in Waiters
      BY <1>o, Sizes DEF Waiters
    <3>2. kpc' \in [Cooks -> CookLabels]
      BY <1>0, <2>2 DEF CookVars, wake_all_waiters, CookGoes, CookLabels
    <3>3. QED
      BY <1>0, <2>2, <3>1, <3>2 DEF CookVars, wake_all_waiters
  <2>3. CASE WaitForOrder(k) \/ CheckCookingTime(k) \/ SetCookingTime(k) \/ FoodReady(k)
    BY <1>0, <2>3 DEF CookVars, SegmentTypes, WaitForOrder, CheckCookingTime, SetCookingTime,
       FoodReady, CookGoes, CookLabels
  <2>4. CASE NotifyWaiter(k) \/ CookFails(k)
    BY <1>0, <2>4, Sizes DEF CookVars, NotifyWaiter, CookFails, CookGoes, CookLabels
  <2>5. QED
    BY <2>1, <2>2, <2>3, <2>4 DEF CookStep
<1>4. SegmentTypes'
  <2>1. CASE dq_CQ(k)
    BY <1>0, <1>q, <2>1 DEF SegmentTypes, dq_CQ
  <2>2. CASE SetCookingTime(k) \/ FoodReady(k)
    BY <1>0, <1>o, <2>2 DEF SegmentTypes, CookVars, SetCookingTime, FoodReady
  <2>3. CASE WaitForOrder(k) \/ CheckCookingTime(k) \/ NotifyWaiter(k) \/ wake_all_waiters(k)
             \/ CookFails(k)
    BY <1>0, <2>3, GroupsKept DEF WaitForOrder, CheckCookingTime, NotifyWaiter,
       wake_all_waiters, CookFails, M
  <2>4. QED
    BY <2>1, <2>2, <2>3 DEF CookStep
<1>5. QED
  BY <1>1, <1>2, <1>3, <1>4, TypeGroups

\* A step that moves none of the customers and no table.
LEMMA SeatsKept ==
  ASSUME SeatInv, UNCHANGED <<cpc, ETid>>
  PROVE  SeatInv'
BY DEF SeatInv, Sitting

\* What a waiter or a cook has to work on, when none of them acts.
LEMMA HandsKept ==
  ASSUME HandInv, UNCHANGED <<CQ, FR, wpc, wcus, kpc, korder>>
  PROVE  HandInv'
BY DEF HandInv, Busy, AtTable, Stove

\* The steps of the customers and of the wrapper keep the types and the tables.
LEMMA CustomerTypes ==
  ASSUME TypeInv, NEW c \in Customers, CustomerStep(c)
  PROVE  TypeInv'
<1>0. TypeOK /\ SeatInv /\ HandInv /\ ETid \in 0 .. TABLES
  BY DEF TypeInv, TypeOK
<1>h. HandInv'
  BY <1>0, HandsKept DEF CustomerStep, Enter, ChooseWaiter, eq_WQ, WakeWaiter, AwaitSignal,
     Eat, CheckEatingTime, SetEatingTime, FreeTable, M, waiters, cooks
<1>n. Cardinality(Sitting') \in Nat
  <2>1. Sitting' \in SUBSET Customers
    BY DEF Sitting
  <2>2. QED
    BY <2>1, ProcessesAreFinite
<1>s. SeatInv' /\ ETid' \in 0 .. TABLES
  <2>1. CASE Enter(c)
    <3>1. cpc' = [cpc EXCEPT ![c] = cpc'[c]] /\ cpc[c] = "door"
      BY <1>0, <2>1 DEF Enter, CustomerGoes, TypeOK
    <3>2. c \notin Sitting
      BY <3>1 DEF Sitting
    <3>3. CASE cpc'[c] = "left" /\ ETid' = ETid
      <4>1. c \notin Sitting'
        BY <3>3 DEF Sitting
      <4>2. QED
        BY <1>0, <3>1, <3>2, <3>3, <4>1, SittingMoves DEF SeatInv
    <3>4. CASE cpc'[c] = "seated" /\ ETid' = ETid - 1 /\ ETid # 0
      <4>1. c \in Sitting'
        BY <3>4 DEF Sitting
      <4>2. Cardinality(Sitting') = Cardinality(Sitting) + 1 /\ Cardinality(Sitting) \in Nat
        BY <1>0, <3>1, <3>2, <4>1, SittingMoves
      <4>3. QED
        BY <1>0, <3>4, <4>2 DEF SeatInv
    <3>5. QED
      BY <1>0, <2>1, <3>3, <3>4 DEF Enter, CustomerGoes, TypeOK
  <2>2. CASE FreeTable(c)
    <3>1. /\ cpc' = [cpc EXCEPT ![c] = "left"] /\ cpc[c] = "finished" /\ ETid' = ETid + 1
          /\ cpc'[c] = "left"
      BY <1>0, <2>2 DEF FreeTable, CustomerGoes, TypeOK
    <3>2. c \in Sitting /\ c \notin Sitting'
      BY <3>1 DEF Sitting
    <3>3. Cardinality(Sitting) \in Nat /\ Cardinality(Sitting') = Cardinality(Sitting) - 1
      BY <1>0, <3>1, <3>2, SittingMoves
    <3>4. QED
      BY <1>0, <1>n, <3>1, <3>3, Sizes DEF SeatInv
  <2>3. CASE ~ (Enter(c) \/ FreeTable(c))
    <3>0. PICK label \in CustomerLabels \ {"absent", "door", "left"} :
            cpc' = [cpc EXCEPT ![c] = label] /\ ETid' = ETid
            /\ cpc[c] \in CustomerLabels \ {"absent", "door", "left"}
      BY <2>3 DEF CustomerStep, ChooseWaiter, eq_WQ, WakeWaiter, AwaitSignal, Eat,
         CheckEatingTime, SetEatingTime, CustomerGoes, M, CustomerLabels
    <3>1. cpc'[c] \in CustomerLabels \ {"absent", "door", "left"}
      BY <1>0, <3>0 DEF TypeOK
    <3>2. c \in Sitting
      BY <3>0 DEF Sitting, CustomerLabels
    <3>3. c \in Sitting'
      BY <3>1 DEF Sitting, CustomerLabels
    <3>4. Cardinality(Sitting') = Cardinality(Sitting)
      BY <1>0, <3>0, <3>2, <3>3, SittingMoves
    <3>5. QED
      BY <1>0, <3>0, <3>4 DEF SeatInv
  <2>4. QED
    BY <2>1, <2>2, <2>3
<1>1. QED
  BY <1>0, <1>h, <1>s, CustomerGroups DEF TypeInv

\* The steps of the customers' wrapper keep the types, the tables and the hands.
LEMMA WrapperTypes ==
  ASSUME TypeInv, DoorInv, Arrive \/ Cleanup
  PROVE  TypeInv'
<1>0. TypeOK /\ SeatInv /\ HandInv
  BY DEF TypeInv
<1>1. CASE Arrive
  <2>1. PICK c \in Customers : c = arrived + 1
    BY <1>1 DEF Arrive
  <2>2. cpc' = [cpc EXCEPT ![c] = "door"] /\ ETid' = ETid /\ arrived' = c
    BY <1>1, <2>1 DEF Arrive, CustomerGoes
  <2>3. cpc[c] = "absent" /\ cpc'[c] = "door"
    <3>1. c > arrived
      BY <1>0, <2>1, Sizes DEF TypeOK
    <3>2. QED
      BY <1>0, <2>2, <3>1 DEF DoorInv, TypeOK
  <2>4. c \notin Sitting
    BY <2>3 DEF Sitting
  <2>n. c \notin Sitting'
    BY <2>3 DEF Sitting
  <2>5. SeatInv'
    BY <1>0, <2>2, <2>4, <2>n, SittingMoves DEF SeatInv
  <2>6. file.arrival[c] \in Nat
    BY <1>0, FileFields
  <2>7. TypeOK'
    <3>1. SegmentTypes /\ SemaphoreTypes /\ CustomerVars /\ WaiterVars /\ CookVars
      BY <1>0, TypeGroups
    <3>2. SegmentTypes'
      BY <1>1, <2>2, <2>6, <3>1 DEF Arrive, SegmentTypes
    <3>3. CustomerVars'
      BY <1>1, <2>2, <3>1 DEF Arrive, CustomerVars, CustomerLabels
    <3>4. SemaphoreTypes' /\ WaiterVars' /\ CookVars'
      BY <1>1, <3>1, GroupsKept DEF Arrive, sems, waiters, cooks
    <3>5. QED
      BY <3>2, <3>3, <3>4, TypeGroups
  <2>8. HandInv'
    BY <1>0, <1>1, HandsKept DEF Arrive, waiters, cooks
  <2>9. QED
    BY <2>5, <2>7, <2>8 DEF TypeInv
<1>2. CASE Cleanup
  <2>1. TypeOK'
    BY <1>0, <1>2 DEF Cleanup, TypeOK, M, sems, customers, waiters, cooks
  <2>2. SeatInv'
    BY <1>0, <1>2, SeatsKept DEF Cleanup, M, customers
  <2>3. HandInv'
    BY <1>0, <1>2, HandsKept DEF Cleanup, M, waiters, cooks
  <2>4. QED
    BY <2>1, <2>2, <2>3 DEF TypeInv
<1>3. QED
  BY <1>1, <1>2

\* HandInv for one waiter, for one cook and for the queue.
HandOf(w) == /\ Busy(w) => wcus[w] \in Customers
             /\ wpc[w] = "serve" => FR[w] # NOBODY
Handful(k) == /\ Stove(k) => korder[k].cus_id \in Customers
              /\ ~ Stove(k) /\ kpc[k] # "notify" => korder[k] = NoOrder
OrdersAreSomebodys == \A i \in DOMAIN CQ : CQ[i].cus_id \in Customers

\* HandInv is HandOf for the waiters, Handful for the cooks, and the queue.
LEMMA HandParts ==
  /\ HandInv <=> /\ \A w \in Waiters : HandOf(w)
                 /\ \A k \in Cooks : Handful(k)
                 /\ OrdersAreSomebodys
  /\ HandInv' <=> /\ \A w \in Waiters : HandOf(w)'
                  /\ \A k \in Cooks : Handful(k)'
                  /\ OrdersAreSomebodys'
BY DEF HandInv, HandOf, Handful, OrdersAreSomebodys

\* A step takes its own process from a label to another.
LEMMA WaiterGoesOn ==
  ASSUME TypeOK, NEW w \in Waiters, WaiterStep(w), NEW v \in Waiters \ {w}
  PROVE  wpc'[v] = wpc[v]
<1>1. \E l : WaiterGoes(w, l)
  <2>1. CASE WaitForWork(w) \/ Look(w) \/ CheckTakingTime(w) \/ SetTakingTime(w) \/ BookOrder(w)
    BY <2>1 DEF WaitForWork, Look, CheckTakingTime, SetTakingTime, BookOrder
  <2>2. CASE dq_WQ(w) \/ eq_CQ(w) \/ CallCook(w) \/ CallCustomer(w) \/ Serve(w) \/ WaiterFails(w)
    BY <2>2 DEF dq_WQ, eq_CQ, CallCook, CallCustomer, Serve, WaiterFails
  <2>3. QED
    BY <2>1, <2>2 DEF WaiterStep
<1>2. QED
  BY <1>1 DEF WaiterGoes, TypeOK

\* Likewise for the cooks, who read and write but their own order.
LEMMA CookGoesOn ==
  ASSUME TypeOK, NEW k \in Cooks, CookStep(k), NEW j \in Cooks \ {k}
  PROVE  kpc'[j] = kpc[j] /\ korder'[j] = korder[j]
<1>1. \E l : CookGoes(k, l)
  <2>1. CASE WaitForOrder(k) \/ dq_CQ(k) \/ CheckCookingTime(k) \/ SetCookingTime(k)
    BY <2>1 DEF WaitForOrder, dq_CQ, CheckCookingTime, SetCookingTime
  <2>2. CASE FoodReady(k) \/ NotifyWaiter(k) \/ wake_all_waiters(k) \/ CookFails(k)
    BY <2>2 DEF FoodReady, NotifyWaiter, wake_all_waiters, CookFails
  <2>3. QED
    BY <2>1, <2>2 DEF CookStep
<1>2. korder' = korder \/ \E o : korder' = [korder EXCEPT ![k] = o]
  BY DEF CookStep, WaitForOrder, dq_CQ, CheckCookingTime, SetCookingTime, FoodReady,
     NotifyWaiter, wake_all_waiters, CookFails
<1>3. QED
  BY <1>1, <1>2 DEF CookGoes, TypeOK

\* The waiters' steps.
LEMMA WaiterTypes ==
  ASSUME TypeInv, NEW w \in Waiters, WaiterStep(w)
  PROVE  TypeInv'
<1>0. TypeOK /\ SeatInv /\ HandInv
  BY DEF TypeInv
<1>s. SeatInv'
  BY <1>0, SeatsKept DEF WaiterStep, WaitForWork, Look, dq_WQ, CheckTakingTime, SetTakingTime,
     BookOrder, eq_CQ, CallCook, CallCustomer, Serve, WaiterFails, M, customers
<1>k. \A k \in Cooks : Handful(k)'
  <2>1. kpc' = kpc /\ korder' = korder
    BY DEF WaiterStep, WaitForWork, Look, dq_WQ, CheckTakingTime, SetTakingTime,
       BookOrder, eq_CQ, CallCook, CallCustomer, Serve, WaiterFails, cooks
  <2>2. QED
    BY <1>0, <2>1, HandParts DEF Handful, Stove
<1>o. OrdersAreSomebodys'
  <2>1. CASE eq_CQ(w)
    <3>1. PICK c \in Customers : c = wcus[w]
      BY <1>0, <2>1 DEF eq_CQ, HandInv, Busy, AtTable
    <3>2. CQ \in Seq(Orders)
      BY <1>0 DEF TypeOK
    <3>6. file.count[c] \in 0 .. 4
      BY <1>0, FileFields
    <3>3. PICK o \in Orders : o = [waiter_id |-> w, cus_id |-> c, cus_cnt |-> file.count[c]]
      BY <3>6 DEF Orders
    <3>4. CQ' = Append(CQ, o) /\ o.cus_id = c
      BY <2>1, <3>1, <3>3 DEF eq_CQ
    <3>5. QED
      BY <1>0, <3>2, <3>4, HandParts DEF OrdersAreSomebodys
  <2>2. CASE ~ eq_CQ(w)
    <3>1. CQ' = CQ
      BY <2>2 DEF WaiterStep, WaitForWork, Look, dq_WQ, CheckTakingTime, SetTakingTime,
         BookOrder, CallCook, CallCustomer, Serve, WaiterFails, M
    <3>2. QED
      BY <1>0, <3>1, HandParts DEF OrdersAreSomebodys
  <2>3. QED
    BY <2>1, <2>2
<1>w. ASSUME NEW v \in Waiters
      PROVE  HandOf(v)'
  <2>1. HandOf(v) /\ HandOf(w)
    BY <1>0, HandParts
  <2>2. CASE v # w
    <3>1. wpc'[v] = wpc[v]
      BY <1>0, <2>2, WaiterGoesOn
    <3>2. wcus'[v] = wcus[v]
      BY <1>0, <2>2 DEF TypeOK, WaiterStep, WaitForWork, Look, dq_WQ, CheckTakingTime,
         SetTakingTime, BookOrder, eq_CQ, CallCook, CallCustomer, Serve, WaiterFails
    <3>3. FR'[v] = FR[v]
      BY <1>0, <2>2 DEF TypeOK, WaiterStep, WaitForWork, Look, dq_WQ, CheckTakingTime,
         SetTakingTime, BookOrder, eq_CQ, CallCook, CallCustomer, Serve, WaiterFails, M
    <3>4. QED
      BY <2>1, <3>1, <3>2, <3>3 DEF HandOf, Busy, AtTable
  <2>3. CASE v = w
    <3>1. CASE dq_WQ(w)
      <4>1. WQ[w] \in Seq(Customers) /\ (WQ[w] # <<>> => Head(WQ[w]) \in Customers)
        BY <1>0, FirstAndRest DEF TypeOK
      <4>2. CASE WQ[w] = <<>>
        <5>1. wpc'[w] \in {"left", "idle"}
          BY <1>0, <3>1, <4>2 DEF TypeOK, dq_WQ, WaiterGoes
        <5>2. QED
          BY <2>3, <5>1 DEF HandOf, Busy, AtTable
      <4>3. CASE WQ[w] # <<>>
        <5>1. wpc'[w] = "order" /\ wcus'[w] = Head(WQ[w])
          BY <1>0, <3>1, <4>3 DEF TypeOK, dq_WQ, WaiterGoes
        <5>2. QED
          BY <2>3, <4>1, <4>3, <5>1 DEF HandOf
      <4>4. QED
        BY <4>2, <4>3
    <3>2. CASE Look(w)
      BY <1>0, <2>1, <2>3, <3>2 DEF TypeOK, Look, WaiterGoes, M, HandOf, Busy, AtTable
    <3>3. CASE CallCustomer(w) \/ WaiterFails(w) \/ WaitForWork(w)
      <4>1. wpc'[w] \in {"idle", "left", "look"}
        BY <1>0, <3>3 DEF TypeOK, CallCustomer, WaiterFails, WaitForWork, WaiterGoes
      <4>2. QED
        BY <2>3, <4>1 DEF HandOf, Busy, AtTable
    <3>6. CASE Serve(w)
      <4>1. wpc'[w] = "bring" /\ wcus'[w] = wcus[w] /\ wpc[w] = "serve"
        BY <1>0, <3>6 DEF TypeOK, Serve, WaiterGoes
      <4>2. QED
        BY <2>1, <2>3, <4>1 DEF HandOf, Busy, AtTable
    <3>4. CASE \/ CheckTakingTime(w) \/ SetTakingTime(w) \/ BookOrder(w) \/ eq_CQ(w)
               \/ CallCook(w)
      BY <1>0, <2>1, <2>3, <3>4 DEF TypeOK, CheckTakingTime, SetTakingTime, BookOrder, eq_CQ,
         CallCook, WaiterGoes, M, HandOf, Busy, AtTable
    <3>5. QED
      BY <3>1, <3>2, <3>3, <3>4, <3>6 DEF WaiterStep
  <2>4. QED
    BY <2>2, <2>3
<1>1. QED
  BY <1>0, <1>s, <1>k, <1>o, <1>w, HandParts, WaiterGroups DEF TypeInv

\* The cooks' steps.
LEMMA CookTypes ==
  ASSUME TypeInv, NEW k \in Cooks, CookStep(k)
  PROVE  TypeInv'
<1>0. TypeOK /\ SeatInv /\ HandInv
  BY DEF TypeInv
<1>s. SeatInv'
  BY <1>0, SeatsKept DEF CookStep, WaitForOrder, dq_CQ, CheckCookingTime, SetCookingTime, FoodReady,
     NotifyWaiter, wake_all_waiters, CookFails, M, customers
<1>q. CQ # <<>> => /\ CQ \in Seq(Orders) /\ Head(CQ) \in Orders /\ Head(CQ) = CQ[1] /\ 1 \in DOMAIN CQ
                   /\ \A i \in DOMAIN Tail(CQ) : i + 1 \in DOMAIN CQ /\ Tail(CQ)[i] = CQ[i + 1]
  <2>1. CQ \in Seq(Orders)
    BY <1>0 DEF TypeOK
  <2>2. SUFFICES ASSUME CQ # <<>>
                 PROVE  /\ Head(CQ) \in Orders /\ Head(CQ) = CQ[1] /\ 1 \in DOMAIN CQ
                        /\ \A i \in DOMAIN Tail(CQ) : i + 1 \in DOMAIN CQ /\ Tail(CQ)[i] = CQ[i + 1]
    BY <2>1
  <2>3. /\ Head(CQ) \in Orders /\ Head(CQ) = CQ[1] /\ Len(CQ) \in Nat /\ Len(CQ) >= 1
        /\ DOMAIN CQ = 1 .. Len(CQ) /\ DOMAIN Tail(CQ) = 1 .. Len(CQ) - 1
        /\ \A i \in 1 .. Len(CQ) - 1 : Tail(CQ)[i] = CQ[i + 1]
    BY <2>1, <2>2, FirstAndRest
  <2>4. QED
    BY <2>3
<1>o. OrdersAreSomebodys'
  <2>1. CQ' = CQ \/ (CQ # <<>> /\ CQ' = Tail(CQ))
    BY DEF CookStep, WaitForOrder, dq_CQ, CheckCookingTime, SetCookingTime, FoodReady,
       NotifyWaiter, wake_all_waiters, CookFails, M
  <2>2. QED
    BY <1>0, <1>q, <2>1, HandParts DEF OrdersAreSomebodys
<1>w. \A w \in Waiters : HandOf(w)'
  <2>1. wpc' = wpc /\ wcus' = wcus
    BY DEF CookStep, WaitForOrder, dq_CQ, CheckCookingTime, SetCookingTime, FoodReady,
       NotifyWaiter, wake_all_waiters, CookFails, waiters
  <2>2. CASE FoodReady(k)
    <3>1. korder[k].cus_id \in Customers
      BY <1>0, <2>2, HandParts DEF FoodReady, Handful, Stove
    <3>2. QED
      BY <1>0, <2>1, <2>2, <3>1, Sizes, HandParts DEF FoodReady, HandOf, Busy, AtTable, TypeOK
  <2>3. CASE ~ FoodReady(k)
    <3>1. FR' = FR
      BY <2>3 DEF CookStep, WaitForOrder, dq_CQ, CheckCookingTime, SetCookingTime,
         NotifyWaiter, wake_all_waiters, CookFails, M
    <3>2. QED
      BY <1>0, <2>1, <3>1, HandParts DEF HandOf, Busy, AtTable
  <2>4. QED
    BY <2>2, <2>3
<1>k. ASSUME NEW j \in Cooks
      PROVE  Handful(j)'
  <2>1. Handful(j) /\ Handful(k)
    BY <1>0, HandParts
  <2>2. CASE j # k
    <3>1. kpc'[j] = kpc[j] /\ korder'[j] = korder[j]
      BY <1>0, <2>2, CookGoesOn
    <3>2. QED
      BY <2>1, <3>1 DEF Handful, Stove
  <2>3. CASE j = k
    <3>1. CASE dq_CQ(k)
      <4>1. CQ # <<>> => Head(CQ).cus_id \in Customers
        BY <1>0, <1>q DEF HandInv
      <4>2. QED
        BY <1>0, <2>1, <2>3, <3>1, <4>1 DEF TypeOK, dq_CQ, CookGoes, Handful, Stove
    <3>2. CASE FoodReady(k) \/ NotifyWaiter(k)
      <4>1. CASE FoodReady(k)
        <5>1. korder' = korder /\ kpc'[k] = "notify"
          BY <1>0, <4>1 DEF TypeOK, CookGoes, FoodReady
        <5>2. QED
          BY <2>3, <5>1 DEF Handful, Stove
      <4>2. CASE NotifyWaiter(k)
        <5>1. korder'[k] = NoOrder /\ kpc'[k] \in {"leaving", "idle"}
          BY <1>0, <4>2 DEF TypeOK, CookGoes, NotifyWaiter
        <5>2. QED
          BY <2>3, <5>1 DEF Handful, Stove
      <4>3. QED
        BY <3>2, <4>1, <4>2
    <3>3. CASE CheckCookingTime(k) \/ SetCookingTime(k)
      <4>1. korder' = korder /\ Stove(k) /\ kpc'[k] \in {"reread", "set_time", "ready"}
        BY <1>0, <3>3 DEF TypeOK, CookGoes, CheckCookingTime, SetCookingTime, Stove
      <4>2. QED
        BY <2>1, <2>3, <4>1 DEF Handful, Stove
    <3>4. CASE WaitForOrder(k) \/ wake_all_waiters(k)
      <4>1. korder' = korder /\ kpc[k] \in {"idle", "waking", "leaving"}
        BY <3>4 DEF WaitForOrder, wake_all_waiters
      <4>2. kpc'[k] \in {"fetch", "waking", "leaving", "idle", "left"}
        BY <1>0, <3>4 DEF TypeOK, CookGoes, WaitForOrder, wake_all_waiters
      <4>3. QED
        BY <2>1, <2>3, <4>1, <4>2 DEF Handful, Stove
    <3>5. CASE CookFails(k)
      BY <1>0, <2>3, <3>5 DEF TypeOK, CookGoes, CookFails, Handful, Stove
    <3>6. QED
      BY <3>1, <3>2, <3>3, <3>4, <3>5 DEF CookStep
  <2>4. QED
    BY <2>2, <2>3
<1>1. QED
  BY <1>0, <1>s, <1>k, <1>o, <1>w, HandParts, CookGroups DEF TypeInv

-----------------------------------------------------------------------------
(* Where a customer's wish is, and what the customer has been told.          *)

PlaceInv == DoorInv /\ LineInv /\ StageInv

\* What an element more does to a queue, and what one less.
LEMMA AppendedQueue ==
  ASSUME NEW T, NEW s \in Seq(T), NEW x \in T
  PROVE  /\ Len(s) \in Nat /\ DOMAIN s = 1 .. Len(s)
         /\ DOMAIN Append(s, x) = 1 .. Len(s) + 1 /\ Len(Append(s, x)) = Len(s) + 1
         /\ \A i \in DOMAIN s : Append(s, x)[i] = s[i]
         /\ Append(s, x)[Len(s) + 1] = x
<1>1. Len(s) \in Nat /\ DOMAIN s = 1 .. Len(s)
  BY LenProperties
<1>2. Append(s, x) \in Seq(T) /\ Len(Append(s, x)) = Len(s) + 1
  BY AppendProperties
<1>3. DOMAIN Append(s, x) = 1 .. Len(s) + 1
  BY <1>2, LenProperties
<1>4. (\A i \in 1 .. Len(s) : Append(s, x)[i] = s[i]) /\ Append(s, x)[Len(s) + 1] = x
  BY <1>1, AppendProperties
<1>5. QED
  BY <1>1, <1>2, <1>3, <1>4

\* The conjuncts of LineInv, waiter by waiter, and for the orders and the cooks.
QueueLine(w) ==
  /\ \A i \in DOMAIN WQ[w] : cwaiter[WQ[w][i]] = w
  /\ \A i, j \in DOMAIN WQ[w] : WQ[w][i] = WQ[w][j] => i = j
HandLine(w) == Busy(w) => cwaiter[wcus[w]] = w
MarkLine(w) == FR[w] # NOBODY => cwaiter[FR[w]] = w
OrderLine ==
  /\ \A i \in DOMAIN CQ : CQ[i].waiter_id = cwaiter[CQ[i].cus_id]
  /\ \A i, j \in DOMAIN CQ : CQ[i].cus_id = CQ[j].cus_id => i = j
CookLine ==
  /\ \A k \in Cooks : Stove(k) => korder[k].waiter_id = cwaiter[korder[k].cus_id]
  /\ \A k, l \in Cooks : Stove(k) /\ Stove(l) /\ korder[k].cus_id = korder[l].cus_id => k = l

\* LineInv, waiter by waiter, and for the orders and the cooks.
LEMMA LineParts ==
  /\ LineInv <=> /\ \A w \in Waiters : QueueLine(w) /\ HandLine(w) /\ MarkLine(w)
                 /\ OrderLine /\ CookLine
  /\ LineInv' <=> /\ \A w \in Waiters : QueueLine(w)' /\ HandLine(w)' /\ MarkLine(w)'
                  /\ OrderLine' /\ CookLine'
BY DEF LineInv, QueueLine, HandLine, MarkLine, OrderLine, CookLine

\* Who has not come to the queue yet or has been served has no wish anywhere.
LEMMA NoPlaces ==
  ASSUME TypeOK, StageInv, NEW c \in Customers,
         cpc[c] \in CustomerLabels \ {"queued", "await_order", "await_food"}
  PROVE  /\ ~ InLine(c) /\ ~ InHand(c) /\ ~ Called(c) /\ ~ Listed(c) /\ ~ Cooking(c)
         /\ ~ Marked(c) /\ ~ Serving(c) /\ cus[c] = 0
<1>1. StageOf(c) /\ cus[c] \in Nat
  BY DEF StageInv, TypeOK
<1>2. ~ Untold(c) /\ ~ ToldOnce(c)
  BY DEF Untold, ToldOnce
<1>3. cus[c] = 0
  BY <1>1 DEF StageOf
<1>4. QED
  BY <1>1, <1>2, <1>3 DEF StageOf

\* After the cleanup nothing is left to do.
LEMMA NothingLeft ==
  ASSUME TypeInv, PlaceInv, ~ ipc
  PROVE  /\ \A c \in Customers : cpc[c] = "left"
         /\ \A w \in Waiters : WQ[w] = <<>> /\ FR[w] = NOBODY /\ ~ Busy(w)
         /\ CQ = <<>> /\ \A k \in Cooks : ~ Stove(k)
<1>0. TypeOK /\ HandInv /\ DoorInv /\ LineInv /\ StageInv
  BY DEF TypeInv, PlaceInv
<1>1. \A c \in Customers : cpc[c] = "left"
  BY <1>0 DEF DoorInv
<1>2. ASSUME NEW c \in Customers
      PROVE  /\ ~ InLine(c) /\ ~ InHand(c) /\ ~ Called(c) /\ ~ Listed(c) /\ ~ Cooking(c)
             /\ ~ Marked(c) /\ ~ Serving(c)
  BY <1>0, <1>1, NoPlaces DEF CustomerLabels
<1>3. ASSUME NEW w \in Waiters
      PROVE  WQ[w] = <<>> /\ FR[w] = NOBODY /\ ~ Busy(w)
  <2>1. WQ[w] = <<>>
    <3>1. SUFFICES ASSUME WQ[w] # <<>> PROVE FALSE
      OBVIOUS
    <3>2. WQ[w] \in Seq(Customers)
      BY <1>0 DEF TypeOK
    <3>3. WQ[w][1] \in Customers /\ 1 \in DOMAIN WQ[w]
      <4>1. /\ Head(WQ[w]) \in Customers /\ Head(WQ[w]) = WQ[w][1] /\ Len(WQ[w]) \in Nat
            /\ Len(WQ[w]) >= 1 /\ DOMAIN WQ[w] = 1 .. Len(WQ[w])
        BY <3>1, <3>2, FirstAndRest
      <4>2. QED
        BY <4>1
    <3>4. cwaiter[WQ[w][1]] = w
      BY <1>0, <3>3 DEF LineInv
    <3>5. InLine(WQ[w][1])
      BY <3>3, <3>4 DEF InLine
    <3>6. QED
      BY <1>2, <3>3, <3>5
  <2>2. FR[w] = NOBODY
    <3>1. FR[w] # NOBODY => FR[w] \in Customers /\ cwaiter[FR[w]] = w
      BY <1>0 DEF TypeOK, LineInv
    <3>2. QED
      BY <1>2, <3>1 DEF Marked
  <2>3. ~ Busy(w)
    <3>1. SUFFICES ASSUME Busy(w) PROVE FALSE
      OBVIOUS
    <3>2. wcus[w] \in Customers /\ cwaiter[wcus[w]] = w
      BY <1>0, <3>1 DEF HandInv, LineInv
    <3>3. InHand(wcus[w]) \/ Called(wcus[w]) \/ Serving(wcus[w])
      BY <3>1, <3>2 DEF Busy, InHand, Called, Serving
    <3>4. QED
      BY <1>2, <3>2, <3>3
  <2>4. QED
    BY <2>1, <2>2, <2>3
<1>4. CQ = <<>>
  <2>1. SUFFICES ASSUME CQ # <<>> PROVE FALSE
    OBVIOUS
  <2>2. CQ \in Seq(Orders)
    BY <1>0 DEF TypeOK
  <2>3. 1 \in DOMAIN CQ
    <3>1. Len(CQ) \in Nat /\ Len(CQ) >= 1 /\ DOMAIN CQ = 1 .. Len(CQ)
      BY <2>1, <2>2, FirstAndRest
    <3>2. QED
      BY <3>1
  <2>4. PICK c \in Customers : c = CQ[1].cus_id
    BY <1>0, <2>3 DEF HandInv
  <2>5. QED
    BY <1>2, <2>3, <2>4 DEF Listed
<1>5. \A k \in Cooks : ~ Stove(k)
  BY <1>0, <1>2 DEF HandInv, Cooking
<1>6. QED
  BY <1>1, <1>3, <1>4, <1>5

\* A customer nothing happened to is where it was.
LEMMA StageKept ==
  ASSUME NEW c \in Customers, StageOf(c), cpc'[c] = cpc[c], cus'[c] = cus[c],
         cwaiter'[c] = cwaiter[c],
         InLine(c)' <=> InLine(c), InHand(c)' <=> InHand(c), Called(c)' <=> Called(c),
         Listed(c)' <=> Listed(c), Cooking(c)' <=> Cooking(c), Marked(c)' => Marked(c),
         Serving(c)' <=> Serving(c),
         Serving(c) /\ wpc'[cwaiter[c]] = "bring" /\ wpc[cwaiter[c]] # "bring" => ~ Marked(c)'
  PROVE  StageOf(c)'
BY DEF StageOf, Untold, ToldOnce

\* What the other customers and the staff hold when customer d acts.
LEMMA CustomerLeaves ==
  ASSUME TypeOK, NEW d \in Customers, CustomerStep(d)
  PROVE  /\ CQ' = CQ /\ FR' = FR /\ PO' = PO /\ wpc' = wpc /\ wcus' = wcus /\ kpc' = kpc
         /\ korder' = korder /\ ipc' = ipc /\ file' = file /\ arrived' = arrived /\ cook' = cook
         /\ \A c \in Customers \ {d} : cpc'[c] = cpc[c] /\ cus'[c] = cus[c] /\ cwaiter'[c] = cwaiter[c]
<1>1. /\ CQ' = CQ /\ FR' = FR /\ PO' = PO /\ wpc' = wpc /\ wcus' = wcus /\ kpc' = kpc
      /\ korder' = korder /\ ipc' = ipc /\ file' = file /\ arrived' = arrived /\ cook' = cook
  BY DEF CustomerStep, Enter, ChooseWaiter, eq_WQ, WakeWaiter, AwaitSignal, Eat,
     CheckEatingTime, SetEatingTime, FreeTable, M, sems, waiters, cooks
<1>2. ASSUME NEW c \in Customers \ {d}
      PROVE  cpc'[c] = cpc[c] /\ cus'[c] = cus[c] /\ cwaiter'[c] = cwaiter[c]
  <2>1. cpc'[c] = cpc[c]
    BY DEF TypeOK, CustomerStep, CustomerGoes, Enter, ChooseWaiter, eq_WQ, WakeWaiter, AwaitSignal,
       Eat, CheckEatingTime, SetEatingTime, FreeTable
  <2>2. cus'[c] = cus[c]
    BY DEF TypeOK, CustomerStep, Enter, ChooseWaiter, eq_WQ, WakeWaiter, AwaitSignal, Eat,
       CheckEatingTime, SetEatingTime, FreeTable, sems
  <2>3. cwaiter'[c] = cwaiter[c]
    BY DEF TypeOK, CustomerStep, Enter, ChooseWaiter, eq_WQ, WakeWaiter, AwaitSignal, Eat,
       CheckEatingTime, SetEatingTime, FreeTable
  <2>4. QED
    BY <2>1, <2>2, <2>3
<1>3. QED
  BY <1>1, <1>2

\* The customers' steps keep the door: who has come, and who may clean up.
LEMMA CustomerDoor ==
  ASSUME TypeOK, DoorInv, NEW d \in Customers, CustomerStep(d)
  PROVE  DoorInv'
<1>1. ipc /\ ipc' = ipc /\ arrived' = arrived
  BY CustomerLeaves DEF DoorInv, CustomerStep, Enter, ChooseWaiter, eq_WQ, WakeWaiter, AwaitSignal,
     Eat, CheckEatingTime, SetEatingTime, FreeTable, TypeOK
<1>2. cpc[d] # "absent" /\ cpc'[d] # "absent"
  BY DEF TypeOK, CustomerStep, CustomerGoes, Enter, ChooseWaiter, eq_WQ, WakeWaiter, AwaitSignal,
     Eat, CheckEatingTime, SetEatingTime, FreeTable
<1>3. \A c \in Customers \ {d} : cpc'[c] = cpc[c]
  BY CustomerLeaves
<1>4. QED
  BY <1>1, <1>2, <1>3 DEF DoorInv

\* A customer joins the queue of the waiter it chose.
LEMMA JoinPlaces ==
  ASSUME TypeOK, HandInv, LineInv, StageInv, NEW d \in Customers, eq_WQ(d)
  PROVE  LineInv' /\ StageInv'
<1>1. PICK w \in Waiters : w = cwaiter[d]
  BY DEF TypeOK
<1>2. /\ cwaiter' = cwaiter /\ WQ' = [WQ EXCEPT ![w] = Append(WQ[w], d)] /\ cpc[d] = "chosen"
      /\ cpc' = [cpc EXCEPT ![d] = "queued"] /\ cus' = cus
  BY <1>1 DEF eq_WQ, CustomerGoes, sems
<1>3. /\ CQ' = CQ /\ FR' = FR /\ wpc' = wpc /\ wcus' = wcus /\ kpc' = kpc /\ korder' = korder
  BY CustomerLeaves DEF CustomerStep
<1>4. /\ ~ InLine(d) /\ ~ InHand(d) /\ ~ Called(d) /\ ~ Listed(d) /\ ~ Cooking(d)
      /\ ~ Marked(d) /\ ~ Serving(d) /\ cus[d] = 0
  BY <1>2, NoPlaces DEF CustomerLabels
<1>5. WQ[w] \in Seq(Customers) /\ \A v \in Waiters \ {w} : WQ'[v] = WQ[v]
  BY <1>2 DEF TypeOK
<1>6. WQ'[w] = Append(WQ[w], d)
  BY <1>2 DEF TypeOK
<1>7. /\ Len(WQ[w]) \in Nat /\ DOMAIN WQ[w] = 1 .. Len(WQ[w])
      /\ DOMAIN WQ'[w] = 1 .. Len(WQ[w]) + 1
      /\ \A i \in DOMAIN WQ[w] : WQ'[w][i] = WQ[w][i]
      /\ WQ'[w][Len(WQ[w]) + 1] = d
  BY <1>5, <1>6, AppendedQueue
<1>8. \A i \in DOMAIN WQ[w] : WQ[w][i] # d
  BY <1>1, <1>4 DEF InLine
<1>9. \A v \in Waiters : QueueLine(v) /\ HandLine(v) /\ MarkLine(v)
  BY LineParts
<1>10. ASSUME NEW v \in Waiters
       PROVE  QueueLine(v)' /\ HandLine(v)' /\ MarkLine(v)'
  <2>1. HandLine(v)' /\ MarkLine(v)'
    BY <1>2, <1>3, <1>9 DEF HandLine, MarkLine, Busy, AtTable
  <2>2. CASE v # w
    BY <1>2, <1>5, <1>9, <2>1, <2>2 DEF QueueLine
  <2>3. CASE v = w
    <3>1. \A i \in DOMAIN WQ'[w] : i \in DOMAIN WQ[w] \/ (i = Len(WQ[w]) + 1 /\ i \notin DOMAIN WQ[w])
      BY <1>7
    <3>2. QueueLine(w)'
      BY <1>1, <1>2, <1>7, <1>8, <1>9, <3>1 DEF QueueLine
    <3>3. QED
      BY <2>1, <2>3, <3>2
  <2>4. QED
    BY <2>2, <2>3
<1>11. OrderLine' /\ CookLine'
  BY <1>2, <1>3, LineParts DEF OrderLine, CookLine, Stove
<1>12. ASSUME NEW c \in Customers
       PROVE  StageOf(c)'
  <2>1. /\ InHand(c)' <=> InHand(c)
        /\ Called(c)' <=> Called(c)
        /\ Listed(c)' <=> Listed(c)
        /\ Cooking(c)' <=> Cooking(c)
        /\ Marked(c)' <=> Marked(c)
        /\ Serving(c)' <=> Serving(c)
    BY <1>2, <1>3 DEF InHand, Called, Listed, Cooking, Marked, Serving, AtTable, Stove
  <2>2. StageOf(c) /\ cwaiter[c] \in Waiters /\ cwaiter'[c] = cwaiter[c] /\ cus'[c] = cus[c]
    BY <1>2 DEF StageInv, TypeOK
  <2>3. CASE c # d
    <3>1. InLine(c)' <=> InLine(c)
      <4>1. CASE cwaiter[c] # w
        BY <1>2, <1>5, <2>2, <4>1 DEF InLine
      <4>2. CASE cwaiter[c] = w
        <5>1. \A i \in DOMAIN WQ'[w] : i \in DOMAIN WQ[w] \/ i = Len(WQ[w]) + 1
          BY <1>7
        <5>2. DOMAIN WQ[w] \subseteq DOMAIN WQ'[w]
          BY <1>7
        <5>3. QED
          BY <1>2, <1>7, <2>2, <2>3, <4>2, <5>1, <5>2 DEF InLine
      <4>3. QED
        BY <4>1, <4>2
    <3>2. cpc'[c] = cpc[c] /\ wpc' = wpc
      BY <1>2, <1>3, <2>3 DEF TypeOK
    <3>3. QED
      BY <2>1, <2>2, <3>1, <3>2, StageKept
  <2>4. CASE c = d
    <3>1. InLine(c)'
      <4>1. Len(WQ[w]) + 1 \in DOMAIN WQ'[w]
        BY <1>7
      <4>2. QED
        BY <1>1, <1>2, <1>7, <2>4, <4>1 DEF InLine
    <3>2. cpc'[c] = "queued" /\ cus'[c] = 0
      BY <1>2, <1>4, <2>4 DEF TypeOK
    <3>3. QED
      BY <1>4, <2>1, <2>4, <3>1, <3>2 DEF StageOf, Untold, ToldOnce
  <2>5. QED
    BY <2>3, <2>4
<1>13. QED
  BY <1>10, <1>11, <1>12, LineParts DEF StageInv

\* A customer without a wish chooses its waiter.
LEMMA ChoicePlaces ==
  ASSUME TypeOK, HandInv, LineInv, StageInv, NEW d \in Customers, ChooseWaiter(d)
  PROVE  LineInv' /\ StageInv'
<1>1. /\ cwaiter' = [cwaiter EXCEPT ![d] = NWid] /\ cpc[d] = "seated" /\ WQ' = WQ
      /\ cpc' = [cpc EXCEPT ![d] = "chosen"] /\ cus' = cus /\ NWid \in Waiters
  BY DEF ChooseWaiter, CustomerGoes, sems, TypeOK
<1>3. /\ CQ' = CQ /\ FR' = FR /\ wpc' = wpc /\ wcus' = wcus /\ kpc' = kpc /\ korder' = korder
  BY CustomerLeaves DEF CustomerStep
<1>4. /\ ~ InLine(d) /\ ~ InHand(d) /\ ~ Called(d) /\ ~ Listed(d) /\ ~ Cooking(d)
      /\ ~ Marked(d) /\ ~ Serving(d) /\ cus[d] = 0
  BY <1>1, NoPlaces DEF CustomerLabels
<1>5. \A v \in Waiters : QueueLine(v) /\ HandLine(v) /\ MarkLine(v)
  BY LineParts
<1>6. \A c \in Customers : c # d => cwaiter'[c] = cwaiter[c]
  BY <1>1 DEF TypeOK
<1>7. ASSUME NEW v \in Waiters
      PROVE  /\ \A i \in DOMAIN WQ[v] : WQ[v][i] \in Customers /\ WQ[v][i] # d
             /\ Busy(v) => wcus[v] \in Customers /\ wcus[v] # d
             /\ FR[v] # NOBODY => FR[v] \in Customers /\ FR[v] # d
  <2>1. ASSUME NEW i \in DOMAIN WQ[v]
        PROVE  WQ[v][i] \in Customers /\ WQ[v][i] # d
    <3>1. WQ[v] \in Seq(Customers)
      BY DEF TypeOK
    <3>2. WQ[v][i] \in Customers
      BY <3>1, <2>1
    <3>3. WQ[v][i] # d
      BY <1>4, <1>5 DEF QueueLine, InLine
    <3>4. QED
      BY <3>2, <3>3
  <2>2. Busy(v) => wcus[v] \in Customers /\ wcus[v] # d
    BY <1>4, <1>5 DEF HandInv, HandLine, Busy, InHand, Called, Serving
  <2>3. FR[v] # NOBODY => FR[v] \in Customers /\ FR[v] # d
    BY <1>4, <1>5 DEF TypeOK, MarkLine, Marked
  <2>4. QED
    BY <2>1, <2>2, <2>3
<1>8. /\ \A i \in DOMAIN CQ : CQ[i].cus_id \in Customers /\ CQ[i].cus_id # d
      /\ \A k \in Cooks : Stove(k) => korder[k].cus_id \in Customers /\ korder[k].cus_id # d
  BY <1>4 DEF HandInv, Listed, Cooking
<1>9. ASSUME NEW v \in Waiters
      PROVE  QueueLine(v)' /\ HandLine(v)' /\ MarkLine(v)'
  <2>1. QueueLine(v)'
    BY <1>1, <1>5, <1>6, <1>7 DEF QueueLine
  <2>2. HandLine(v)' /\ MarkLine(v)'
    BY <1>3, <1>5, <1>6, <1>7 DEF HandLine, MarkLine, Busy, AtTable
  <2>3. QED
    BY <2>1, <2>2
<1>10. OrderLine' /\ CookLine'
  <2>1. OrderLine /\ CookLine
    BY LineParts
  <2>2. OrderLine'
    BY <1>3, <1>6, <1>8, <2>1 DEF OrderLine
  <2>3. CookLine'
    BY <1>3, <1>6, <1>8, <2>1 DEF CookLine, Stove
  <2>4. QED
    BY <2>2, <2>3
<1>11. ASSUME NEW c \in Customers
       PROVE  StageOf(c)'
  <2>1. (Listed(c)' <=> Listed(c)) /\ (Cooking(c)' <=> Cooking(c))
    BY <1>3 DEF Listed, Cooking, Stove
  <2>2. CASE c # d
    <3>1. cpc'[c] = cpc[c] /\ wpc' = wpc /\ cwaiter'[c] = cwaiter[c] /\ cus'[c] = cus[c]
      BY <1>1, <1>3, <1>6, <2>2 DEF TypeOK
    <3>2. /\ InLine(c)' <=> InLine(c)
          /\ InHand(c)' <=> InHand(c)
          /\ Called(c)' <=> Called(c)
          /\ Marked(c)' <=> Marked(c)
          /\ Serving(c)' <=> Serving(c)
      BY <1>1, <1>3, <3>1 DEF InLine, InHand, Called, Marked, Serving, AtTable
    <3>3. QED
      BY <2>1, <3>1, <3>2, StageKept DEF StageInv
  <2>3. CASE c = d
    <3>1. cwaiter'[d] = NWid /\ cpc'[d] = "chosen" /\ cus'[d] = 0
      BY <1>1, <1>4 DEF TypeOK
    <3>2. /\ ~ InLine(d)'
          /\ ~ Marked(d)'
      <4>1. d # NOBODY
        BY Sizes
      <4>2. QED
        BY <1>1, <1>3, <1>7, <3>1, <4>1 DEF InLine, Marked
    <3>3. /\ ~ InHand(d)'
          /\ ~ Called(d)'
          /\ ~ Serving(d)'
      BY <1>1, <1>3, <1>7, <3>1 DEF InHand, Called, Serving, Busy, AtTable
    <3>4. QED
      BY <1>4, <2>1, <2>3, <3>1, <3>2, <3>3 DEF StageOf, Untold, ToldOnce
  <2>4. QED
    BY <2>2, <2>3
<1>12. QED
  BY <1>9, <1>10, <1>11, LineParts DEF StageInv

\* The other steps of a customer move no wish.
LEMMA OtherCustomerPlaces ==
  ASSUME TypeOK, LineInv, StageInv, NEW d \in Customers, CustomerStep(d),
         ~ ChooseWaiter(d), ~ eq_WQ(d)
  PROVE  LineInv' /\ StageInv'
<1>1. /\ cwaiter' = cwaiter /\ WQ' = WQ
  BY DEF CustomerStep, Enter, WakeWaiter, AwaitSignal, Eat, CheckEatingTime, SetEatingTime,
     FreeTable, M
<1>2. /\ CQ' = CQ /\ FR' = FR /\ wpc' = wpc /\ wcus' = wcus /\ kpc' = kpc /\ korder' = korder
  BY CustomerLeaves
<1>3. LineInv'
  BY <1>1, <1>2 DEF LineInv, Busy, AtTable, Stove
<1>4. ASSUME NEW c \in Customers
      PROVE  StageOf(c)'
  <2>1. /\ InLine(c)' <=> InLine(c)
        /\ InHand(c)' <=> InHand(c)
        /\ Called(c)' <=> Called(c)
        /\ Listed(c)' <=> Listed(c)
        /\ Cooking(c)' <=> Cooking(c)
        /\ Marked(c)' <=> Marked(c)
        /\ Serving(c)' <=> Serving(c)
    BY <1>1, <1>2 DEF InLine, InHand, Called, Listed, Cooking, Marked, Serving, AtTable, Stove
  <2>2. StageOf(c) /\ cwaiter'[c] = cwaiter[c]
    BY <1>1 DEF StageInv
  <2>3. CASE c # d
    BY <1>2, <2>1, <2>2, <2>3, StageKept, CustomerLeaves
  <2>4. CASE c = d
    <3>1. CASE AwaitSignal(d)
      <4>1. /\ cus[d] \in Nat /\ cus[d] > 0 /\ cus'[d] = cus[d] - 1
            /\ \/ cpc[d] = "await_order" /\ cpc'[d] = "await_food"
               \/ cpc[d] = "await_food" /\ cpc'[d] = "served"
        BY <3>1 DEF AwaitSignal, CustomerGoes, TypeOK
      <4>2. QED
        BY <1>2, <2>1, <2>2, <2>4, <4>1 DEF StageOf, Untold, ToldOnce
    <3>2. CASE WakeWaiter(d)
      <4>1. cpc[d] = "queued" /\ cpc'[d] = "await_order" /\ cus' = cus
        BY <3>2 DEF WakeWaiter, CustomerGoes, TypeOK
      <4>2. QED
        BY <1>2, <2>1, <2>2, <2>4, <4>1 DEF StageOf, Untold, ToldOnce
    <3>3. CASE ~ (AwaitSignal(d) \/ WakeWaiter(d))
      <4>1. /\ cpc[d] \notin {"queued", "await_order", "await_food"} /\ cus' = cus
            /\ cpc'[d] \notin {"queued", "await_order", "await_food"}
        BY <3>3 DEF CustomerStep, Enter, Eat, CheckEatingTime, SetEatingTime, FreeTable,
           CustomerGoes, TypeOK, sems
      <4>2. QED
        BY <1>2, <2>1, <2>2, <2>4, <4>1 DEF StageOf, Untold, ToldOnce
    <3>4. QED
      BY <3>1, <3>2, <3>3
  <2>5. QED
    BY <2>3, <2>4
<1>5. QED
  BY <1>3, <1>4 DEF StageInv

\* The customers' steps keep everybody's place.
LEMMA CustomerPlaces ==
  ASSUME TypeInv, PlaceInv, NEW d \in Customers, CustomerStep(d)
  PROVE  PlaceInv'
BY CustomerDoor, JoinPlaces, ChoicePlaces, OtherCustomerPlaces DEF TypeInv, PlaceInv

\* The steps of the customers' wrapper keep everybody's place.
LEMMA WrapperPlaces ==
  ASSUME TypeInv, PlaceInv, Arrive \/ Cleanup
  PROVE  PlaceInv'
<1>0. TypeOK /\ HandInv /\ DoorInv /\ LineInv /\ StageInv
  BY DEF TypeInv, PlaceInv
<1>1. /\ cwaiter' = cwaiter /\ WQ' = WQ /\ cus' = cus
      /\ CQ' = CQ /\ FR' = FR /\ wpc' = wpc /\ wcus' = wcus /\ kpc' = kpc /\ korder' = korder
  BY DEF Arrive, Cleanup, M, sems, customers, waiters, cooks
<1>2. LineInv'
  BY <1>0, <1>1 DEF LineInv, Busy, AtTable, Stove
<1>3. ASSUME NEW c \in Customers
      PROVE  /\ InLine(c)' <=> InLine(c)
             /\ InHand(c)' <=> InHand(c)
             /\ Called(c)' <=> Called(c)
             /\ Listed(c)' <=> Listed(c)
             /\ Cooking(c)' <=> Cooking(c)
             /\ Marked(c)' <=> Marked(c)
             /\ Serving(c)' <=> Serving(c)
             /\ StageOf(c)
  BY <1>0, <1>1 DEF InLine, InHand, Called, Listed, Cooking, Marked, Serving, AtTable, Stove, StageInv
<1>4. CASE Cleanup
  <2>1. cpc' = cpc /\ arrived' = arrived /\ \A c \in Customers : cpc[c] = "left"
    BY <1>4 DEF Cleanup, customers
  <2>2. DoorInv'
    BY <1>0, <2>1 DEF DoorInv
  <2>3. StageInv'
    BY <1>1, <1>3, <2>1, StageKept DEF StageInv
  <2>4. QED
    BY <1>2, <2>2, <2>3 DEF PlaceInv
<1>5. CASE Arrive
  <2>1. PICK d \in Customers : d = arrived + 1
    BY <1>5 DEF Arrive
  <2>2. cpc' = [cpc EXCEPT ![d] = "door"] /\ arrived' = d /\ ipc' = ipc /\ arrived \in Nat /\ d \in Nat
    BY <1>0, <1>5, <2>1, Sizes DEF Arrive, CustomerGoes, TypeOK
  <2>3. cpc[d] = "absent"
    BY <1>0, <2>1, <2>2 DEF DoorInv
  <2>4. cpc'[d] = "door" /\ \A c \in Customers : c # d => cpc'[c] = cpc[c]
    BY <1>0, <2>2 DEF TypeOK
  <2>5. DoorInv'
    <3>1. ASSUME NEW c \in Customers
          PROVE  cpc'[c] = "absent" <=> c > arrived'
      <4>1. c \in Nat /\ (c # d => (cpc[c] = "absent" <=> c > arrived))
        BY <1>0, Sizes DEF DoorInv
      <4>2. QED
        BY <2>1, <2>2, <2>4, <4>1
    <3>2. ipc
      BY <1>0, <2>3 DEF DoorInv
    <3>3. QED
      BY <2>2, <3>1, <3>2, <1>0 DEF DoorInv, TypeOK
  <2>6. StageInv'
    <3>1. ASSUME NEW c \in Customers
          PROVE  StageOf(c)'
      <4>1. CASE c # d
        BY <1>1, <1>3, <2>4, <4>1, StageKept
      <4>2. CASE c = d
        BY <1>1, <1>3, <2>3, <2>4, <4>2 DEF StageOf, Untold, ToldOnce
      <4>3. QED
        BY <4>1, <4>2
    <3>2. QED
      BY <3>1 DEF StageInv
  <2>7. QED
    BY <1>2, <2>5, <2>6 DEF PlaceInv
<1>6. QED
  BY <1>4, <1>5

\* What the customers, the cooks and the other waiters hold when waiter w acts.
LEMMA WaiterLeaves ==
  ASSUME TypeOK, NEW w \in Waiters, WaiterStep(w)
  PROVE  /\ cpc' = cpc /\ cwaiter' = cwaiter /\ arrived' = arrived /\ file' = file /\ ipc' = ipc
         /\ kpc' = kpc /\ korder' = korder
         /\ \A v \in Waiters \ {w} : /\ wpc'[v] = wpc[v] /\ wcus'[v] = wcus[v] /\ FR'[v] = FR[v]
                                     /\ WQ'[v] = WQ[v] /\ PO'[v] = PO[v] /\ waiter'[v] = waiter[v]
         /\ ~ eq_CQ(w) => CQ' = CQ
         /\ ~ dq_WQ(w) => WQ' = WQ
         /\ ~ Serve(w) => FR' = FR
         /\ ~ CallCustomer(w) => cus' = cus
<1>1. /\ cpc' = cpc /\ cwaiter' = cwaiter /\ arrived' = arrived /\ file' = file /\ ipc' = ipc
      /\ kpc' = kpc /\ korder' = korder
  BY DEF WaiterStep, WaitForWork, Look, dq_WQ, CheckTakingTime, SetTakingTime, BookOrder, eq_CQ,
     CallCook, CallCustomer, Serve, WaiterFails, customers, cooks
<1>2. ASSUME NEW v \in Waiters \ {w}
      PROVE  /\ wpc'[v] = wpc[v] /\ wcus'[v] = wcus[v] /\ FR'[v] = FR[v]
             /\ WQ'[v] = WQ[v] /\ PO'[v] = PO[v] /\ waiter'[v] = waiter[v]
  <2>1. wpc'[v] = wpc[v]
    BY WaiterGoesOn
  <2>2. wcus'[v] = wcus[v]
    BY DEF TypeOK, WaiterStep, WaitForWork, Look, dq_WQ, CheckTakingTime, SetTakingTime,
       BookOrder, eq_CQ, CallCook, CallCustomer, Serve, WaiterFails
  <2>3. FR'[v] = FR[v] /\ WQ'[v] = WQ[v] /\ PO'[v] = PO[v]
    BY DEF TypeOK, WaiterStep, WaitForWork, Look, dq_WQ, CheckTakingTime, SetTakingTime,
       BookOrder, eq_CQ, CallCook, CallCustomer, Serve, WaiterFails, M
  <2>4. waiter'[v] = waiter[v]
    BY DEF TypeOK, WaiterStep, WaitForWork, Look, dq_WQ, CheckTakingTime, SetTakingTime,
       BookOrder, eq_CQ, CallCook, CallCustomer, Serve, WaiterFails, sems
  <2>5. QED
    BY <2>1, <2>2, <2>3, <2>4
<1>3. /\ ~ eq_CQ(w) => CQ' = CQ
      /\ ~ dq_WQ(w) => WQ' = WQ
      /\ ~ Serve(w) => FR' = FR
  BY DEF WaiterStep, WaitForWork, Look, dq_WQ, CheckTakingTime, SetTakingTime, BookOrder, eq_CQ,
     CallCook, CallCustomer, Serve, WaiterFails, M
<1>4. ~ CallCustomer(w) => cus' = cus
  BY DEF WaiterStep, WaitForWork, Look, dq_WQ, CheckTakingTime, SetTakingTime, BookOrder, eq_CQ,
     CallCook, Serve, WaiterFails, sems
<1>5. QED
  BY <1>1, <1>2, <1>3, <1>4

\* Whose customer is not w's keeps its place when w acts.
LEMMA OthersWish ==
  ASSUME TypeOK, HandInv, LineInv, StageInv, NEW w \in Waiters, WaiterStep(w),
         NEW c \in Customers, cwaiter[c] # w
  PROVE  StageOf(c)'
<1>1. /\ cpc' = cpc /\ cwaiter' = cwaiter /\ kpc' = kpc /\ korder' = korder
      /\ \A v \in Waiters \ {w} : /\ wpc'[v] = wpc[v] /\ wcus'[v] = wcus[v] /\ FR'[v] = FR[v]
                                  /\ WQ'[v] = WQ[v]
  BY WaiterLeaves
<1>2. cwaiter[c] \in Waiters \ {w} /\ StageOf(c)
  BY DEF TypeOK, StageInv
<1>3. /\ InLine(c)' <=> InLine(c)
      /\ InHand(c)' <=> InHand(c)
      /\ Called(c)' <=> Called(c)
      /\ Cooking(c)' <=> Cooking(c)
      /\ Marked(c)' <=> Marked(c)
      /\ Serving(c)' <=> Serving(c)
  BY <1>1, <1>2 DEF InLine, InHand, Called, Cooking, Marked, Serving, AtTable, Stove
<1>4. Listed(c)' <=> Listed(c)
  <2>1. CASE eq_CQ(w)
    <3>1. PICK d \in Customers : d = wcus[w]
      BY <2>1 DEF eq_CQ, HandInv, Busy, AtTable
    <3>2. d # c
      BY <2>1, <3>1 DEF eq_CQ, LineInv, Busy, AtTable
    <3>3. CQ \in Seq(Orders)
      BY DEF TypeOK
    <3>6. file.count[d] \in 0 .. 4
      BY FileFields
    <3>4. PICK o \in Orders : o = [waiter_id |-> w, cus_id |-> d, cus_cnt |-> file.count[d]]
      BY <3>6 DEF Orders
    <3>5. CQ' = Append(CQ, o) /\ o.cus_id = d
      BY <2>1, <3>1, <3>4 DEF eq_CQ
    <3>7. /\ Len(CQ) \in Nat /\ DOMAIN CQ = 1 .. Len(CQ)
          /\ DOMAIN CQ' = 1 .. Len(CQ) + 1
          /\ \A i \in DOMAIN CQ : CQ'[i] = CQ[i]
          /\ CQ'[Len(CQ) + 1] = o
      BY <3>3, <3>5, AppendedQueue
    <3>8. DOMAIN CQ \subseteq DOMAIN CQ' /\ \A i \in DOMAIN CQ' : i \in DOMAIN CQ \/ i = Len(CQ) + 1
      BY <3>7
    <3>9. QED
      BY <3>2, <3>5, <3>7, <3>8 DEF Listed
  <2>2. CASE ~ eq_CQ(w)
    BY <2>2, WaiterLeaves DEF Listed
  <2>3. QED
    BY <2>1, <2>2
<1>5. cus'[c] = cus[c]
  <2>1. CASE CallCustomer(w)
    <3>1. wcus[w] \in Customers /\ wcus[w] # c
      BY <2>1 DEF CallCustomer, HandInv, LineInv, Busy
    <3>2. QED
      BY <2>1, <3>1 DEF CallCustomer, TypeOK
  <2>2. CASE ~ CallCustomer(w)
    BY <2>2, WaiterLeaves
  <2>3. QED
    BY <2>1, <2>2
<1>6. cpc'[c] = cpc[c] /\ cwaiter'[c] = cwaiter[c] /\ wpc'[cwaiter[c]] = wpc[cwaiter[c]]
  BY <1>1, <1>2
<1>7. QED
  BY <1>2, <1>3, <1>4, <1>5, <1>6, StageKept

\* A waiter takes the next customer's wish from its queue.
LEMMA TakePlaces ==
  ASSUME TypeOK, HandInv, LineInv, StageInv, NEW w \in Waiters, dq_WQ(w)
  PROVE  LineInv' /\ StageInv'
<1>0. WaiterStep(w)
  BY DEF WaiterStep
<1>1. /\ cpc' = cpc /\ cwaiter' = cwaiter /\ kpc' = kpc /\ korder' = korder /\ CQ' = CQ /\ cus' = cus
      /\ FR' = FR
      /\ \A v \in Waiters \ {w} : /\ wpc'[v] = wpc[v] /\ wcus'[v] = wcus[v] /\ WQ'[v] = WQ[v]
  BY <1>0, WaiterLeaves DEF dq_WQ, sems
<1>2. OrderLine' /\ CookLine'
  BY <1>1, LineParts DEF OrderLine, CookLine, Stove
<1>3. \A v \in Waiters : QueueLine(v) /\ HandLine(v) /\ MarkLine(v)
  BY LineParts
<1>4. ASSUME NEW v \in Waiters \ {w}
      PROVE  QueueLine(v)' /\ HandLine(v)' /\ MarkLine(v)'
  BY <1>1, <1>3 DEF QueueLine, HandLine, MarkLine, Busy, AtTable
<1>5. MarkLine(w)'
  BY <1>1, <1>3 DEF MarkLine
<1>6. wpc[w] = "take"
  BY DEF dq_WQ
<1>7. CASE WQ[w] = <<>>
  <2>1. WQ' = WQ /\ wcus' = wcus /\ wpc'[w] \in {"left", "idle"}
    BY <1>7 DEF dq_WQ, WaiterGoes, TypeOK
  <2>2. QueueLine(w)' /\ HandLine(w)'
    BY <1>1, <1>3, <2>1 DEF QueueLine, HandLine, Busy, AtTable
  <2>3. ASSUME NEW c \in Customers
        PROVE  StageOf(c)'
    <3>1. CASE cwaiter[c] # w
      BY <1>0, <3>1, OthersWish
    <3>2. CASE cwaiter[c] = w
      <4>1. /\ InLine(c)' <=> InLine(c)
            /\ Listed(c)' <=> Listed(c)
            /\ Cooking(c)' <=> Cooking(c)
            /\ Marked(c)' <=> Marked(c)
        BY <1>1, <2>1 DEF InLine, Listed, Cooking, Marked, Stove
      <4>2. /\ InHand(c)' <=> InHand(c)
            /\ Called(c)' <=> Called(c)
            /\ Serving(c)' <=> Serving(c)
            /\ wpc'[cwaiter[c]] # "bring"
        BY <1>1, <1>6, <2>1, <3>2 DEF InHand, Called, Serving, AtTable
      <4>3. QED
        BY <1>1, <4>1, <4>2, StageKept DEF StageInv
    <3>3. QED
      BY <3>1, <3>2
  <2>4. QED
    BY <1>2, <1>4, <1>5, <2>2, <2>3, LineParts DEF StageInv
<1>8. CASE WQ[w] # <<>>
  <2>1. PICK d \in Customers : d = Head(WQ[w])
    BY <1>8, FirstAndRest DEF TypeOK
  <2>2. wpc'[w] = "order" /\ wcus'[w] = d /\ WQ'[w] = Tail(WQ[w])
    BY <1>8, <2>1 DEF dq_WQ, WaiterGoes, TypeOK
  <2>3. WQ[w] \in Seq(Customers)
    BY DEF TypeOK
  <2>4. /\ d = WQ[w][1] /\ Len(WQ[w]) \in Nat /\ Len(WQ[w]) >= 1 /\ DOMAIN WQ[w] = 1 .. Len(WQ[w])
        /\ DOMAIN WQ'[w] = 1 .. Len(WQ[w]) - 1
        /\ \A i \in 1 .. Len(WQ[w]) - 1 : WQ'[w][i] = WQ[w][i + 1]
    BY <1>8, <2>1, <2>2, <2>3, FirstAndRest
  <2>5. /\ 1 \in DOMAIN WQ[w]
        /\ \A i \in DOMAIN WQ'[w] : i + 1 \in DOMAIN WQ[w] /\ i + 1 # 1 /\ WQ'[w][i] = WQ[w][i + 1]
        /\ \A i \in DOMAIN WQ[w] : i = 1 \/ (i - 1 \in DOMAIN WQ'[w] /\ WQ'[w][i - 1] = WQ[w][i])
    <3>1. ASSUME NEW i \in DOMAIN WQ'[w]
          PROVE  i + 1 \in DOMAIN WQ[w] /\ i + 1 # 1 /\ WQ'[w][i] = WQ[w][i + 1]
      BY <2>4
    <3>2. ASSUME NEW i \in DOMAIN WQ[w], i # 1
          PROVE  i - 1 \in DOMAIN WQ'[w] /\ WQ'[w][i - 1] = WQ[w][i]
      <4>1. i - 1 \in 1 .. Len(WQ[w]) - 1 /\ (i - 1) + 1 = i
        BY <2>4, <3>2
      <4>2. QED
        BY <2>4, <4>1
    <3>3. 1 \in DOMAIN WQ[w]
      BY <2>4
    <3>4. QED
      BY <3>1, <3>2, <3>3
  <2>6. cwaiter[d] = w
    BY <1>3, <2>4, <2>5 DEF QueueLine
  <2>7. QueueLine(w)'
    <3>1. \A i \in DOMAIN WQ'[w] : cwaiter'[WQ'[w][i]] = w
      BY <1>1, <1>3, <2>5 DEF QueueLine
    <3>2. ASSUME NEW i \in DOMAIN WQ'[w], NEW j \in DOMAIN WQ'[w], WQ'[w][i] = WQ'[w][j]
          PROVE  i = j
      <4>1. i + 1 = j + 1
        BY <1>3, <2>5, <3>2 DEF QueueLine
      <4>2. QED
        BY <2>4, <4>1
    <3>3. QED
      BY <3>1, <3>2 DEF QueueLine
  <2>8. HandLine(w)'
    BY <1>1, <2>2, <2>6 DEF HandLine
  <2>9. ASSUME NEW c \in Customers
        PROVE  StageOf(c)'
    <3>1. CASE cwaiter[c] # w
      BY <1>0, <3>1, OthersWish
    <3>2. CASE cwaiter[c] = w
      <4>1. /\ Listed(c)' <=> Listed(c)
            /\ Cooking(c)' <=> Cooking(c)
            /\ Marked(c)' <=> Marked(c)
        BY <1>1 DEF Listed, Cooking, Marked, Stove
      <4>2. /\ ~ InHand(c)
            /\ ~ Called(c)
            /\ ~ Called(c)'
            /\ ~ Serving(c)
            /\ ~ Serving(c)'
            /\ wpc'[cwaiter[c]] # "bring"
        BY <1>1, <1>6, <2>2, <3>2 DEF InHand, Called, Serving, AtTable
      <4>3. CASE c # d
        <5>1. ~ InHand(c)'
          BY <1>1, <2>2, <3>2, <4>3 DEF InHand
        <5>2. InLine(c)' <=> InLine(c)
          <6>1. ASSUME NEW i \in DOMAIN WQ'[w], WQ'[w][i] = c
                PROVE  InLine(c)
            BY <2>5, <3>2, <6>1 DEF InLine
          <6>2. ASSUME NEW i \in DOMAIN WQ[w], WQ[w][i] = c
                PROVE  i - 1 \in DOMAIN WQ'[w] /\ WQ'[w][i - 1] = c
            BY <2>4, <2>5, <4>3, <6>2
          <6>3. InLine(c) <=> \E i \in DOMAIN WQ[w] : WQ[w][i] = c
            BY <3>2 DEF InLine
          <6>4. InLine(c)' <=> \E i \in DOMAIN WQ'[w] : WQ'[w][i] = c
            BY <1>1, <3>2 DEF InLine
          <6>5. QED
            BY <6>1, <6>2, <6>3, <6>4
        <5>3. QED
          BY <1>1, <4>1, <4>2, <5>1, <5>2, StageKept DEF StageInv
      <4>4. CASE c = d
        <5>1. InHand(c)'
          BY <1>1, <2>2, <3>2, <4>4 DEF InHand, AtTable
        <5>2. InLine(c)
          BY <2>4, <2>5, <3>2, <4>4 DEF InLine
        <5>3. ~ InLine(c)'
          <6>1. SUFFICES ASSUME NEW i \in DOMAIN WQ'[w], WQ'[w][i] = c
                         PROVE  FALSE
            BY <1>1, <3>2 DEF InLine
          <6>2. i + 1 \in DOMAIN WQ[w] /\ WQ[w][i + 1] = d /\ i + 1 # 1
            BY <2>5, <4>4, <6>1
          <6>3. QED
            BY <1>3, <2>4, <2>5, <6>2 DEF QueueLine
        <5>4. StageOf(c) /\ cpc'[c] = cpc[c] /\ cus'[c] = cus[c]
          BY <1>1 DEF StageInv
        <5>5. QED
          BY <4>1, <4>2, <5>1, <5>2, <5>3, <5>4 DEF StageOf, Untold, ToldOnce
      <4>5. QED
        BY <4>3, <4>4
    <3>3. QED
      BY <3>1, <3>2
  <2>10. QED
    BY <1>2, <1>4, <1>5, <2>7, <2>8, <2>9, LineParts DEF StageInv
<1>9. QED
  BY <1>7, <1>8

\* A waiter puts the order into the cooking queue.
LEMMA OrderPlaces ==
  ASSUME TypeOK, HandInv, LineInv, StageInv, NEW w \in Waiters, eq_CQ(w)
  PROVE  LineInv' /\ StageInv'
<1>0. WaiterStep(w)
  BY DEF WaiterStep
<1>1. /\ cpc' = cpc /\ cwaiter' = cwaiter /\ kpc' = kpc /\ korder' = korder /\ cus' = cus
      /\ FR' = FR /\ WQ' = WQ /\ wcus' = wcus /\ wpc[w] = "post" /\ wpc'[w] = "call_cook"
      /\ \A v \in Waiters \ {w} : wpc'[v] = wpc[v]
  BY <1>0, WaiterLeaves DEF eq_CQ, WaiterGoes, TypeOK, sems
<1>2. PICK d \in Customers : d = wcus[w]
  BY DEF eq_CQ, HandInv, Busy, AtTable
<1>3. CQ \in Seq(Orders)
  BY DEF TypeOK
<1>4. file.count[d] \in 0 .. 4
  BY FileFields
<1>5. PICK o \in Orders : o = [waiter_id |-> w, cus_id |-> d, cus_cnt |-> file.count[d]]
  BY <1>4 DEF Orders
<1>6. CQ' = Append(CQ, o) /\ o.cus_id = d /\ o.waiter_id = w
  BY <1>2, <1>5 DEF eq_CQ
<1>7. /\ Len(CQ) \in Nat /\ DOMAIN CQ = 1 .. Len(CQ)
      /\ DOMAIN CQ' = 1 .. Len(CQ) + 1
      /\ \A i \in DOMAIN CQ : CQ'[i] = CQ[i]
      /\ CQ'[Len(CQ) + 1] = o
  BY <1>3, <1>6, AppendedQueue
<1>8. /\ DOMAIN CQ \subseteq DOMAIN CQ' /\ Len(CQ) + 1 \in DOMAIN CQ'
      /\ \A i \in DOMAIN CQ' : i \in DOMAIN CQ \/ (i = Len(CQ) + 1 /\ i \notin DOMAIN CQ)
  BY <1>7
<1>9. cwaiter[d] = w /\ InHand(d)
  BY <1>1, <1>2 DEF LineInv, Busy, AtTable, InHand
<1>10. StageOf(d) /\ ~ Listed(d)
  BY <1>9 DEF StageInv, StageOf
<1>11. \A i \in DOMAIN CQ : CQ[i].cus_id # d
  BY <1>10 DEF Listed
<1>12. OrderLine'
  <2>1. OrderLine
    BY LineParts
  <2>2. QED
    BY <1>1, <1>6, <1>7, <1>8, <1>9, <1>11, <2>1 DEF OrderLine
<1>13. CookLine'
  BY <1>1, LineParts DEF CookLine, Stove
<1>14. ASSUME NEW v \in Waiters
       PROVE  QueueLine(v)' /\ HandLine(v)' /\ MarkLine(v)'
  <2>1. QueueLine(v) /\ HandLine(v) /\ MarkLine(v)
    BY LineParts
  <2>2. QueueLine(v)' /\ MarkLine(v)'
    BY <1>1, <2>1 DEF QueueLine, MarkLine
  <2>3. HandLine(v)'
    BY <1>1, <2>1 DEF HandLine, Busy, AtTable
  <2>4. QED
    BY <2>2, <2>3
<1>15. ASSUME NEW c \in Customers
       PROVE  StageOf(c)'
  <2>1. CASE cwaiter[c] # w
    BY <1>0, <2>1, OthersWish
  <2>2. CASE cwaiter[c] = w
    <3>1. /\ InLine(c)' <=> InLine(c)
          /\ Cooking(c)' <=> Cooking(c)
          /\ Marked(c)' <=> Marked(c)
      BY <1>1 DEF InLine, Cooking, Marked, Stove
    <3>2. /\ ~ InHand(c)'
          /\ ~ Called(c)
          /\ ~ Serving(c)
          /\ ~ Serving(c)'
          /\ InHand(c) <=> c = d
          /\ Called(c)' <=> c = d
          /\ wpc'[cwaiter[c]] # "bring"
      BY <1>1, <1>2, <2>2 DEF InHand, Called, Serving, AtTable
    <3>3. Listed(c)' <=> Listed(c) \/ c = d
      BY <1>6, <1>7, <1>8 DEF Listed
    <3>4. StageOf(c) /\ cpc'[c] = cpc[c] /\ cus'[c] = cus[c]
      BY <1>1 DEF StageInv
    <3>5. CASE c = d
      BY <3>1, <3>2, <3>3, <3>4, <3>5 DEF StageOf, Untold, ToldOnce
    <3>6. CASE c # d
      BY <1>1, <3>1, <3>2, <3>3, <3>4, <3>6, StageKept
    <3>7. QED
      BY <3>5, <3>6
  <2>3. QED
    BY <2>1, <2>2
<1>16. QED
  BY <1>12, <1>13, <1>14, <1>15, LineParts DEF StageInv

\* A waiter calls a customer: the order is placed, or the food is there.
LEMMA CallPlaces ==
  ASSUME TypeOK, HandInv, LineInv, StageInv, NEW w \in Waiters, CallCustomer(w)
  PROVE  LineInv' /\ StageInv'
<1>0. WaiterStep(w)
  BY DEF WaiterStep
<1>1. /\ cpc' = cpc /\ cwaiter' = cwaiter /\ kpc' = kpc /\ korder' = korder /\ CQ' = CQ
      /\ FR' = FR /\ WQ' = WQ /\ wpc[w] \in {"call_customer", "bring"} /\ wpc'[w] = "idle"
      /\ \A v \in Waiters \ {w} : wpc'[v] = wpc[v] /\ wcus'[v] = wcus[v]
  BY <1>0, WaiterLeaves DEF CallCustomer, WaiterGoes, TypeOK, M
<1>2. PICK d \in Customers : d = wcus[w]
  BY DEF CallCustomer, HandInv, Busy
<1>3. cwaiter[d] = w
  BY <1>2 DEF CallCustomer, LineInv, Busy
<1>4. cus' = [cus EXCEPT ![d] = @ + 1] /\ cus[d] \in Nat
  BY <1>2 DEF CallCustomer, TypeOK
<1>5. OrderLine' /\ CookLine'
  BY <1>1, LineParts DEF OrderLine, CookLine, Stove
<1>6. ASSUME NEW v \in Waiters
      PROVE  QueueLine(v)' /\ HandLine(v)' /\ MarkLine(v)'
  <2>1. QueueLine(v) /\ HandLine(v) /\ MarkLine(v)
    BY LineParts
  <2>2. QueueLine(v)' /\ MarkLine(v)'
    BY <1>1, <2>1 DEF QueueLine, MarkLine
  <2>3. HandLine(v)'
    BY <1>1, <2>1 DEF HandLine, Busy, AtTable
  <2>4. QED
    BY <2>2, <2>3
<1>7. ASSUME NEW c \in Customers
      PROVE  StageOf(c)'
  <2>1. CASE cwaiter[c] # w
    BY <1>0, <2>1, OthersWish
  <2>2. CASE cwaiter[c] = w
    <3>1. /\ InLine(c)' <=> InLine(c)
          /\ Listed(c)' <=> Listed(c)
          /\ Cooking(c)' <=> Cooking(c)
          /\ Marked(c)' <=> Marked(c)
      BY <1>1 DEF InLine, Listed, Cooking, Marked, Stove
    <3>2. /\ ~ InHand(c)
          /\ ~ InHand(c)'
          /\ ~ Called(c)'
          /\ ~ Serving(c)'
          /\ Called(c) \/ Serving(c) <=> c = d
          /\ Called(c) <=> c = d /\ wpc[w] = "call_customer"
          /\ wpc'[cwaiter[c]] # "bring"
      BY <1>1, <1>2, <2>2 DEF InHand, Called, Serving, AtTable
    <3>3. StageOf(c) /\ cpc'[c] = cpc[c]
      BY <1>1 DEF StageInv
    <3>4. CASE c # d
      <4>1. cus'[c] = cus[c] /\ ~ Called(c) /\ ~ Serving(c)
        BY <1>4, <3>2, <3>4 DEF TypeOK
      <4>2. QED
        BY <1>1, <3>1, <3>2, <3>3, <4>1, StageKept
    <3>5. CASE c = d /\ wpc[w] = "call_customer"
      <4>1. cus'[c] = 1 /\ cpc[c] \in {"queued", "await_order"} /\ Called(c)
        BY <1>4, <3>2, <3>3, <3>5 DEF StageOf, Untold, TypeOK
      <4>2. QED
        BY <3>1, <3>2, <3>3, <4>1 DEF StageOf, Untold, ToldOnce
    <3>6. CASE c = d /\ wpc[w] = "bring"
      <4>1. /\ Serving(c) /\ ~ Called(c) /\ wpc[cwaiter[c]] = "bring"
            /\ cus'[c] = cus[c] + 1 /\ cus[c] \in Nat
        BY <1>4, <2>2, <3>2, <3>6 DEF TypeOK
      <4>2. /\ ToldOnce(c) /\ ~ Untold(c) /\ ~ InLine(c) /\ ~ Listed(c) /\ ~ Cooking(c)
            /\ ~ Marked(c)
        <5>1. ToldOnce(c) /\ ~ Untold(c)
          BY <3>3, <4>1 DEF StageOf, Untold, ToldOnce
        <5>2. QED
          BY <3>3, <4>1, <5>1 DEF StageOf
      <4>3. QED
        BY <3>1, <3>2, <3>3, <4>1, <4>2 DEF StageOf, Untold, ToldOnce
    <3>7. QED
      BY <1>1, <3>4, <3>5, <3>6
  <2>3. QED
    BY <2>1, <2>2
<1>8. QED
  BY <1>5, <1>6, <1>7, LineParts DEF StageInv

\* A waiter finds a mark, and clears it.
LEMMA MarkPlaces ==
  ASSUME TypeOK, HandInv, LineInv, StageInv, NEW w \in Waiters, Look(w) \/ Serve(w)
  PROVE  LineInv' /\ StageInv'
<1>0. WaiterStep(w)
  BY DEF WaiterStep
<1>1. /\ cpc' = cpc /\ cwaiter' = cwaiter /\ kpc' = kpc /\ korder' = korder /\ CQ' = CQ
      /\ cus' = cus /\ WQ' = WQ
      /\ \A v \in Waiters \ {w} : wpc'[v] = wpc[v] /\ wcus'[v] = wcus[v] /\ FR'[v] = FR[v]
  BY <1>0, WaiterLeaves DEF Look, Serve, M, sems
<1>2. FR'[w] \in {FR[w], NOBODY} /\ (Look(w) => FR' = FR) /\ (Serve(w) => FR'[w] = NOBODY)
  BY DEF Look, Serve, M, TypeOK
<1>3. OrderLine' /\ CookLine'
  BY <1>1, LineParts DEF OrderLine, CookLine, Stove
<1>4. ASSUME NEW v \in Waiters
      PROVE  QueueLine(v)' /\ HandLine(v)' /\ MarkLine(v)'
  <2>1. QueueLine(v) /\ HandLine(v) /\ MarkLine(v)
    BY LineParts
  <2>2. QueueLine(v)'
    BY <1>1, <2>1 DEF QueueLine
  <2>3. MarkLine(v)'
    BY <1>1, <1>2, <2>1 DEF MarkLine
  <2>4. HandLine(v)'
    <3>1. CASE v # w
      BY <1>1, <2>1, <3>1 DEF HandLine, Busy, AtTable
    <3>2. CASE v = w /\ Look(w)
      <4>1. wcus'[w] = FR[w] /\ wpc'[w] = IF FR[w] = NOBODY THEN "take" ELSE "serve"
        BY <3>2 DEF Look, WaiterGoes, TypeOK
      <4>2. QED
        BY <1>1, <2>1, <3>2, <4>1 DEF HandLine, MarkLine, Busy, AtTable
    <3>3. CASE v = w /\ Serve(w)
      BY <1>1, <2>1, <3>3 DEF HandLine, Serve, WaiterGoes, Busy, AtTable, TypeOK
    <3>4. QED
      BY <3>1, <3>2, <3>3
  <2>5. QED
    BY <2>2, <2>3, <2>4
<1>5. ASSUME NEW c \in Customers
      PROVE  StageOf(c)'
  <2>1. CASE cwaiter[c] # w
    BY <1>0, <2>1, OthersWish
  <2>2. CASE cwaiter[c] = w
    <3>0. c # NOBODY
      BY Sizes
    <3>1. /\ InLine(c)' <=> InLine(c)
          /\ Listed(c)' <=> Listed(c)
          /\ Cooking(c)' <=> Cooking(c)
          /\ Marked(c)' => Marked(c)
      BY <1>1, <1>2, <2>2, <3>0 DEF InLine, Listed, Cooking, Marked, Stove
    <3>3. StageOf(c) /\ cpc'[c] = cpc[c] /\ cus'[c] = cus[c]
      BY <1>1 DEF StageInv
    <3>4. CASE Look(w)
      <4>1. wcus'[w] = FR[w] /\ (wpc'[w] = IF FR[w] = NOBODY THEN "take" ELSE "serve") /\ wpc[w] = "look"
        BY <3>4 DEF Look, WaiterGoes, TypeOK
      <4>2. /\ ~ InHand(c)
            /\ ~ InHand(c)'
            /\ ~ Called(c)
            /\ ~ Called(c)'
            /\ ~ Serving(c)
            /\ wpc'[cwaiter[c]] # "bring"
            /\ Serving(c)' <=> Marked(c)
        BY <1>1, <2>2, <3>0, <4>1 DEF InHand, Called, Serving, AtTable, Marked
      <4>3. cwaiter'[c] = cwaiter[c]
        BY <1>1
      <4>4. CASE Marked(c)
        BY <3>1, <3>3, <4>2, <4>3, <4>4 DEF StageOf, Untold, ToldOnce
      <4>5. CASE ~ Marked(c)
        BY <3>1, <3>3, <4>2, <4>3, <4>5, StageKept
      <4>6. QED
        BY <4>4, <4>5
    <3>5. CASE Serve(w)
      <4>1. wcus'[w] = wcus[w] /\ wpc'[w] = "bring" /\ wpc[w] = "serve"
        BY <3>5 DEF Serve, WaiterGoes, TypeOK
      <4>2. /\ InHand(c)' <=> InHand(c)
            /\ Called(c)' <=> Called(c)
            /\ Serving(c)' <=> Serving(c)
            /\ ~ Marked(c)'
        BY <1>1, <1>2, <2>2, <3>0, <3>5, <4>1 DEF InHand, Called, Serving, AtTable, Marked
      <4>3. QED
        BY <1>1, <3>1, <3>3, <4>2, StageKept
    <3>6. QED
      BY <3>4, <3>5
  <2>3. QED
    BY <2>1, <2>2
<1>6. QED
  BY <1>3, <1>4, <1>5, LineParts DEF StageInv

\* The other steps of a waiter move no wish.
LEMMA OtherWaiterPlaces ==
  ASSUME TypeInv, PlaceInv, NEW w \in Waiters, WaiterStep(w),
         ~ dq_WQ(w), ~ eq_CQ(w), ~ CallCustomer(w), ~ Look(w), ~ Serve(w)
  PROVE  LineInv' /\ StageInv'
<1>0. TypeOK /\ HandInv /\ LineInv /\ StageInv
  BY DEF TypeInv, PlaceInv
<1>1. /\ cpc' = cpc /\ cwaiter' = cwaiter /\ kpc' = kpc /\ korder' = korder /\ CQ' = CQ
      /\ cus' = cus /\ WQ' = WQ /\ FR' = FR
      /\ \A v \in Waiters \ {w} : wpc'[v] = wpc[v] /\ wcus'[v] = wcus[v]
  BY <1>0, WaiterLeaves
<1>2. \/ ~ Busy(w) /\ wpc'[w] \in {"look", "left"}
      \/ /\ AtTable(w) /\ wpc'[w] \in {"order", "set_time", "book", "post"} /\ wcus'[w] = wcus[w]
      \/ /\ wpc[w] = "call_cook" /\ wpc'[w] = "call_customer" /\ wcus'[w] = wcus[w]
  <2>1. CASE WaitForWork(w)
    BY <1>0, <2>1 DEF WaitForWork, WaiterGoes, TypeOK, Busy, AtTable
  <2>2. CASE WaiterFails(w)
    <3>1. ~ ipc
      BY <2>2 DEF WaiterFails
    <3>2. ~ Busy(w)
      BY <3>1, NothingLeft
    <3>3. QED
      BY <1>0, <2>2, <3>2 DEF WaiterFails, WaiterGoes, TypeOK
  <2>3. CASE CheckTakingTime(w) \/ SetTakingTime(w) \/ BookOrder(w) \/ CallCook(w)
    BY <1>0, <2>3 DEF CheckTakingTime, SetTakingTime, BookOrder, CallCook, WaiterGoes, TypeOK, AtTable
  <2>4. QED
    BY <2>1, <2>2, <2>3 DEF WaiterStep
<1>3. LineInv'
  <2>1. OrderLine' /\ CookLine'
    BY <1>0, <1>1, LineParts DEF OrderLine, CookLine, Stove
  <2>2. ASSUME NEW v \in Waiters
        PROVE  QueueLine(v)' /\ HandLine(v)' /\ MarkLine(v)'
    <3>1. QueueLine(v) /\ HandLine(v) /\ MarkLine(v)
      BY <1>0, LineParts
    <3>2. QueueLine(v)' /\ MarkLine(v)'
      BY <1>1, <3>1 DEF QueueLine, MarkLine
    <3>3. HandLine(v)'
      <4>1. CASE v # w
        BY <1>1, <3>1, <4>1 DEF HandLine, Busy, AtTable
      <4>2. CASE v = w
        BY <1>1, <1>2, <3>1, <4>2 DEF HandLine, Busy, AtTable
      <4>3. QED
        BY <4>1, <4>2
    <3>4. QED
      BY <3>2, <3>3
  <2>3. QED
    BY <2>1, <2>2, LineParts
<1>4. ASSUME NEW c \in Customers
      PROVE  StageOf(c)'
  <2>1. CASE cwaiter[c] # w
    BY <1>0, <2>1, OthersWish
  <2>2. CASE cwaiter[c] = w
    <3>1. /\ InLine(c)' <=> InLine(c)
          /\ Listed(c)' <=> Listed(c)
          /\ Cooking(c)' <=> Cooking(c)
          /\ Marked(c)' => Marked(c)
      BY <1>1 DEF InLine, Listed, Cooking, Marked, Stove
    <3>2. /\ InHand(c)' <=> InHand(c)
          /\ Called(c)' <=> Called(c)
          /\ Serving(c)' <=> Serving(c)
          /\ wpc'[cwaiter[c]] # "bring"
      BY <1>1, <1>2, <2>2 DEF InHand, Called, Serving, Busy, AtTable
    <3>3. QED
      BY <1>0, <1>1, <3>1, <3>2, StageKept DEF StageInv
  <2>3. QED
    BY <2>1, <2>2
<1>5. QED
  BY <1>3, <1>4 DEF StageInv

\* The waiters' steps keep everybody's place.
LEMMA WaiterPlaces ==
  ASSUME TypeInv, PlaceInv, NEW w \in Waiters, WaiterStep(w)
  PROVE  PlaceInv'
<1>1. TypeOK /\ HandInv /\ LineInv /\ StageInv /\ DoorInv
  BY DEF TypeInv, PlaceInv
<1>2. DoorInv'
  BY <1>1, WaiterLeaves DEF DoorInv
<1>3. LineInv' /\ StageInv'
  BY <1>1, TakePlaces, OrderPlaces, CallPlaces, MarkPlaces, OtherWaiterPlaces
<1>4. QED
  BY <1>2, <1>3 DEF PlaceInv

\* What the customers, the waiters and the other cook hold when cook k acts.
LEMMA CookLeaves ==
  ASSUME TypeOK, NEW k \in Cooks, CookStep(k)
  PROVE  /\ cpc' = cpc /\ cwaiter' = cwaiter /\ arrived' = arrived /\ file' = file /\ ipc' = ipc
         /\ wpc' = wpc /\ wcus' = wcus /\ WQ' = WQ /\ PO' = PO /\ cus' = cus
         /\ \A j \in Cooks \ {k} : kpc'[j] = kpc[j] /\ korder'[j] = korder[j]
         /\ ~ dq_CQ(k) => CQ' = CQ
         /\ ~ FoodReady(k) => FR' = FR
<1>1. /\ cpc' = cpc /\ cwaiter' = cwaiter /\ arrived' = arrived /\ file' = file /\ ipc' = ipc
      /\ wpc' = wpc /\ wcus' = wcus
  BY DEF CookStep, WaitForOrder, dq_CQ, CheckCookingTime, SetCookingTime, FoodReady,
     NotifyWaiter, wake_all_waiters, CookFails, customers, waiters
<1>2. /\ WQ' = WQ /\ PO' = PO
      /\ ~ dq_CQ(k) => CQ' = CQ
      /\ ~ FoodReady(k) => FR' = FR
  BY DEF CookStep, WaitForOrder, dq_CQ, CheckCookingTime, SetCookingTime, FoodReady,
     NotifyWaiter, wake_all_waiters, CookFails, M
<1>3. cus' = cus
  BY DEF CookStep, WaitForOrder, dq_CQ, CheckCookingTime, SetCookingTime, FoodReady,
     NotifyWaiter, wake_all_waiters, CookFails, sems
<1>4. ASSUME NEW j \in Cooks \ {k}
      PROVE  kpc'[j] = kpc[j] /\ korder'[j] = korder[j]
  BY CookGoesOn
<1>5. QED
  BY <1>1, <1>2, <1>3, <1>4

\* A cook takes the first order.
LEMMA FetchPlaces ==
  ASSUME TypeOK, HandInv, LineInv, StageInv, NEW k \in Cooks, dq_CQ(k), CQ # <<>>
  PROVE  LineInv' /\ StageInv'
<1>0. CookStep(k)
  BY DEF CookStep
<1>1. /\ cpc' = cpc /\ cwaiter' = cwaiter /\ cus' = cus /\ WQ' = WQ /\ FR' = FR
      /\ wpc' = wpc /\ wcus' = wcus /\ kpc[k] = "fetch"
      /\ \A j \in Cooks \ {k} : kpc'[j] = kpc[j] /\ korder'[j] = korder[j]
  BY <1>0, CookLeaves DEF dq_CQ
<1>2. CQ \in Seq(Orders)
  BY DEF TypeOK
<1>3. PICK o \in Orders : o = Head(CQ)
  BY <1>2, FirstAndRest
<1>4. kpc'[k] = "cooking" /\ korder'[k] = o /\ CQ' = Tail(CQ)
  BY <1>3 DEF dq_CQ, CookGoes, TypeOK
<1>5. /\ o = CQ[1] /\ Len(CQ) \in Nat /\ Len(CQ) >= 1 /\ DOMAIN CQ = 1 .. Len(CQ)
      /\ DOMAIN CQ' = 1 .. Len(CQ) - 1
      /\ \A i \in 1 .. Len(CQ) - 1 : CQ'[i] = CQ[i + 1]
  BY <1>2, <1>3, <1>4, FirstAndRest
<1>6. /\ 1 \in DOMAIN CQ
      /\ \A i \in DOMAIN CQ' : i + 1 \in DOMAIN CQ /\ i + 1 # 1 /\ CQ'[i] = CQ[i + 1]
      /\ \A i \in DOMAIN CQ : i = 1 \/ (i - 1 \in DOMAIN CQ' /\ CQ'[i - 1] = CQ[i])
  BY <1>5
<1>7. PICK d \in Customers : d = o.cus_id
  BY <1>5, <1>6 DEF HandInv
<1>8. Listed(d) /\ o.waiter_id = cwaiter[d]
  BY <1>5, <1>6, <1>7 DEF Listed, LineInv
<1>9. StageOf(d) /\ ~ Cooking(d)
  BY <1>8 DEF StageInv, StageOf
<1>10. ~ Stove(k) /\ Stove(k)' /\ \A j \in Cooks \ {k} : (Stove(j)' <=> Stove(j))
  BY <1>1, <1>4 DEF Stove
<1>11. OrderLine /\ CookLine
  BY LineParts
<1>12. \A j \in Cooks : Stove(j) => korder[j].cus_id # d
  BY <1>9 DEF Cooking
<1>13. OrderLine'
  <2>1. \A i \in DOMAIN CQ' : CQ'[i].waiter_id = cwaiter'[CQ'[i].cus_id]
    BY <1>1, <1>6, <1>11 DEF OrderLine
  <2>2. ASSUME NEW i \in DOMAIN CQ', NEW j \in DOMAIN CQ', CQ'[i].cus_id = CQ'[j].cus_id
        PROVE  i = j
    <3>1. i + 1 = j + 1
      BY <1>6, <1>11, <2>2 DEF OrderLine
    <3>2. QED
      BY <1>5, <3>1
  <2>3. QED
    BY <2>1, <2>2 DEF OrderLine
<1>14. CookLine'
  <2>1. ASSUME NEW j \in Cooks, Stove(j)'
        PROVE  korder'[j].waiter_id = cwaiter'[korder'[j].cus_id]
    BY <1>1, <1>4, <1>7, <1>8, <1>10, <1>11, <2>1 DEF CookLine
  <2>2. ASSUME NEW j \in Cooks, NEW l \in Cooks, Stove(j)', Stove(l)',
               korder'[j].cus_id = korder'[l].cus_id
        PROVE  j = l
    BY <1>1, <1>4, <1>7, <1>10, <1>11, <1>12, <2>2 DEF CookLine
  <2>3. QED
    BY <2>1, <2>2 DEF CookLine
<1>15. \A v \in Waiters : QueueLine(v)' /\ HandLine(v)' /\ MarkLine(v)'
  BY <1>1, LineParts DEF QueueLine, HandLine, MarkLine, Busy, AtTable
<1>16. ASSUME NEW c \in Customers
       PROVE  StageOf(c)'
  <2>1. /\ InLine(c)' <=> InLine(c)
        /\ InHand(c)' <=> InHand(c)
        /\ Called(c)' <=> Called(c)
        /\ Marked(c)' <=> Marked(c)
        /\ Serving(c)' <=> Serving(c)
    BY <1>1 DEF InLine, InHand, Called, Marked, Serving, AtTable
  <2>2. StageOf(c) /\ cpc'[c] = cpc[c] /\ cus'[c] = cus[c]
    BY <1>1 DEF StageInv
  <2>3. CASE c # d
    <3>1. Cooking(c)' <=> Cooking(c)
      BY <1>1, <1>4, <1>7, <1>10, <2>3 DEF Cooking
    <3>2. Listed(c)' <=> Listed(c)
      <4>1. ASSUME NEW i \in DOMAIN CQ', CQ'[i].cus_id = c
            PROVE  Listed(c)
        BY <1>6, <4>1 DEF Listed
      <4>2. ASSUME NEW i \in DOMAIN CQ, CQ[i].cus_id = c
            PROVE  i - 1 \in DOMAIN CQ' /\ CQ'[i - 1].cus_id = c
        BY <1>5, <1>6, <1>7, <2>3, <4>2
      <4>3. QED
        BY <4>1, <4>2 DEF Listed
    <3>3. QED
      BY <1>1, <2>1, <2>2, <3>1, <3>2, StageKept
  <2>4. CASE c = d
    <3>1. Cooking(c)'
      BY <1>4, <1>7, <1>10, <2>4 DEF Cooking
    <3>2. ~ Listed(c)'
      <4>1. SUFFICES ASSUME NEW i \in DOMAIN CQ', CQ'[i].cus_id = c
                     PROVE  FALSE
        BY DEF Listed
      <4>2. i + 1 \in DOMAIN CQ /\ CQ[i + 1].cus_id = d /\ i + 1 # 1
        BY <1>6, <2>4, <4>1
      <4>3. QED
        BY <1>5, <1>6, <1>7, <1>11, <4>2 DEF OrderLine
    <3>3. wpc' = wpc /\ cwaiter' = cwaiter
      BY <1>1
    <3>4. QED
      BY <1>8, <1>9, <2>1, <2>2, <2>4, <3>1, <3>2, <3>3 DEF StageOf, Untold, ToldOnce
  <2>5. QED
    BY <2>3, <2>4
<1>17. QED
  BY <1>13, <1>14, <1>15, <1>16, LineParts DEF StageInv

\* A cook marks a dish as ready.
LEMMA ReadyPlaces ==
  ASSUME TypeOK, HandInv, LineInv, StageInv, NEW k \in Cooks, FoodReady(k)
  PROVE  LineInv' /\ StageInv'
<1>0. CookStep(k)
  BY DEF CookStep
<1>1. /\ cpc' = cpc /\ cwaiter' = cwaiter /\ cus' = cus /\ WQ' = WQ /\ CQ' = CQ
      /\ wpc' = wpc /\ wcus' = wcus /\ kpc[k] = "ready" /\ kpc'[k] = "notify" /\ korder' = korder
      /\ \A j \in Cooks \ {k} : kpc'[j] = kpc[j]
  BY <1>0, CookLeaves DEF FoodReady, CookGoes, TypeOK
<1>2. PICK d \in Customers : d = korder[k].cus_id
  BY <1>1 DEF HandInv, Stove
<1>3. PICK w \in Waiters : w = korder[k].waiter_id
  BY DEF TypeOK, Orders
<1>4. Cooking(d) /\ cwaiter[d] = w /\ Stove(k)
  BY <1>1, <1>2, <1>3 DEF Cooking, LineInv, Stove
<1>5. StageOf(d)
  BY DEF StageInv
<1>6. FR'[w] = d /\ \A v \in Waiters \ {w} : FR'[v] = FR[v]
  BY <1>2, <1>3 DEF FoodReady, TypeOK
<1>7. ~ Stove(k)' /\ \A j \in Cooks \ {k} : (Stove(j)' <=> Stove(j))
  BY <1>1 DEF Stove
<1>8. OrderLine' /\ CookLine'
  <2>1. OrderLine /\ CookLine
    BY LineParts
  <2>2. OrderLine'
    BY <1>1, <2>1 DEF OrderLine
  <2>3. CookLine'
    BY <1>1, <1>7, <2>1 DEF CookLine
  <2>4. QED
    BY <2>2, <2>3
<1>9. ASSUME NEW v \in Waiters
      PROVE  QueueLine(v)' /\ HandLine(v)' /\ MarkLine(v)'
  <2>1. QueueLine(v) /\ HandLine(v) /\ MarkLine(v)
    BY LineParts
  <2>2. QueueLine(v)' /\ HandLine(v)'
    BY <1>1, <2>1 DEF QueueLine, HandLine, Busy, AtTable
  <2>3. MarkLine(v)'
    BY <1>1, <1>4, <1>6, <2>1 DEF MarkLine
  <2>4. QED
    BY <2>2, <2>3
<1>10. ASSUME NEW c \in Customers
       PROVE  StageOf(c)'
  <2>1. /\ InLine(c)' <=> InLine(c)
        /\ InHand(c)' <=> InHand(c)
        /\ Called(c)' <=> Called(c)
        /\ Listed(c)' <=> Listed(c)
        /\ Serving(c)' <=> Serving(c)
    BY <1>1 DEF InLine, InHand, Called, Listed, Serving, AtTable
  <2>2. StageOf(c) /\ cpc'[c] = cpc[c] /\ cus'[c] = cus[c]
    BY <1>1 DEF StageInv
  <2>3. CASE c # d
    <3>1. Cooking(c)' <=> Cooking(c)
      BY <1>1, <1>2, <1>7, <2>3 DEF Cooking
    <3>2. Marked(c)' => Marked(c)
      BY <1>1, <1>6, <2>3 DEF Marked, TypeOK
    <3>3. QED
      BY <1>1, <2>1, <2>2, <3>1, <3>2, StageKept
  <2>4. CASE c = d
    <3>1. Marked(c)'
      BY <1>1, <1>4, <1>6, <2>4 DEF Marked
    <3>2. ~ Cooking(c)'
      <4>1. SUFFICES ASSUME NEW j \in Cooks, Stove(j)', korder'[j].cus_id = c
                     PROVE  FALSE
        BY DEF Cooking
      <4>2. j # k /\ Stove(j) /\ korder[j].cus_id = korder[k].cus_id
        BY <1>1, <1>2, <1>7, <2>4, <4>1
      <4>3. QED
        BY <1>4, <4>2 DEF LineInv
    <3>3. wpc' = wpc /\ cwaiter' = cwaiter
      BY <1>1
    <3>4. QED
      BY <1>4, <1>5, <2>1, <2>2, <2>4, <3>1, <3>2, <3>3 DEF StageOf, Untold, ToldOnce
  <2>5. QED
    BY <2>3, <2>4
<1>11. QED
  BY <1>8, <1>9, <1>10, LineParts DEF StageInv

\* A cook that neither takes an order nor marks a dish has the stove it had.
LEMMA OtherCookStove ==
  ASSUME TypeInv, PlaceInv, NEW k \in Cooks, CookStep(k),
         ~ (dq_CQ(k) /\ CQ # <<>>), ~ FoodReady(k)
  PROVE  /\ CQ' = CQ
         /\ \A j \in Cooks : (Stove(j)' <=> Stove(j)) /\ (Stove(j) => korder'[j] = korder[j])
<1>0. TypeOK
  BY DEF TypeInv
<1>1. \A j \in Cooks \ {k} : kpc'[j] = kpc[j] /\ korder'[j] = korder[j]
  BY <1>0, CookLeaves
<1>2. CQ' = CQ
  BY <1>0, CookLeaves DEF dq_CQ
<1>3. \/ ~ Stove(k) /\ ~ Stove(k)'
      \/ Stove(k) /\ Stove(k)' /\ korder'[k] = korder[k]
  <2>1. CASE CookFails(k)
    <3>1. ~ ipc
      BY <2>1 DEF CookFails
    <3>2. ~ Stove(k)
      BY <3>1, NothingLeft
    <3>3. QED
      BY <1>0, <2>1, <3>2 DEF CookFails, CookGoes, TypeOK, Stove
  <2>2. CASE CheckCookingTime(k) \/ SetCookingTime(k)
    BY <1>0, <2>2 DEF CheckCookingTime, SetCookingTime, CookGoes, TypeOK, Stove
  <2>3. CASE dq_CQ(k)
    <3>1. CQ = <<>>
      BY <2>3
    <3>2. QED
      BY <1>0, <2>3, <3>1 DEF dq_CQ, CookGoes, TypeOK, Stove
  <2>4. CASE WaitForOrder(k) \/ NotifyWaiter(k)
    BY <1>0, <2>4 DEF WaitForOrder, NotifyWaiter, CookGoes, TypeOK, Stove
  <2>5. CASE wake_all_waiters(k)
    <3>1. kpc[k] \in {"waking", "leaving"} /\ kpc'[k] \in {"waking", "leaving", "idle", "left"}
      BY <1>0, <2>5 DEF wake_all_waiters, CookGoes, TypeOK
    <3>2. QED
      BY <3>1 DEF Stove
  <2>6. QED
    BY <2>1, <2>2, <2>3, <2>4, <2>5 DEF CookStep
<1>4. \A j \in Cooks : (Stove(j)' <=> Stove(j)) /\ (Stove(j) => korder'[j] = korder[j])
  BY <1>1, <1>3 DEF Stove
<1>5. QED
  BY <1>2, <1>4

\* The other steps of a cook move no wish.
LEMMA OtherCookPlaces ==
  ASSUME TypeInv, PlaceInv, NEW k \in Cooks, CookStep(k),
         ~ (dq_CQ(k) /\ CQ # <<>>), ~ FoodReady(k)
  PROVE  LineInv' /\ StageInv'
<1>0. TypeOK /\ HandInv /\ LineInv /\ StageInv
  BY DEF TypeInv, PlaceInv
<1>1. /\ cpc' = cpc /\ cwaiter' = cwaiter /\ cus' = cus /\ WQ' = WQ /\ FR' = FR
      /\ wpc' = wpc /\ wcus' = wcus
      /\ \A j \in Cooks \ {k} : kpc'[j] = kpc[j] /\ korder'[j] = korder[j]
  BY <1>0, CookLeaves
<1>2. CQ' = CQ
  BY <1>0, CookLeaves DEF dq_CQ
<1>4. \A j \in Cooks : (Stove(j)' <=> Stove(j)) /\ (Stove(j) => korder'[j] = korder[j])
  BY OtherCookStove
<1>5. LineInv'
  <2>1. OrderLine /\ CookLine
    BY <1>0, LineParts
  <2>2. OrderLine'
    BY <1>1, <1>2, <2>1 DEF OrderLine
  <2>3. CookLine'
    BY <1>1, <1>4, <2>1 DEF CookLine
  <2>4. \A v \in Waiters : QueueLine(v)' /\ HandLine(v)' /\ MarkLine(v)'
    BY <1>0, <1>1, LineParts DEF QueueLine, HandLine, MarkLine, Busy, AtTable
  <2>5. QED
    BY <2>2, <2>3, <2>4, LineParts
<1>6. ASSUME NEW c \in Customers
      PROVE  StageOf(c)'
  <2>1. /\ InLine(c)' <=> InLine(c)
        /\ InHand(c)' <=> InHand(c)
        /\ Called(c)' <=> Called(c)
        /\ Listed(c)' <=> Listed(c)
        /\ Marked(c)' <=> Marked(c)
        /\ Serving(c)' <=> Serving(c)
    BY <1>1, <1>2 DEF InLine, InHand, Called, Listed, Marked, Serving, AtTable
  <2>2. Cooking(c)' <=> Cooking(c)
    BY <1>4 DEF Cooking
  <2>3. QED
    BY <1>0, <1>1, <2>1, <2>2, StageKept DEF StageInv
<1>7. QED
  BY <1>5, <1>6 DEF StageInv

\* The cooks' steps keep everybody's place.
LEMMA CookPlaces ==
  ASSUME TypeInv, PlaceInv, NEW k \in Cooks, CookStep(k)
  PROVE  PlaceInv'
<1>1. TypeOK /\ HandInv /\ LineInv /\ StageInv /\ DoorInv
  BY DEF TypeInv, PlaceInv
<1>2. DoorInv'
  BY <1>1, CookLeaves DEF DoorInv
<1>3. LineInv' /\ StageInv'
  BY <1>1, FetchPlaces, ReadyPlaces, OtherCookPlaces
<1>4. QED
  BY <1>2, <1>3 DEF PlaceInv

\* At the start nobody has come.
LEMMA InitPlaces == Init => PlaceInv
<1> SUFFICES ASSUME Init PROVE PlaceInv
  OBVIOUS
<1>1. DoorInv
  BY Sizes DEF Init, DoorInv
<1>2. LineInv
  <2>1. /\ \A w \in Waiters : WQ[w] = <<>> /\ ~ Busy(w) /\ FR[w] = NOBODY
        /\ CQ = <<>> /\ \A k \in Cooks : ~ Stove(k)
    BY DEF Init, Busy, AtTable, Stove
  <2>2. DOMAIN (<<>>) = {}
    OBVIOUS
  <2>3. QED
    BY <2>1, <2>2 DEF LineInv
<1>3. ASSUME NEW c \in Customers
      PROVE  StageOf(c)
  <2>1. /\ cwaiter[c] \in Waiters /\ cpc[c] = "absent" /\ cus[c] = 0 /\ c # NOBODY
        /\ WQ[cwaiter[c]] = <<>> /\ wpc[cwaiter[c]] = "idle" /\ FR[cwaiter[c]] = NOBODY /\ CQ = <<>>
        /\ \A k \in Cooks : kpc[k] = "idle"
    BY Sizes DEF Init
  <2>2. DOMAIN (<<>>) = {}
    OBVIOUS
  <2>3. /\ ~ InLine(c) /\ ~ InHand(c) /\ ~ Called(c) /\ ~ Listed(c) /\ ~ Cooking(c)
        /\ ~ Marked(c) /\ ~ Serving(c)
    BY <2>1, <2>2 DEF InLine, InHand, Called, Listed, Cooking, Marked, Serving, AtTable, Stove
  <2>4. ~ Untold(c) /\ cus[c] <= 0
    BY <2>1 DEF Untold
  <2>5. QED
    BY <2>1, <2>3, <2>4 DEF StageOf
<1>4. QED
  BY <1>1, <1>2, <1>3 DEF PlaceInv, StageInv

\* A step that changes nothing.
LEMMA Stutter ==
  ASSUME TypeInv, PlaceInv, UNCHANGED vars
  PROVE  TypeInv' /\ PlaceInv'
<1>0. UNCHANGED <<Tid, ETid, NWid, CQ, WQ, FR, PO, cook, waiter, cus, ipc, file, arrived, cpc,
                  cwaiter, ctime, wpc, wcus, wtime, kpc, korder, kret, ktime, woken>>
  BY DEF vars, M, sems, customers, waiters, cooks
<1>1. TypeOK'
  BY <1>0 DEF TypeInv, TypeOK
<1>2. SeatInv' /\ HandInv'
  BY <1>0, SeatsKept, HandsKept DEF TypeInv
<1>3. DoorInv' /\ LineInv'
  BY <1>0 DEF PlaceInv, DoorInv, LineInv, Busy, AtTable, Stove
<1>4. ASSUME NEW c \in Customers
      PROVE  StageOf(c)'
  <2>1. /\ InLine(c)' <=> InLine(c)
        /\ InHand(c)' <=> InHand(c)
        /\ Called(c)' <=> Called(c)
        /\ Listed(c)' <=> Listed(c)
        /\ Cooking(c)' <=> Cooking(c)
        /\ Marked(c)' <=> Marked(c)
        /\ Serving(c)' <=> Serving(c)
    BY <1>0 DEF InLine, InHand, Called, Listed, Cooking, Marked, Serving, AtTable, Stove
  <2>2. QED
    BY <1>0, <2>1, StageKept DEF PlaceInv, StageInv
<1>5. QED
  BY <1>1, <1>2, <1>3, <1>4 DEF TypeInv, PlaceInv, StageInv

\* Whatever happens, the types are right and every wish is in its place.
THEOREM LunchInvariant == Spec => [](TypeInv /\ PlaceInv)
<1>1. Init => TypeInv /\ PlaceInv
  BY InitTypes, InitPlaces
<1>2. ASSUME TypeInv /\ PlaceInv, [Next]_vars
      PROVE  TypeInv' /\ PlaceInv'
  <2>1. CASE Arrive \/ Cleanup
    BY <1>2, <2>1, WrapperTypes, WrapperPlaces DEF PlaceInv
  <2>2. CASE \E c \in Customers : CustomerStep(c)
    BY <1>2, <2>2, CustomerTypes, CustomerPlaces
  <2>3. CASE \E w \in Waiters : WaiterStep(w)
    BY <1>2, <2>3, WaiterTypes, WaiterPlaces
  <2>4. CASE \E k \in Cooks : CookStep(k)
    BY <1>2, <2>4, CookTypes, CookPlaces
  <2>5. CASE UNCHANGED vars
    BY <1>2, <2>5, Stutter
  <2>6. QED
    BY <1>2, <2>1, <2>2, <2>3, <2>4, <2>5 DEF Next
<1>3. QED
  BY <1>1, <1>2, PTL DEF Spec

\* The variables keep their types.
THEOREM LunchTypes == Spec => []TypeOK
<1>1. TypeInv /\ PlaceInv => TypeOK
  BY DEF TypeInv
<1>2. QED
  BY <1>1, LunchInvariant, PTL

-----------------------------------------------------------------------------
(* The wishes and the signals, counted.                                      *)

\* A set without two elements has none or one.
LEMMA NoneOrOne ==
  ASSUME NEW S, \A x, y \in S : x = y
  PROVE  IsFiniteSet(S) /\ Cardinality(S) = Num(S # {})
<1>1. CASE S = {}
  BY <1>1, FS_EmptySet DEF Num
<1>2. CASE S # {}
  <2>1. PICK x \in S : TRUE
    BY <1>2
  <2>2. S = {x}
    BY <2>1
  <2>3. QED
    BY <1>2, <2>2, FS_Singleton DEF Num
<1>3. QED
  BY <1>1, <1>2

\* A queue in which nobody stands twice is no longer than there are customers.
LEMMA QueueFits ==
  ASSUME TypeOK, LineInv, NEW w \in Waiters
  PROVE  DOMAIN WQ[w] \subseteq Customers
<1>1. WQ[w] \in Seq(Customers)
  BY DEF TypeOK
<1>2. Len(WQ[w]) \in Nat /\ DOMAIN WQ[w] = 1 .. Len(WQ[w]) /\ WQ[w] \in [1 .. Len(WQ[w]) -> Customers]
  BY <1>1, LenProperties
<1>3. IsInjective(WQ[w])
  <2>1. \A i, j \in DOMAIN WQ[w] : WQ[w][i] = WQ[w][j] => i = j
    BY DEF LineInv
  <2>2. QED
    BY <2>1 DEF IsInjective
<1>4. WQ[w] \in Injection(1 .. Len(WQ[w]), Customers)
  BY <1>2, <1>3 DEF Injection
<1>5. IsFiniteSet(Customers) /\ Cardinality(Customers) = NCUSTOMERS
  BY FS_Interval, Sizes DEF Customers
<1>6. Cardinality(1 .. Len(WQ[w])) = Len(WQ[w])
  BY <1>2, FS_Interval
<1>7. Len(WQ[w]) <= NCUSTOMERS
  BY <1>4, <1>5, <1>6, FS_Injection
<1>8. QED
  BY <1>2, <1>7, Sizes DEF Customers

\* The counts of Wishes in terms of the places.
LEMMA WishCounts ==
  ASSUME TypeInv, PlaceInv, NEW c \in Customers
  PROVE  /\ Queued(c) = Num(InLine(c)) + Num(InHand(c))
         /\ Ordered(c) = Num(Listed(c)) + Num(Cooking(c))
<1>0. TypeOK /\ HandInv /\ LineInv
  BY DEF TypeInv, PlaceInv
<1> DEFINE line == {wi \in Waiters \X Customers :
                      wi[2] \in DOMAIN WQ[wi[1]] /\ WQ[wi[1]][wi[2]] = c}
           hand == {w \in Waiters : AtTable(w) /\ wcus[w] = c}
           list == {i \in DOMAIN CQ : CQ[i].cus_id = c}
           stove == {k \in Cooks : OnStove(k) /\ korder[k].cus_id = c}
<1>1. Cardinality(line) = Num(InLine(c))
  <2>1. \A wi \in line : wi[1] = cwaiter[c]
    BY <1>0 DEF LineInv
  <2>2. ASSUME NEW x \in line, NEW y \in line
        PROVE  x = y
    <3>1. x[1] = y[1] /\ x[2] = y[2]
      BY <1>0, <2>1 DEF LineInv
    <3>2. x = <<x[1], x[2]>> /\ y = <<y[1], y[2]>>
      OBVIOUS
    <3>3. QED
      BY <3>1, <3>2
  <2>3. Cardinality(line) = Num(line # {})
    <3> HIDE DEF line
    <3> QED
      BY <2>2, NoneOrOne
  <2>4. line # {} => InLine(c)
    BY <2>1 DEF InLine
  <2>5. InLine(c) => line # {}
    <3>1. SUFFICES ASSUME NEW i \in DOMAIN WQ[cwaiter[c]], WQ[cwaiter[c]][i] = c
                   PROVE  line # {}
      BY DEF InLine
    <3>2. cwaiter[c] \in Waiters
      BY <1>0 DEF TypeOK
    <3>3. i \in Customers
      BY <1>0, <3>1, <3>2, QueueFits
    <3>4. <<cwaiter[c], i>> \in line
      BY <3>1, <3>2, <3>3
    <3>5. QED
      BY <3>4
  <2>6. QED
    BY <2>3, <2>4, <2>5 DEF Num
<1>2. Cardinality(hand) = Num(InHand(c))
  <2>1. \A w \in hand : w = cwaiter[c]
    BY <1>0 DEF LineInv, Busy
  <2>2. Cardinality(hand) = Num(hand # {})
    <3> HIDE DEF hand
    <3> QED
      BY <2>1, NoneOrOne
  <2>3. cwaiter[c] \in Waiters
    BY <1>0 DEF TypeOK
  <2>4. hand # {} <=> InHand(c)
    BY <2>1, <2>3 DEF InHand
  <2>5. QED
    BY <2>2, <2>4 DEF Num
<1>3. Cardinality(list) = Num(Listed(c))
  <2>1. \A i, j \in list : i = j
    BY <1>0 DEF LineInv
  <2>2. Cardinality(list) = Num(list # {})
    <3> HIDE DEF list
    <3> QED
      BY <2>1, NoneOrOne
  <2>3. list # {} <=> Listed(c)
    BY DEF Listed
  <2>4. QED
    BY <2>2, <2>3 DEF Num
<1>4. Cardinality(stove) = Num(Cooking(c))
  <2>1. \A k \in Cooks : OnStove(k) <=> Stove(k)
    BY <1>0, Sizes DEF HandInv, OnStove, Stove
  <2>2. \A k, l \in stove : k = l
    BY <1>0, <2>1 DEF LineInv
  <2>3. Cardinality(stove) = Num(stove # {})
    <3> HIDE DEF stove
    <3> QED
      BY <2>2, NoneOrOne
  <2>4. stove # {} <=> Cooking(c)
    BY <2>1 DEF Cooking
  <2>5. QED
    BY <2>3, <2>4 DEF Num
<1>5. QED
  BY <1>1, <1>2, <1>3, <1>4 DEF Queued, Ordered

\* A customer's wish is never lost before the order is placed, and never doubled.
THEOREM OneWish == Spec => []OneWishPerCustomer
<1>1. ASSUME TypeInv, PlaceInv, NEW c \in Customers
      PROVE  /\ Wishes(c) <= 1
             /\ cpc[c] \in {"queued", "await_order"} /\ cus[c] = 0 =>
                  \/ Queued(c) = 1
                  \/ \E w \in Waiters : wcus[w] = c /\ wpc[w] \in {"call_cook", "call_customer"}
  <2>1. StageOf(c) /\ cwaiter[c] \in Waiters
    BY <1>1 DEF TypeInv, PlaceInv, StageInv, TypeOK
  <2>2. Wishes(c) = Num(InLine(c)) + Num(InHand(c)) + (Num(Listed(c)) + Num(Cooking(c)))
    BY <1>1, WishCounts DEF Wishes
  <2>3. Wishes(c) <= 1
    BY <2>1, <2>2 DEF StageOf, Num
  <2>4. ASSUME cpc[c] \in {"queued", "await_order"}, cus[c] = 0, Queued(c) # 1
        PROVE  \E w \in Waiters : wcus[w] = c /\ wpc[w] \in {"call_cook", "call_customer"}
    <3>1. Untold(c)
      BY <2>4 DEF Untold
    <3>2. Called(c)
      <4>1. Queued(c) = Num(InLine(c)) + Num(InHand(c))
        BY <1>1, WishCounts
      <4>2. ~ InLine(c) /\ ~ InHand(c)
        BY <2>1, <2>4, <4>1 DEF StageOf, Num
      <4>3. QED
        BY <2>1, <3>1, <4>2 DEF StageOf
    <3>3. QED
      BY <2>1, <3>2 DEF Called
  <2>5. QED
    BY <2>3, <2>4
<1>2. TypeInv /\ PlaceInv => OneWishPerCustomer
  BY <1>1 DEF OneWishPerCustomer
<1>3. QED
  BY <1>2, LunchInvariant, PTL

\* The first signal means that the order is in the kitchen, the second that the
\* food is there.
THEOREM SignalsMean == Spec => []SignalsMeanWhatTheySay
<1>1. ASSUME TypeInv, PlaceInv, NEW c \in Customers
      PROVE  /\ cpc[c] = "await_food" => Queued(c) = 0
             /\ cpc[c] \in {"served", "eating", "set_time", "finished", "left"} => Wishes(c) = 0
  <2>0. TypeOK /\ StageInv
    BY <1>1 DEF TypeInv, PlaceInv
  <2>1. StageOf(c)
    BY <2>0 DEF StageInv
  <2>2. cpc[c] = "await_food" => Queued(c) = 0
    <3>1. SUFFICES ASSUME cpc[c] = "await_food" PROVE Queued(c) = 0
      OBVIOUS
    <3>2. ~ InLine(c) /\ ~ InHand(c)
      BY <2>1, <3>1 DEF StageOf, Untold
    <3>3. QED
      BY <1>1, <3>2, WishCounts DEF Num
  <2>3. cpc[c] \in {"served", "eating", "set_time", "finished", "left"} => Wishes(c) = 0
    <3>1. SUFFICES ASSUME cpc[c] \in {"served", "eating", "set_time", "finished", "left"}
                   PROVE  Wishes(c) = 0
      OBVIOUS
    <3>2. ~ InLine(c) /\ ~ InHand(c) /\ ~ Listed(c) /\ ~ Cooking(c)
      BY <2>0, <3>1, NoPlaces DEF CustomerLabels
    <3>3. QED
      BY <1>1, <3>2, WishCounts DEF Wishes, Num
  <2>4. QED
    BY <2>2, <2>3
<1>2. TypeInv /\ PlaceInv => SignalsMeanWhatTheySay
  BY <1>1 DEF SignalsMeanWhatTheySay
<1>3. QED
  BY <1>2, LunchInvariant, PTL

-----------------------------------------------------------------------------
(* The wakeups.                                                              *)

\* A set to which only x can have been added, or from which only x can have gone.
LEMMA OneMoves ==
  ASSUME NEW S, NEW R, NEW x, IsFiniteSet(S), \A y \in S \cup R : y # x => (y \in R <=> y \in S)
  PROVE  /\ Cardinality(S) \in Nat /\ Cardinality(R) \in Nat
         /\ Cardinality(R) = Cardinality(S) + Num(x \in R) - Num(x \in S)
<1>0. IsFiniteSet(S) /\ Cardinality(S) \in Nat
  BY FS_CardinalityType
<1>1. CASE (x \in R <=> x \in S)
  <2>1. R = S
    BY <1>1
  <2>2. QED
    BY <1>0, <1>1, <2>1 DEF Num
<1>2. CASE x \in R /\ x \notin S
  <2>1. R = S \cup {x}
    BY <1>2
  <2>2. QED
    BY <1>0, <1>2, <2>1, CountOne DEF Num
<1>3. CASE x \notin R /\ x \in S
  <2>1. R = S \ {x}
    BY <1>3
  <2>2. Cardinality(R) = Cardinality(S) - 1 /\ Cardinality(S) >= 1
    BY <1>0, <1>3, <2>1, CountOne
  <2>3. QED
    BY <1>0, <1>3, <2>2 DEF Num
<1>4. QED
  BY <1>1, <1>2, <1>3

\* Those who are about to wake waiter w, and those who have to do with the cooks' wakeups.
Knocking(w) == {c \in Customers : cpc[c] = "queued" /\ cwaiter[c] = w}
CallingCook == {w \in Waiters : wpc[w] = "call_cook"}
Fetching    == {k \in Cooks : kpc[k] = "fetch"}

Awake(w)    == Num(wpc[w] \in {"look", "take"})
Dish(w)     == Num(FR[w] # NOBODY /\ wpc[w] # "serve")

Covered(w) ==
  waiter[w] + Cardinality(Knocking(w)) + Cardinality(Notifying(w)) + Awake(w)
    >= Len(WQ[w]) + Dish(w)
KitchenCovered == cook + Cardinality(CallingCook) + Cardinality(Fetching) = Len(CQ)
Announced(w) == wpc[w] = "take" /\ FR[w] # NOBODY => waiter[w] > 0 \/ Notifying(w) # {}

WakeInv == /\ \A w \in Waiters : Covered(w) /\ Announced(w)
           /\ KitchenCovered

\* The wakeups and the announced marks, waiter by waiter, and the kitchen.
LEMMA WakeParts == /\ WakeInv <=> WakeupsCoverWork /\ MarkInv
                   /\ WakeInv' <=> /\ \A w \in Waiters : Covered(w)' /\ Announced(w)'
                                   /\ KitchenCovered'
BY DEF WakeInv, WakeupsCoverWork, MarkInv, Covered, Awake, Dish, Announced, KitchenCovered, Knocking, Notifying,
   CallingCook, Fetching

\* The counts are numbers.
LEMMA WakeNumbers ==
  ASSUME TypeOK, NEW w \in Waiters
  PROVE  /\ IsFiniteSet(Knocking(w)) /\ Cardinality(Knocking(w)) \in Nat
         /\ IsFiniteSet(Notifying(w)) /\ Cardinality(Notifying(w)) \in Nat
         /\ IsFiniteSet(CallingCook) /\ Cardinality(CallingCook) \in Nat
         /\ IsFiniteSet(Fetching) /\ Cardinality(Fetching) \in Nat
         /\ waiter[w] \in Nat /\ Len(WQ[w]) \in Nat /\ cook \in Nat /\ Len(CQ) \in Nat
<1>1. /\ Knocking(w) \in SUBSET Customers /\ Notifying(w) \in SUBSET Cooks
      /\ CallingCook \in SUBSET Waiters /\ Fetching \in SUBSET Cooks
  BY DEF Knocking, Notifying, CallingCook, Fetching
<1>2. WQ[w] \in Seq(Customers) /\ CQ \in Seq(Orders) /\ waiter[w] \in Nat /\ cook \in Nat
  BY DEF TypeOK
<1>3. Len(WQ[w]) \in Nat /\ Len(CQ) \in Nat
  BY <1>2, LenProperties
<1>4. QED
  BY <1>1, <1>2, <1>3, ProcessesAreFinite

\* A step that changes none of the things that are counted.
LEMMA CoverKept ==
  ASSUME NEW w \in Waiters, Covered(w), Announced(w), waiter'[w] = waiter[w], WQ'[w] = WQ[w],
         FR'[w] = FR[w], wpc'[w] = wpc[w], Knocking(w)' = Knocking(w), Notifying(w)' = Notifying(w)
  PROVE  Covered(w)' /\ Announced(w)'
BY DEF Covered, Announced, Awake, Dish

\* The terms of Covered as numbers: a customer joins the queue, and knocks.
LEMMA KnockOnTheDoor ==
  ASSUME NEW a \in Nat, NEW i \in Nat, NEW j \in Nat, NEW l \in Nat,
         NEW x \in {0, 1}, NEW y \in {0, 1}, a + i + j + x >= l + y
  PROVE  /\ a + (i + 1) + j + x >= (l + 1) + y
         /\ (a + 1) + (i - 1) + j + x >= l + y
OBVIOUS

\* The customers' steps.
LEMMA CustomerWakes ==
  ASSUME TypeOK, WakeInv, NEW d \in Customers, CustomerStep(d)
  PROVE  WakeInv'
<1>1. /\ CQ' = CQ /\ FR' = FR /\ wpc' = wpc /\ kpc' = kpc /\ korder' = korder /\ cook' = cook
      /\ \A c \in Customers \ {d} : cpc'[c] = cpc[c] /\ cwaiter'[c] = cwaiter[c]
  BY CustomerLeaves
<1>2. KitchenCovered'
  BY <1>1 DEF WakeInv, KitchenCovered, CallingCook, Fetching
<1>3. ASSUME NEW w \in Waiters
      PROVE  Covered(w)' /\ Announced(w)'
  <2>0. Covered(w) /\ Announced(w)
    BY DEF WakeInv
  <2>1. Notifying(w)' = Notifying(w)
    BY <1>1 DEF Notifying
  <2>n. Awake(w)' = Awake(w) /\ Dish(w)' = Dish(w) /\ Awake(w) \in {0, 1} /\ Dish(w) \in {0, 1}
    BY <1>1 DEF Awake, Dish, Num
  <2>2. /\ Cardinality(Knocking(w)) \in Nat
        /\ Cardinality(Knocking(w)') = Cardinality(Knocking(w)) + Num(d \in Knocking(w)') - Num(d \in Knocking(w))
    <3>1. \A c \in Knocking(w) \cup Knocking(w)' : c # d => (c \in Knocking(w)' <=> c \in Knocking(w))
      BY <1>1 DEF Knocking
    <3>2. QED
      BY <3>1, WakeNumbers, OneMoves
  <2>3. /\ Cardinality(Notifying(w)) \in Nat /\ waiter[w] \in Nat /\ Len(WQ[w]) \in Nat
    BY WakeNumbers
  <2>s. waiter[w] + Cardinality(Knocking(w)) + Cardinality(Notifying(w)) + Awake(w)
          >= Len(WQ[w]) + Dish(w)
    BY <2>0 DEF Covered
  <2>4. CASE eq_WQ(d)
    <3>1. /\ waiter' = waiter /\ cpc[d] = "chosen" /\ cpc'[d] = "queued" /\ cwaiter' = cwaiter
          /\ WQ'[w] = IF w = cwaiter[d] THEN Append(WQ[w], d) ELSE WQ[w]
      BY <2>4 DEF eq_WQ, CustomerGoes, TypeOK, sems
    <3>2. CASE w = cwaiter[d]
      <4>1. d \notin Knocking(w) /\ d \in Knocking(w)'
        BY <3>1, <3>2 DEF Knocking
      <4>2. Len(WQ'[w]) = Len(WQ[w]) + 1
        <5>1. WQ[w] \in Seq(Customers)
          BY DEF TypeOK
        <5>2. QED
          BY <3>1, <3>2, <5>1, AppendedQueue
      <4>3. Cardinality(Knocking(w)') = Cardinality(Knocking(w)) + 1
        BY <2>2, <4>1 DEF Num
      <4>4. Covered(w)'
        <5>1. waiter[w] + (Cardinality(Knocking(w)) + 1) + Cardinality(Notifying(w)) + Awake(w)
                >= (Len(WQ[w]) + 1) + Dish(w)
          BY <2>2, <2>3, <2>n, <2>s, KnockOnTheDoor
        <5>2. waiter'[w] = waiter[w]
          BY <3>1
        <5>3. QED
          BY <2>1, <2>n, <4>2, <4>3, <5>1, <5>2 DEF Covered
      <4>5. QED
        BY <1>1, <2>0, <2>1, <3>1, <4>4 DEF Announced
    <3>3. CASE w # cwaiter[d]
      <4>1. d \notin Knocking(w) /\ d \notin Knocking(w)'
        BY <3>1, <3>3 DEF Knocking
      <4>2. Cardinality(Knocking(w)') = Cardinality(Knocking(w)) /\ WQ'[w] = WQ[w]
        BY <2>2, <3>1, <3>3, <4>1 DEF Num
      <4>3. Covered(w)'
        BY <2>0, <2>1, <2>n, <3>1, <4>2 DEF Covered
      <4>4. QED
        BY <1>1, <2>0, <2>1, <3>1, <4>3 DEF Announced
    <3>4. QED
      BY <3>2, <3>3
  <2>5. CASE WakeWaiter(d)
    <3>1. /\ cpc[d] = "queued" /\ cpc'[d] = "await_order" /\ cwaiter' = cwaiter /\ WQ' = WQ
          /\ waiter'[w] = IF w = cwaiter[d] THEN waiter[w] + 1 ELSE waiter[w]
      BY <2>5 DEF WakeWaiter, CustomerGoes, TypeOK, M
    <3>2. CASE w = cwaiter[d]
      <4>1. d \in Knocking(w) /\ d \notin Knocking(w)'
        BY <3>1, <3>2 DEF Knocking
      <4>2. Cardinality(Knocking(w)') = Cardinality(Knocking(w)) - 1
        BY <2>2, <4>1 DEF Num
      <4>3. waiter'[w] = waiter[w] + 1
        BY <3>1, <3>2
      <4>4. Covered(w)'
        <5>1. (waiter[w] + 1) + (Cardinality(Knocking(w)) - 1) + Cardinality(Notifying(w)) + Awake(w)
                >= Len(WQ[w]) + Dish(w)
          BY <2>2, <2>3, <2>n, <2>s, KnockOnTheDoor
        <5>2. WQ'[w] = WQ[w]
          BY <3>1
        <5>3. QED
          BY <2>1, <2>n, <4>2, <4>3, <5>1, <5>2 DEF Covered
      <4>5. QED
        BY <1>1, <2>0, <2>1, <2>3, <4>3, <4>4 DEF Announced
    <3>3. CASE w # cwaiter[d]
      <4>1. d \notin Knocking(w) /\ d \notin Knocking(w)'
        BY <3>1, <3>3 DEF Knocking
      <4>2. Cardinality(Knocking(w)') = Cardinality(Knocking(w)) /\ waiter'[w] = waiter[w]
        BY <2>2, <3>1, <3>3, <4>1 DEF Num
      <4>3. Covered(w)'
        BY <2>0, <2>1, <2>n, <3>1, <4>2 DEF Covered
      <4>4. QED
        BY <1>1, <2>0, <2>1, <4>2, <4>3 DEF Announced
    <3>4. QED
      BY <3>2, <3>3
  <2>6. CASE ~ (eq_WQ(d) \/ WakeWaiter(d))
    <3>1. waiter' = waiter /\ WQ' = WQ
      BY <2>6 DEF CustomerStep, Enter, ChooseWaiter, AwaitSignal, Eat, CheckEatingTime,
         SetEatingTime, FreeTable, M, sems
    <3>2. cpc[d] # "queued" /\ cpc'[d] # "queued"
      BY <2>6 DEF CustomerStep, Enter, ChooseWaiter, AwaitSignal, Eat, CheckEatingTime,
         SetEatingTime, FreeTable, CustomerGoes, TypeOK
    <3>3. Knocking(w)' = Knocking(w)
      BY <1>1, <3>2 DEF Knocking
    <3>4. QED
      BY <1>1, <2>0, <2>1, <3>1, <3>3, CoverKept
  <2>7. QED
    BY <2>4, <2>5, <2>6
<1>4. QED
  BY <1>2, <1>3, WakeParts

\* The waiters' steps.
LEMMA WaiterWakes ==
  ASSUME TypeInv, PlaceInv, WakeInv, NEW w \in Waiters, WaiterStep(w)
  PROVE  WakeInv'
<1>0. TypeOK /\ HandInv
  BY DEF TypeInv
<1>1. /\ cpc' = cpc /\ cwaiter' = cwaiter /\ kpc' = kpc /\ korder' = korder
      /\ \A v \in Waiters \ {w} : /\ wpc'[v] = wpc[v] /\ WQ'[v] = WQ[v] /\ FR'[v] = FR[v]
                                  /\ waiter'[v] = waiter[v]
      /\ ~ eq_CQ(w) => CQ' = CQ
      /\ ~ dq_WQ(w) => WQ' = WQ
      /\ ~ Serve(w) => FR' = FR
  BY <1>0, WaiterLeaves
<1>2. \A v \in Waiters : Knocking(v)' = Knocking(v) /\ Notifying(v)' = Notifying(v)
  BY <1>1 DEF Knocking, Notifying
<1>3. KitchenCovered'
  <2>1. Fetching' = Fetching
    BY <1>1 DEF Fetching
  <2>2. /\ Cardinality(CallingCook) \in Nat /\ Cardinality(CallingCook') \in Nat
        /\ Cardinality(CallingCook') = Cardinality(CallingCook) + Num(w \in CallingCook') - Num(w \in CallingCook)
    <3>1. \A v \in CallingCook \cup CallingCook' : v # w => (v \in CallingCook' <=> v \in CallingCook)
      BY <1>1 DEF CallingCook
    <3>2. QED
      BY <1>0, <3>1, WakeNumbers, OneMoves
  <2>3. KitchenCovered /\ Cardinality(Fetching) \in Nat /\ cook \in Nat /\ Len(CQ) \in Nat
    BY <1>0, WakeNumbers DEF WakeInv
  <2>4. CASE eq_CQ(w)
    <3>1. cook' = cook /\ wpc[w] = "post" /\ wpc'[w] = "call_cook"
      BY <1>0, <2>4 DEF eq_CQ, WaiterGoes, TypeOK, sems
    <3>2. w \notin CallingCook /\ w \in CallingCook'
      BY <3>1 DEF CallingCook
    <3>3. Len(CQ') = Len(CQ) + 1
      <4>1. CQ \in Seq(Orders) /\ CQ' \in Seq(Orders)
        BY <1>0, WaiterGroups DEF TypeOK
      <4>2. \E o : CQ' = Append(CQ, o)
        BY <2>4 DEF eq_CQ
      <4>3. QED
        BY <4>1, <4>2
    <3>4. Cardinality(CallingCook') = Cardinality(CallingCook) + 1
      BY <2>2, <3>2 DEF Num
    <3>5. cook + Cardinality(CallingCook) + Cardinality(Fetching) = Len(CQ)
      BY <2>3 DEF KitchenCovered
    <3>6. cook + (Cardinality(CallingCook) + 1) + Cardinality(Fetching) = Len(CQ) + 1
      BY <2>2, <2>3, <3>5
    <3>7. QED
      BY <2>1, <3>1, <3>3, <3>4, <3>6 DEF KitchenCovered
  <2>5. CASE CallCook(w)
    <3>1. cook' = cook + 1 /\ wpc[w] = "call_cook" /\ wpc'[w] = "call_customer" /\ CQ' = CQ
      BY <1>0, <2>5 DEF CallCook, WaiterGoes, TypeOK, M
    <3>2. w \in CallingCook /\ w \notin CallingCook'
      BY <3>1 DEF CallingCook
    <3>3. QED
      BY <2>1, <2>2, <2>3, <3>1, <3>2 DEF KitchenCovered, Num
  <2>6. CASE WaiterFails(w)
    <3>1. CQ = <<>> /\ ~ Busy(w)
      BY <2>6, NothingLeft DEF WaiterFails
    <3>2. wpc'[w] = "left" /\ cook' = cook /\ CQ' = CQ
      BY <1>0, <2>6 DEF WaiterFails, WaiterGoes, TypeOK, M, sems
    <3>3. w \notin CallingCook /\ w \notin CallingCook'
      BY <3>1, <3>2 DEF CallingCook, Busy
    <3>4. QED
      BY <2>1, <2>2, <2>3, <3>2, <3>3 DEF KitchenCovered, Num
  <2>7. CASE ~ (eq_CQ(w) \/ CallCook(w) \/ WaiterFails(w))
    <3>1. cook' = cook /\ CQ' = CQ
      BY <1>1, <2>7 DEF WaiterStep, WaitForWork, Look, dq_WQ, CheckTakingTime, SetTakingTime,
         BookOrder, CallCustomer, Serve, sems
    <3>2. wpc[w] # "call_cook" /\ wpc'[w] # "call_cook"
      BY <1>0, <2>7 DEF WaiterStep, WaiterGoes, WaitForWork, Look, dq_WQ, CheckTakingTime,
         SetTakingTime, BookOrder, CallCustomer, Serve, TypeOK
    <3>3. CallingCook' = CallingCook
      BY <1>1, <3>2 DEF CallingCook
    <3>4. QED
      BY <2>1, <2>3, <3>1, <3>3 DEF KitchenCovered
  <2>8. QED
    BY <2>4, <2>5, <2>6, <2>7
<1>4. ASSUME NEW v \in Waiters, v # w
      PROVE  Covered(v)' /\ Announced(v)'
  BY <1>1, <1>2, <1>4, CoverKept DEF WakeInv
<1>5. Covered(w)' /\ Announced(w)'
  <2>0. Covered(w) /\ Announced(w) /\ Knocking(w)' = Knocking(w) /\ Notifying(w)' = Notifying(w)
    BY <1>2 DEF WakeInv
  <2>1. /\ Cardinality(Knocking(w)) \in Nat /\ Cardinality(Notifying(w)) \in Nat
        /\ waiter[w] \in Nat /\ Len(WQ[w]) \in Nat /\ IsFiniteSet(Notifying(w))
    BY <1>0, WakeNumbers
  <2>2. Notifying(w) # {} => Cardinality(Notifying(w)) >= 1
    BY <2>1, FS_EmptySet
  <2>n. Awake(w) \in {0, 1} /\ Dish(w) \in {0, 1}
    BY DEF Awake, Dish, Num
  <2>3. CASE dq_WQ(w)
    <3>1. waiter' = waiter /\ FR' = FR /\ wpc[w] = "take"
      BY <2>3 DEF dq_WQ, sems
    <3>2. CASE WQ[w] = <<>>
      <4>1. WQ' = WQ /\ wpc'[w] \in {"left", "idle"}
        BY <1>0, <2>3, <3>2 DEF dq_WQ, WaiterGoes, TypeOK
      <4>2. Len(WQ[w]) = 0
        BY <3>2
      <4>3. FR[w] # NOBODY => waiter[w] + Cardinality(Notifying(w)) >= 1
        BY <2>0, <2>1, <2>2, <3>1 DEF Announced
      <4>4. /\ Awake(w)' = 0
            /\ Dish(w)' <= waiter[w] + Cardinality(Notifying(w))
        BY <2>1, <3>1, <4>1, <4>3 DEF Awake, Dish, Num
      <4>5. Dish(w)' \in {0, 1} /\ Len(WQ'[w]) = 0
        BY <4>1, <4>2 DEF Dish, Num
      <4>6. Covered(w)'
        BY <2>0, <2>1, <3>1, <4>4, <4>5 DEF Covered
      <4>7. QED
        BY <4>1, <4>6 DEF Announced
    <3>3. CASE WQ[w] # <<>>
      <4>1. wpc'[w] = "order" /\ WQ'[w] = Tail(WQ[w])
        BY <1>0, <2>3, <3>3 DEF dq_WQ, WaiterGoes, TypeOK
      <4>2. Len(WQ'[w]) = Len(WQ[w]) - 1
        <5>1. WQ[w] \in Seq(Customers)
          BY <1>0 DEF TypeOK
        <5>2. QED
          BY <3>3, <4>1, <5>1, FirstAndRest
      <4>3. Awake(w) = 1 /\ Awake(w)' = 0 /\ Dish(w)' = Dish(w)
        BY <3>1, <4>1 DEF Awake, Dish, Num
      <4>4. Covered(w)'
        BY <2>0, <2>1, <2>n, <3>1, <4>2, <4>3 DEF Covered
      <4>5. QED
        BY <4>1, <4>4 DEF Announced
    <3>4. QED
      BY <3>2, <3>3
  <2>4. CASE WaitForWork(w)
    <3>1. /\ waiter'[w] = waiter[w] - 1 /\ wpc[w] = "idle" /\ wpc'[w] = "look" /\ WQ' = WQ /\ FR' = FR
      BY <1>0, <2>4 DEF WaitForWork, WaiterGoes, TypeOK, M
    <3>4. Awake(w) = 0 /\ Awake(w)' = 1 /\ Dish(w)' = Dish(w)
      BY <3>1 DEF Awake, Dish, Num
    <3>2. Covered(w)'
      BY <2>0, <2>1, <2>n, <3>1, <3>4 DEF Covered
    <3>3. QED
      BY <3>1, <3>2 DEF Announced
  <2>5. CASE Look(w)
    <3>1. /\ waiter' = waiter /\ wpc[w] = "look" /\ WQ' = WQ /\ FR' = FR
          /\ wpc'[w] = IF FR[w] = NOBODY THEN "take" ELSE "serve"
      BY <1>0, <2>5 DEF Look, WaiterGoes, TypeOK, M, sems
    <3>4. /\ Awake(w) = 1
          /\ \/ Awake(w)' = 1 /\ Dish(w) = 0 /\ Dish(w)' = 0
             \/ Awake(w)' = 0 /\ Dish(w) = 1 /\ Dish(w)' = 0
      BY <3>1 DEF Awake, Dish, Num
    <3>2. Covered(w)'
      BY <2>0, <2>1, <3>1, <3>4 DEF Covered
    <3>3. QED
      BY <3>1, <3>2 DEF Announced
  <2>6. CASE Serve(w)
    <3>1. /\ waiter' = waiter /\ wpc[w] = "serve" /\ WQ' = WQ /\ FR'[w] = NOBODY /\ wpc'[w] = "bring"
      BY <1>0, <2>6 DEF Serve, WaiterGoes, TypeOK, sems
    <3>4. Awake(w) = 0 /\ Awake(w)' = 0 /\ Dish(w)' = 0
      BY <3>1 DEF Awake, Dish, Num
    <3>2. Covered(w)'
      BY <2>0, <2>1, <2>n, <3>1, <3>4 DEF Covered
    <3>3. QED
      BY <3>1, <3>2 DEF Announced
  <2>7. CASE WaiterFails(w)
    <3>1. WQ[w] = <<>> /\ FR[w] = NOBODY
      BY <2>7, NothingLeft DEF WaiterFails
    <3>2. WQ' = WQ /\ FR' = FR /\ waiter' = waiter /\ wpc'[w] = "left" /\ Len(WQ[w]) = 0
      BY <1>0, <2>7, <3>1 DEF WaiterFails, M, sems, WaiterGoes, TypeOK
    <3>5. Awake(w)' = 0 /\ Dish(w)' = 0
      BY <3>1, <3>2 DEF Awake, Dish, Num
    <3>3. Covered(w)'
      BY <2>0, <2>1, <3>2, <3>5 DEF Covered
    <3>4. QED
      BY <3>2, <3>3 DEF Announced
  <2>8. CASE ~ (dq_WQ(w) \/ WaitForWork(w) \/ Look(w) \/ Serve(w) \/ WaiterFails(w))
    <3>1. waiter' = waiter /\ WQ' = WQ /\ FR' = FR
      BY <1>1, <2>8 DEF WaiterStep, CheckTakingTime, SetTakingTime, BookOrder, eq_CQ, CallCook,
         CallCustomer, sems
    <3>2. wpc[w] \notin {"look", "take", "serve"} /\ wpc'[w] \notin {"look", "take", "serve"}
      BY <1>0, <2>8 DEF WaiterStep, CheckTakingTime, SetTakingTime, BookOrder, eq_CQ, CallCook,
         CallCustomer, WaiterGoes, TypeOK
    <3>5. Awake(w)' = Awake(w) /\ Dish(w)' = Dish(w)
      BY <3>1, <3>2 DEF Awake, Dish, Num
    <3>3. Covered(w)'
      BY <2>0, <3>1, <3>5 DEF Covered
    <3>4. QED
      BY <3>2, <3>3 DEF Announced
  <2>9. QED
    BY <2>3, <2>4, <2>5, <2>6, <2>7, <2>8
<1>6. QED
  BY <1>3, <1>4, <1>5, WakeParts

\* The cooks' steps.
LEMMA CookKitchen ==
  ASSUME TypeInv, PlaceInv, WakeInv, NEW k \in Cooks, CookStep(k)
  PROVE  KitchenCovered'
<1>0. TypeOK
  BY DEF TypeInv
<1>1. CallingCook' = CallingCook
  BY <1>0, CookLeaves DEF CallingCook
<1>2. /\ Cardinality(Fetching) \in Nat /\ Cardinality(Fetching') \in Nat
      /\ Cardinality(Fetching') = Cardinality(Fetching) + Num(k \in Fetching') - Num(k \in Fetching)
  <2>0. \A j \in Cooks \ {k} : kpc'[j] = kpc[j]
    BY <1>0, CookLeaves
  <2>1. \A j \in Fetching \cup Fetching' : j # k => (j \in Fetching' <=> j \in Fetching)
    BY <2>0 DEF Fetching
  <2>2. IsFiniteSet(Fetching)
    BY <1>0, Sizes, WakeNumbers
  <2>3. QED
    BY <2>1, <2>2, OneMoves
<1>3. KitchenCovered /\ Cardinality(CallingCook) \in Nat /\ cook \in Nat /\ Len(CQ) \in Nat
  BY <1>0, Sizes, WakeNumbers DEF WakeInv
<1>4. CASE WaitForOrder(k)
  <2>1. cook' = cook - 1 /\ kpc[k] = "idle" /\ kpc'[k] = "fetch" /\ CQ' = CQ
    BY <1>0, <1>4 DEF WaitForOrder, CookGoes, TypeOK, M
  <2>2. k \notin Fetching /\ k \in Fetching'
    BY <2>1 DEF Fetching
  <2>3. QED
    BY <1>1, <1>2, <1>3, <2>1, <2>2 DEF KitchenCovered, Num
<1>5. CASE dq_CQ(k)
  <2>1. k \in Fetching /\ cook' = cook
    BY <1>5 DEF dq_CQ, Fetching, sems
  <2>2. CQ # <<>>
    <3>1. SUFFICES ASSUME CQ = <<>> PROVE FALSE
      OBVIOUS
    <3>2. Len(CQ) = 0
      BY <3>1
    <3>3. Cardinality(Fetching) >= 1
      <4>1. IsFiniteSet(Fetching)
        BY <1>0, Sizes, WakeNumbers
      <4>2. QED
        BY <2>1, <4>1, CountOne
    <3>4. QED
      BY <1>2, <1>3, <3>2, <3>3 DEF KitchenCovered
  <2>3. kpc'[k] = "cooking" /\ CQ' = Tail(CQ)
    BY <1>0, <1>5, <2>2 DEF dq_CQ, CookGoes, TypeOK
  <2>4. Len(CQ') = Len(CQ) - 1
    <3>1. CQ \in Seq(Orders)
      BY <1>0 DEF TypeOK
    <3>2. QED
      BY <2>2, <2>3, <3>1, FirstAndRest
  <2>5. k \notin Fetching'
    BY <2>3 DEF Fetching
  <2>6. QED
    BY <1>1, <1>2, <1>3, <2>1, <2>4, <2>5 DEF KitchenCovered, Num
<1>6. CASE CookFails(k)
  <2>1. CQ = <<>> /\ cook' = cook /\ CQ' = CQ /\ kpc'[k] = "left"
    BY <1>0, <1>6, NothingLeft DEF CookFails, CookGoes, TypeOK, M, sems
  <2>2. Len(CQ) = 0 /\ k \notin Fetching'
    BY <2>1 DEF Fetching
  <2>3. k \notin Fetching
    <3>1. SUFFICES ASSUME k \in Fetching PROVE FALSE
      OBVIOUS
    <3>2. Cardinality(Fetching) >= 1
      <4>1. IsFiniteSet(Fetching)
        BY <1>0, Sizes, WakeNumbers
      <4>2. QED
        BY <3>1, <4>1, CountOne
    <3>3. QED
      BY <1>2, <1>3, <2>2, <3>2 DEF KitchenCovered
  <2>4. QED
    BY <1>1, <1>2, <1>3, <2>1, <2>2, <2>3 DEF KitchenCovered, Num
<1>7. CASE ~ (WaitForOrder(k) \/ dq_CQ(k) \/ CookFails(k))
  <2>1. cook' = cook /\ CQ' = CQ
    BY <1>7 DEF CookStep, CheckCookingTime, SetCookingTime, FoodReady, NotifyWaiter,
       wake_all_waiters, M, sems
  <2>2. kpc[k] # "fetch" /\ kpc'[k] # "fetch"
    BY <1>0, <1>7 DEF CookStep, CheckCookingTime, SetCookingTime, FoodReady, NotifyWaiter,
       wake_all_waiters, CookGoes, TypeOK
  <2>3. k \notin Fetching /\ k \notin Fetching'
    BY <2>2 DEF Fetching
  <2>4. QED
    BY <1>1, <1>2, <1>3, <2>1, <2>3 DEF KitchenCovered, Num
<1>8. QED
  BY <1>4, <1>5, <1>6, <1>7

\* The cooks' steps keep what wakes the waiters.
LEMMA CookCovers ==
  ASSUME TypeInv, PlaceInv, WakeInv, NEW k \in Cooks, CookStep(k), NEW w \in Waiters
  PROVE  Covered(w)' /\ Announced(w)'
<1>0. TypeOK
  BY DEF TypeInv
<1>1. /\ cpc' = cpc /\ cwaiter' = cwaiter /\ wpc' = wpc /\ WQ' = WQ
      /\ \A j \in Cooks \ {k} : kpc'[j] = kpc[j] /\ korder'[j] = korder[j]
      /\ ~ FoodReady(k) => FR' = FR
  BY <1>0, CookLeaves
<1>2. Knocking(w)' = Knocking(w) /\ Awake(w)' = Awake(w)
  BY <1>1 DEF Knocking, Awake
<1>3. /\ Cardinality(Notifying(w)) \in Nat /\ Cardinality(Notifying(w)') \in Nat
      /\ Cardinality(Notifying(w)')
           = Cardinality(Notifying(w)) + Num(k \in Notifying(w)') - Num(k \in Notifying(w))
  <2>1. \A j \in Notifying(w) \cup Notifying(w)' : j # k => (j \in Notifying(w)' <=> j \in Notifying(w))
    BY <1>1 DEF Notifying
  <2>2. IsFiniteSet(Notifying(w))
    BY <1>0, WakeNumbers
  <2>3. QED
    BY <2>1, <2>2, OneMoves
<1>4. /\ Covered(w) /\ Announced(w) /\ Cardinality(Knocking(w)) \in Nat /\ waiter[w] \in Nat
      /\ Len(WQ[w]) \in Nat
  BY <1>0, WakeNumbers DEF WakeInv
<1>5. Awake(w) \in {0, 1} /\ Dish(w) \in {0, 1} /\ Dish(w)' \in {0, 1}
  BY DEF Awake, Dish, Num
<1>a. /\ Cardinality(Knocking(w)') = Cardinality(Knocking(w)) /\ Awake(w)' = Awake(w)
       /\ Len(WQ'[w]) = Len(WQ[w])
       /\ waiter[w] + Cardinality(Knocking(w)) + Cardinality(Notifying(w)) + Awake(w)
            >= Len(WQ[w]) + Dish(w)
  <2>1. /\ Cardinality(Knocking(w)') = Cardinality(Knocking(w)) /\ Awake(w)' = Awake(w)
        /\ Len(WQ'[w]) = Len(WQ[w])
    BY <1>1, <1>2
  <2>2. QED
    BY <1>4, <2>1 DEF Covered
\* Numbers that stand for the terms of Covered: a dish more is worth a notification.
<1>b. ASSUME NEW a \in Nat, NEW i \in Nat, NEW j \in Nat, NEW l \in Nat,
              NEW x \in {0, 1}, NEW y \in {0, 1}, NEW z \in {0, 1}, a + i + j + x >= l + y
       PROVE  a + i + (j + 1) + x >= l + z
  BY <1>b
<1>6. CASE FoodReady(k)
  <2>1. /\ waiter' = waiter /\ korder' = korder /\ kpc[k] = "ready" /\ kpc'[k] = "notify"
        /\ w # korder[k].waiter_id => FR'[w] = FR[w]
    BY <1>0, <1>6 DEF FoodReady, CookGoes, TypeOK, sems
  <2>2. k \notin Notifying(w) /\ (k \in Notifying(w)' <=> w = korder[k].waiter_id)
    BY <2>1 DEF Notifying
  <2>3. CASE w = korder[k].waiter_id
    <3>1. Cardinality(Notifying(w)') = Cardinality(Notifying(w)) + 1 /\ k \in Notifying(w)'
      BY <1>3, <2>2, <2>3 DEF Num
    <3>2. Covered(w)'
      <4>1. waiter[w] + Cardinality(Knocking(w)) + (Cardinality(Notifying(w)) + 1) + Awake(w)
              >= Len(WQ[w]) + Dish(w)'
        BY <1>3, <1>4, <1>5, <1>a, <1>b
      <4>2. waiter'[w] = waiter[w]
        BY <2>1
      <4>3. QED
        BY <1>a, <3>1, <4>1, <4>2 DEF Covered
    <3>3. QED
      BY <3>1, <3>2 DEF Announced
  <2>4. CASE w # korder[k].waiter_id
    <3>1. Cardinality(Notifying(w)') = Cardinality(Notifying(w))
      BY <1>3, <2>2, <2>4 DEF Num
    <3>2. Dish(w)' = Dish(w)
      BY <1>1, <2>1, <2>4 DEF Dish
    <3>3. Covered(w)'
      BY <1>1, <1>2, <1>4, <2>1, <3>1, <3>2 DEF Covered
    <3>4. Announced(w)'
      <4>1. Notifying(w) \subseteq Notifying(w)'
        BY <1>1, <2>2 DEF Notifying
      <4>2. QED
        BY <1>1, <1>4, <2>1, <2>4, <4>1 DEF Announced
    <3>5. QED
      BY <3>3, <3>4
  <2>5. QED
    BY <2>3, <2>4
<1>7. CASE NotifyWaiter(k)
  <2>1. /\ kpc[k] = "notify" /\ kpc'[k] # "notify" /\ FR' = FR
        /\ waiter'[w] = IF w = korder[k].waiter_id THEN waiter[w] + 1 ELSE waiter[w]
    BY <1>0, <1>7 DEF NotifyWaiter, CookGoes, TypeOK, M
  <2>2. k \notin Notifying(w)' /\ (k \in Notifying(w) <=> w = korder[k].waiter_id)
    BY <2>1 DEF Notifying
  <2>3. Dish(w)' = Dish(w)
    BY <1>1, <2>1 DEF Dish
  <2>4. CASE w = korder[k].waiter_id
    <3>1. Cardinality(Notifying(w)') = Cardinality(Notifying(w)) - 1 /\ waiter'[w] = waiter[w] + 1
      BY <1>3, <2>1, <2>2, <2>4 DEF Num
    <3>2. Covered(w)'
      BY <1>1, <1>2, <1>3, <1>4, <1>5, <2>3, <3>1 DEF Covered
    <3>3. QED
      BY <1>4, <3>1, <3>2 DEF Announced
  <2>5. CASE w # korder[k].waiter_id
    <3>1. Cardinality(Notifying(w)') = Cardinality(Notifying(w)) /\ waiter'[w] = waiter[w]
      BY <1>3, <2>1, <2>2, <2>5 DEF Num
    <3>2. Covered(w)'
      BY <1>1, <1>2, <1>4, <2>3, <3>1 DEF Covered
    <3>3. Notifying(w) \subseteq Notifying(w)'
      BY <1>1, <2>2, <2>5 DEF Notifying
    <3>4. QED
      BY <1>1, <1>4, <2>1, <3>1, <3>2, <3>3 DEF Announced
  <2>6. QED
    BY <2>4, <2>5
<1>8. CASE CookFails(k)
  <2>1. WQ[w] = <<>> /\ FR[w] = NOBODY
    BY <1>8, NothingLeft DEF CookFails
  <2>2. WQ' = WQ /\ FR' = FR /\ waiter' = waiter /\ Len(WQ[w]) = 0
    BY <1>8, <2>1 DEF CookFails, M, sems
  <2>3. Dish(w)' = 0
    BY <2>1, <2>2 DEF Dish, Num
  <2>4. Covered(w)'
    BY <1>2, <1>3, <1>4, <1>5, <2>2, <2>3 DEF Covered
  <2>5. QED
    BY <2>1, <2>2, <2>4 DEF Announced
<1>9. CASE ~ (FoodReady(k) \/ NotifyWaiter(k) \/ CookFails(k))
  <2>1. FR' = FR /\ waiter'[w] \in Nat /\ waiter'[w] >= waiter[w]
    <3>1. CASE wake_all_waiters(k)
      <4>1. waiter \in [Waiters -> Nat] /\ waiter' = [waiter EXCEPT ![woken[k]] = @ + 1] /\ FR' = FR
        BY <1>0, <3>1 DEF wake_all_waiters, TypeOK, M
      <4>2. waiter'[w] = waiter[w] + 1 \/ waiter'[w] = waiter[w]
        BY <4>1
      <4>3. QED
        BY <1>4, <4>1, <4>2
    <3>2. CASE ~ wake_all_waiters(k)
      BY <1>4, <1>9, <3>2 DEF CookStep, WaitForOrder, dq_CQ, CheckCookingTime, SetCookingTime, M, sems
    <3>3. QED
      BY <3>1, <3>2
  <2>2. kpc[k] # "notify" /\ kpc'[k] # "notify"
    <3>1. CASE wake_all_waiters(k)
      <4>1. kpc[k] \in {"waking", "leaving"} /\ kpc'[k] \in {"waking", "leaving", "idle", "left"}
        BY <1>0, <3>1 DEF wake_all_waiters, CookGoes, TypeOK
      <4>2. QED
        BY <4>1
    <3>2. CASE ~ wake_all_waiters(k)
      BY <1>0, <1>9, <3>2 DEF CookStep, WaitForOrder, dq_CQ, CheckCookingTime, SetCookingTime,
         CookGoes, TypeOK
    <3>3. QED
      BY <3>1, <3>2
  <2>3. Notifying(w)' = Notifying(w)
    BY <1>1, <2>2 DEF Notifying
  <2>4. Dish(w)' = Dish(w)
    BY <1>1, <2>1 DEF Dish
  <2>5. Covered(w)'
    <3>1. /\ Cardinality(Notifying(w)') = Cardinality(Notifying(w))
          /\ Cardinality(Knocking(w)') = Cardinality(Knocking(w))
          /\ Len(WQ'[w]) = Len(WQ[w]) /\ Awake(w)' = Awake(w)
      BY <1>1, <1>2, <2>3
    <3>3. waiter'[w] \in Nat /\ waiter'[w] >= waiter[w] /\ Covered(w)
      BY <1>4, <2>1
    <3>4. /\ Cardinality(Notifying(w)) \in Nat /\ Cardinality(Knocking(w)) \in Nat
          /\ waiter[w] \in Nat /\ Len(WQ[w]) \in Nat
      BY <1>3, <1>4
    <3>5. ASSUME NEW a \in Nat, NEW b \in Nat, NEW i \in Nat, NEW j \in Nat, NEW l \in Nat,
                 NEW x \in {0, 1}, NEW y \in {0, 1}, a + i + j + x >= l + y, b >= a
          PROVE  b + i + j + x >= l + y
      BY <3>5
    <3>6. waiter[w] + Cardinality(Knocking(w)) + Cardinality(Notifying(w)) + Awake(w) >= Len(WQ[w]) + Dish(w)
      BY <3>3 DEF Covered
    <3>7. waiter'[w] + Cardinality(Knocking(w)) + Cardinality(Notifying(w)) + Awake(w) >= Len(WQ[w]) + Dish(w)
      BY <1>5, <3>3, <3>4, <3>5, <3>6
    <3>2. QED
      BY <2>4, <3>1, <3>7 DEF Covered
  <2>6. QED
    BY <1>1, <1>4, <2>1, <2>3, <2>5 DEF Announced
<1>10. QED
  BY <1>6, <1>7, <1>8, <1>9

\* The wrapper's steps, and those that change nothing.
LEMMA OtherWakes ==
  ASSUME TypeOK, DoorInv, WakeInv, Arrive \/ Cleanup \/ UNCHANGED vars
  PROVE  WakeInv'
<1>1. /\ CQ' = CQ /\ FR' = FR /\ wpc' = wpc /\ kpc' = kpc /\ korder' = korder /\ cook' = cook
      /\ waiter' = waiter /\ WQ' = WQ /\ cwaiter' = cwaiter
  BY DEF Arrive, Cleanup, vars, M, sems, customers, waiters, cooks
<1>2. \A c \in Customers : cpc'[c] = cpc[c] \/ (cpc[c] = "absent" /\ cpc'[c] = "door")
  <2>1. CASE Arrive
    <3>1. PICK d \in Customers : d = arrived + 1
      BY <2>1 DEF Arrive
    <3>2. d > arrived
      BY <3>1, Sizes DEF TypeOK
    <3>3. cpc[d] = "absent" /\ cpc' = [cpc EXCEPT ![d] = "door"]
      BY <2>1, <3>1, <3>2 DEF Arrive, CustomerGoes, DoorInv
    <3>4. QED
      BY <3>3 DEF TypeOK
  <2>2. CASE Cleanup \/ UNCHANGED vars
    BY <2>2 DEF Cleanup, vars, customers
  <2>3. QED
    BY <2>1, <2>2
<1>3. ASSUME NEW w \in Waiters
      PROVE  Covered(w)' /\ Announced(w)'
  <2>1. Knocking(w)' = Knocking(w) /\ Notifying(w)' = Notifying(w)
    BY <1>1, <1>2 DEF Knocking, Notifying
  <2>2. QED
    BY <1>1, <2>1, CoverKept DEF WakeInv
<1>4. KitchenCovered'
  BY <1>1 DEF WakeInv, KitchenCovered, CallingCook, Fetching
<1>5. QED
  BY <1>3, <1>4, WakeParts

\* At the start nobody waits.
LEMMA InitWakes == Init => WakeInv
<1> SUFFICES ASSUME Init PROVE WakeInv
  OBVIOUS
<1>1. Cardinality({}) = 0 /\ Len(<<>>) = 0
  BY FS_EmptySet
<1>2. ASSUME NEW w \in Waiters
      PROVE  Covered(w) /\ Announced(w)
  <2>1. Knocking(w) = {} /\ Notifying(w) = {}
    BY DEF Init, Knocking, Notifying
  <2>2. waiter[w] = 0 /\ WQ[w] = <<>> /\ wpc[w] = "idle" /\ FR[w] = NOBODY
    BY DEF Init
  <2>3. Awake(w) = 0 /\ Dish(w) = 0
    BY <2>2 DEF Awake, Dish, Num
  <2>4. QED
    BY <1>1, <2>1, <2>2, <2>3 DEF Covered, Announced
<1>3. KitchenCovered
  <2>1. CallingCook = {} /\ Fetching = {} /\ cook = 0 /\ CQ = <<>>
    BY DEF Init, CallingCook, Fetching
  <2>2. QED
    BY <1>1, <2>1 DEF KitchenCovered
<1>4. QED
  BY <1>2, <1>3 DEF WakeInv

\* No wakeup is lost.
THEOREM NoWakeupIsLost == Spec => []WakeupsCoverWork
<1>1. Init => WakeInv
  BY InitWakes
<1>2. ASSUME TypeInv /\ PlaceInv, WakeInv, [Next]_vars
      PROVE  WakeInv'
  <2>1. CASE Arrive \/ Cleanup \/ UNCHANGED vars
    BY <1>2, <2>1, OtherWakes DEF TypeInv, PlaceInv
  <2>2. CASE \E c \in Customers : CustomerStep(c)
    BY <1>2, <2>2, CustomerWakes DEF TypeInv
  <2>3. CASE \E w \in Waiters : WaiterStep(w)
    BY <1>2, <2>3, WaiterWakes
  <2>4. CASE \E k \in Cooks : CookStep(k)
    BY <1>2, <2>4, CookKitchen, CookCovers, WakeParts
  <2>5. QED
    BY <1>2, <2>1, <2>2, <2>3, <2>4 DEF Next
<1>3. WakeInv => WakeupsCoverWork
  BY WakeParts
<1>4. QED
  BY <1>1, <1>2, <1>3, LunchInvariant, PTL DEF Spec

\* So a cook that was woken finds an order: the code for the empty queue is dead.
THEOREM CooksFindOrders == Spec => []\A k \in Cooks : kpc[k] = "fetch" => CQ # <<>>
<1>1. ASSUME TypeInv, PlaceInv, WakeupsCoverWork, NEW k \in Cooks, kpc[k] = "fetch", CQ = <<>>
      PROVE  FALSE
  <2>1. TypeOK /\ Len(CQ) = 0 /\ k \in Fetching
    BY <1>1 DEF TypeInv, Fetching
  <2>2. cook + Cardinality(CallingCook) + Cardinality(Fetching) = Len(CQ)
    BY <1>1 DEF WakeupsCoverWork, CallingCook, Fetching
  <2>3. /\ cook \in Nat /\ Cardinality(CallingCook) \in Nat /\ Cardinality(Fetching) \in Nat
        /\ IsFiniteSet(Fetching)
    BY <2>1, Sizes, WakeNumbers
  <2>4. Cardinality(Fetching) >= 1
    BY <2>1, <2>3, CountOne
  <2>5. QED
    BY <2>1, <2>2, <2>3, <2>4
<1>2. TypeInv /\ PlaceInv /\ WakeupsCoverWork => \A k \in Cooks : kpc[k] = "fetch" => CQ # <<>>
  BY <1>1
<1>3. QED
  BY <1>2, LunchInvariant, NoWakeupIsLost, PTL

-----------------------------------------------------------------------------
(* The pending orders.                                                       *)

\* The orders of waiter w in the queue and on the stoves, and its mark.
InQueue(w)  == {i \in DOMAIN CQ : CQ[i].waiter_id = w}
OnStoves(w) == {k \in Cooks : Stove(k) /\ korder[k].waiter_id = w}
Mark(w)     == Num(FR[w] # NOBODY)
Posting(w)  == Num(wpc[w] = "post")

Kept(w) ==
  /\ PO[w] >= OrdersOf(w) + Posting(w)
  /\ ipc /\ wpc[w] = "left" => OrdersOf(w) = 0

\* PendingInv, waiter by waiter.
LEMMA PendingParts ==
  /\ PendingInv <=> \A w \in Waiters : Kept(w)
  /\ PendingInv' <=> \A w \in Waiters : Kept(w)'
BY DEF PendingInv, Kept, Posting

\* The three places in which a pending order can be.
LEMMA OrdersCounted ==
  ASSUME TypeOK, HandInv, NEW w \in Waiters
  PROVE  /\ OrdersOf(w) = Cardinality(InQueue(w)) + Cardinality(OnStoves(w)) + Mark(w)
         /\ IsFiniteSet(InQueue(w)) /\ Cardinality(InQueue(w)) \in Nat
         /\ IsFiniteSet(OnStoves(w)) /\ Cardinality(OnStoves(w)) \in Nat
         /\ Mark(w) \in {0, 1} /\ Posting(w) \in {0, 1} /\ PO[w] \in Int
         /\ OrdersOf(w) \in Nat
<1>1. OnStoves(w) = {k \in Cooks : OnStove(k) /\ korder[k].waiter_id = w}
  BY Sizes DEF OnStoves, OnStove, Stove, HandInv
<1>2. OnStoves(w) \in SUBSET Cooks
  BY DEF OnStoves
<1>3. IsFiniteSet(InQueue(w)) /\ Cardinality(InQueue(w)) \in Nat
  <2>1. CQ \in Seq(Orders)
    BY DEF TypeOK
  <2>2. Len(CQ) \in Nat /\ DOMAIN CQ = 1 .. Len(CQ)
    BY <2>1, LenProperties
  <2>3. IsFiniteSet(DOMAIN CQ) /\ InQueue(w) \subseteq DOMAIN CQ
    BY <2>2, FS_Interval DEF InQueue
  <2>4. QED
    BY <2>3, FS_Subset, FS_CardinalityType
<1>4. Mark(w) \in {0, 1} /\ Posting(w) \in {0, 1} /\ PO[w] \in Int
  BY DEF Mark, Posting, Num, TypeOK
<1>5. OrdersOf(w) = Cardinality(InQueue(w)) + Cardinality(OnStoves(w)) + Mark(w)
  BY <1>1 DEF OrdersOf, InQueue, Mark
<1>6. QED
  BY <1>2, <1>3, <1>4, <1>5, ProcessesAreFinite

\* The count after a step.
LEMMA OrdersCountedNext ==
  ASSUME TypeOK', HandInv', NEW w \in Waiters
  PROVE  /\ OrdersOf(w)' = Cardinality(InQueue(w)') + Cardinality(OnStoves(w)') + Mark(w)'
         /\ IsFiniteSet(InQueue(w)') /\ Cardinality(InQueue(w)') \in Nat
         /\ IsFiniteSet(OnStoves(w)') /\ Cardinality(OnStoves(w)') \in Nat
         /\ Mark(w)' \in {0, 1} /\ Posting(w)' \in {0, 1} /\ PO'[w] \in Int
         /\ OrdersOf(w)' \in Nat
<1>1. OnStoves(w)' = {k \in Cooks : OnStove(k)' /\ korder'[k].waiter_id = w}
  BY Sizes DEF OnStoves, OnStove, Stove, HandInv
<1>2. OnStoves(w)' \in SUBSET Cooks
  BY DEF OnStoves
<1>3. IsFiniteSet(InQueue(w)') /\ Cardinality(InQueue(w)') \in Nat
  <2>1. CQ' \in Seq(Orders)
    BY DEF TypeOK
  <2>2. Len(CQ') \in Nat /\ DOMAIN CQ' = 1 .. Len(CQ')
    BY <2>1, LenProperties
  <2>3. IsFiniteSet(DOMAIN CQ') /\ InQueue(w)' \subseteq DOMAIN CQ'
    BY <2>2, FS_Interval DEF InQueue
  <2>4. QED
    BY <2>3, FS_Subset, FS_CardinalityType
<1>4. Mark(w)' \in {0, 1} /\ Posting(w)' \in {0, 1} /\ PO'[w] \in Int
  BY DEF Mark, Posting, Num, TypeOK
<1>5. OrdersOf(w)' = Cardinality(InQueue(w)') + Cardinality(OnStoves(w)') + Mark(w)'
  BY <1>1 DEF OrdersOf, InQueue, Mark
<1>6. QED
  BY <1>2, <1>3, <1>4, <1>5, ProcessesAreFinite

\* The orders of a waiter in the queue without the first.
LEMMA WithoutFirst ==
  ASSUME TypeOK, CQ # <<>>, CQ' = Tail(CQ), NEW w \in Waiters
  PROVE  Cardinality(InQueue(w)') = Cardinality(InQueue(w)) - Num(CQ[1].waiter_id = w)
<1>1. CQ \in Seq(Orders)
  BY DEF TypeOK
<1>2. /\ Len(CQ) \in Nat /\ Len(CQ) >= 1 /\ DOMAIN CQ = 1 .. Len(CQ)
      /\ DOMAIN CQ' = 1 .. Len(CQ) - 1
      /\ \A i \in 1 .. Len(CQ) - 1 : CQ'[i] = CQ[i + 1]
  BY <1>1, FirstAndRest
<1> DEFINE A == InQueue(w)'
           B == InQueue(w) \ {1}
           f == [i \in A |-> i + 1]
<1>3. A = {i \in 1 .. Len(CQ) - 1 : CQ[i + 1].waiter_id = w}
  BY <1>2 DEF InQueue
<1>4. B = {i \in 2 .. Len(CQ) : CQ[i].waiter_id = w}
  BY <1>2 DEF InQueue
<1>5. IsFiniteSet(A) /\ IsFiniteSet(InQueue(w))
  <2>1. IsFiniteSet(1 .. Len(CQ)) /\ IsFiniteSet(1 .. Len(CQ) - 1)
    BY <1>2, FS_Interval
  <2>2. A \subseteq 1 .. Len(CQ) - 1 /\ InQueue(w) \subseteq 1 .. Len(CQ)
    BY <1>2, <1>3 DEF InQueue
  <2>3. QED
    <3> HIDE DEF A
    <3> QED
      BY <2>1, <2>2, FS_Subset
<1>6. f \in Bijection(A, B)
  <2>1. f \in [A -> B]
    BY <1>2, <1>3, <1>4
  <2>2. \A i, j \in A : f[i] = f[j] => i = j
    BY <1>2, <1>3
  <2>3. ASSUME NEW b \in B
        PROVE  \E i \in A : f[i] = b
    <3>1. b - 1 \in A /\ b - 1 + 1 = b
      BY <1>2, <1>3, <1>4
    <3>2. QED
      BY <3>1
  <2>4. f \in Injection(A, B)
    BY <2>1, <2>2 DEF Injection, IsInjective
  <2>5. f \in Surjection(A, B)
    BY <2>1, <2>3 DEF Surjection
  <2>6. QED
    BY <2>4, <2>5 DEF Bijection
<1>7. Cardinality(A) = Cardinality(B)
  <2>1. ExistsBijection(A, B)
    BY <1>6 DEF ExistsBijection
  <2> HIDE DEF A, B, f
  <2>2. QED
    BY <1>5, <2>1, FS_Bijection
<1>8. 1 \in InQueue(w) <=> CQ[1].waiter_id = w
  BY <1>2 DEF InQueue
<1>9. CASE 1 \in InQueue(w)
  BY <1>5, <1>7, <1>8, <1>9, CountOne DEF Num
<1>10. CASE 1 \notin InQueue(w)
  <2>1. B = InQueue(w)
    BY <1>10
  <2>2. Cardinality(InQueue(w)) \in Nat
    BY <1>5, CountOne
  <2>3. Cardinality(InQueue(w)') = Cardinality(InQueue(w)) /\ Num(CQ[1].waiter_id = w) = 0
    BY <1>7, <1>8, <1>10, <2>1 DEF Num
  <2>4. QED
    BY <2>2, <2>3
<1>11. QED
  BY <1>9, <1>10

\* The customers' and the wrapper's steps, and those that change nothing.
LEMMA OthersKeepPending ==
  ASSUME TypeOK, PendingInv,
         (\E d \in Customers : CustomerStep(d)) \/ Arrive \/ Cleanup \/ UNCHANGED vars
  PROVE  PendingInv'
<1>1. /\ CQ' = CQ /\ FR' = FR /\ PO' = PO /\ wpc' = wpc /\ kpc' = kpc /\ korder' = korder
      /\ ipc' => ipc
  <2>1. CASE \E d \in Customers : CustomerStep(d)
    BY <2>1, CustomerLeaves
  <2>2. CASE Arrive \/ Cleanup \/ UNCHANGED vars
    BY <2>2 DEF Arrive, Cleanup, vars, M, sems, waiters, cooks
  <2>3. QED
    BY <2>1, <2>2
<1>2. ASSUME NEW w \in Waiters
      PROVE  Kept(w)'
  <2>1. OrdersOf(w)' = OrdersOf(w) /\ Posting(w)' = Posting(w)
    BY <1>1 DEF OrdersOf, OnStove, Posting
  <2>2. QED
    BY <1>1, <2>1, PendingParts DEF Kept
<1>3. QED
  BY <1>2, PendingParts

\* The waiters' steps.
LEMMA WaiterPending ==
  ASSUME TypeInv, PlaceInv, PendingInv, NEW w \in Waiters, WaiterStep(w)
  PROVE  PendingInv'
<1>0. TypeOK /\ HandInv /\ TypeOK' /\ HandInv'
  BY WaiterTypes DEF TypeInv
<1>1. /\ kpc' = kpc /\ korder' = korder /\ ipc' = ipc
      /\ \A v \in Waiters \ {w} : wpc'[v] = wpc[v] /\ FR'[v] = FR[v] /\ PO'[v] = PO[v]
      /\ ~ eq_CQ(w) => CQ' = CQ
      /\ ~ Serve(w) => FR' = FR
  BY <1>0, WaiterLeaves
<1>2. \A v \in Waiters : OnStoves(v)' = OnStoves(v)
  BY <1>1 DEF OnStoves, Stove
<1>3. \A v \in Waiters : Kept(v)
  BY PendingParts
<1>4. ASSUME NEW v \in Waiters, v # w
      PROVE  Kept(v)'
  <2>1. InQueue(v)' = InQueue(v)
    <3>1. CASE eq_CQ(w)
      <4>1. CQ \in Seq(Orders) /\ CQ' \in Seq(Orders)
        BY <1>0 DEF TypeOK
      <4>2. PICK o \in Orders : CQ' = Append(CQ, o) /\ o.waiter_id = w
        <5>1. PICK c \in Customers : c = wcus[w]
          BY <1>0, <3>1 DEF eq_CQ, HandInv, Busy, AtTable
        <5>2. file.count[c] \in 0 .. 4
          BY <1>0, FileFields
        <5>3. [waiter_id |-> w, cus_id |-> c, cus_cnt |-> file.count[c]] \in Orders
          BY <5>2 DEF Orders
        <5>4. QED
          BY <3>1, <5>1, <5>3 DEF eq_CQ
      <4>3. /\ Len(CQ) \in Nat /\ DOMAIN CQ = 1 .. Len(CQ)
            /\ DOMAIN CQ' = 1 .. Len(CQ) + 1
            /\ \A i \in DOMAIN CQ : CQ'[i] = CQ[i]
            /\ CQ'[Len(CQ) + 1] = o
        BY <4>1, <4>2, AppendedQueue
      <4>4. DOMAIN CQ \subseteq DOMAIN CQ' /\ \A i \in DOMAIN CQ' : i \in DOMAIN CQ \/ i = Len(CQ) + 1
        BY <4>3
      <4>5. QED
        BY <1>4, <4>2, <4>3, <4>4 DEF InQueue
    <3>2. CASE ~ eq_CQ(w)
      BY <1>1, <3>2 DEF InQueue
    <3>3. QED
      BY <3>1, <3>2
  <2>2. Mark(v)' = Mark(v) /\ Posting(v)' = Posting(v)
    BY <1>1, <1>4 DEF Mark, Posting
  <2>3. OrdersOf(v)' = OrdersOf(v)
    <3>1. OrdersOf(v)' = Cardinality(InQueue(v)') + Cardinality(OnStoves(v)') + Mark(v)'
      BY <1>0, OrdersCountedNext
    <3>2. OrdersOf(v) = Cardinality(InQueue(v)) + Cardinality(OnStoves(v)) + Mark(v)
      BY <1>0, OrdersCounted
    <3>3. QED
      BY <1>2, <2>1, <2>2, <3>1, <3>2
  <2>4. QED
    BY <1>1, <1>3, <1>4, <2>2, <2>3 DEF Kept
<1>5. Kept(w)'
  <2>1. /\ OrdersOf(w)' = Cardinality(InQueue(w)') + Cardinality(OnStoves(w)') + Mark(w)'
        /\ OrdersOf(w) = Cardinality(InQueue(w)) + Cardinality(OnStoves(w)) + Mark(w)
        /\ Cardinality(OnStoves(w)') = Cardinality(OnStoves(w))
        /\ Cardinality(InQueue(w)) \in Nat /\ Cardinality(OnStoves(w)) \in Nat
        /\ Mark(w) \in {0, 1} /\ Posting(w) \in {0, 1} /\ PO[w] \in Int
        /\ Mark(w)' \in {0, 1} /\ Posting(w)' \in {0, 1} /\ PO'[w] \in Int
        /\ OrdersOf(w) \in Nat
    BY <1>0, <1>2, OrdersCounted, OrdersCountedNext
  <2>2. Kept(w)
    BY <1>3
  <2>3. CASE eq_CQ(w)
    <3>1. wpc[w] = "post" /\ wpc'[w] = "call_cook" /\ PO' = PO /\ FR' = FR
      BY <1>0, <2>3 DEF eq_CQ, WaiterGoes, TypeOK
    <3>2. Cardinality(InQueue(w)') <= Cardinality(InQueue(w)) + 1 /\ Cardinality(InQueue(w)') \in Nat
      <4>1. CQ \in Seq(Orders) /\ CQ' \in Seq(Orders)
        BY <1>0 DEF TypeOK
      <4>2. PICK o : CQ' = Append(CQ, o)
        BY <2>3 DEF eq_CQ
      <4>3. /\ Len(CQ) \in Nat /\ DOMAIN CQ = 1 .. Len(CQ) /\ DOMAIN CQ' = 1 .. Len(CQ) + 1
            /\ \A i \in DOMAIN CQ : CQ'[i] = CQ[i]
        BY <4>1, <4>2
      <4>4. \A i \in InQueue(w) \cup InQueue(w)' : i # Len(CQ) + 1 => (i \in InQueue(w)' <=> i \in InQueue(w))
        BY <4>3 DEF InQueue
      <4>5. IsFiniteSet(InQueue(w))
        BY <1>0, OrdersCounted
      <4>6. /\ Cardinality(InQueue(w)) \in Nat /\ Cardinality(InQueue(w)') \in Nat
            /\ Cardinality(InQueue(w)') = Cardinality(InQueue(w))
                 + Num(Len(CQ) + 1 \in InQueue(w)') - Num(Len(CQ) + 1 \in InQueue(w))
        BY <4>4, <4>5, OneMoves
      <4>7. QED
        BY <4>6 DEF Num
    <3>3. Posting(w) = 1 /\ Posting(w)' = 0 /\ Mark(w)' = Mark(w)
      BY <3>1 DEF Posting, Mark, Num
    <3>4. OrdersOf(w)' <= OrdersOf(w) + 1
      BY <2>1, <3>2, <3>3
    <3>5. PO'[w] >= OrdersOf(w)' + Posting(w)'
      <4>1. OrdersOf(w)' \in Nat
        BY <1>0, OrdersCountedNext
      <4>2. QED
        BY <2>1, <2>2, <3>1, <3>3, <3>4, <4>1 DEF Kept
    <3>6. QED
      BY <3>1, <3>5 DEF Kept
  <2>4. CASE Serve(w)
    <3>1. /\ wpc[w] = "serve" /\ wpc'[w] = "bring" /\ PO'[w] = PO[w] - 1 /\ FR'[w] = NOBODY
          /\ FR[w] # NOBODY /\ CQ' = CQ
      BY <1>0, <2>4 DEF Serve, WaiterGoes, TypeOK, HandInv
    <3>2. Mark(w) = 1 /\ Mark(w)' = 0 /\ Posting(w)' = 0 /\ Posting(w) = 0 /\ InQueue(w)' = InQueue(w)
      BY <3>1 DEF Mark, Posting, InQueue, Num
    <3>3. OrdersOf(w)' = OrdersOf(w) - 1
      BY <2>1, <3>2
    <3>4. PO'[w] >= OrdersOf(w)' + Posting(w)'
      BY <2>1, <2>2, <3>1, <3>2, <3>3 DEF Kept
    <3>5. QED
      BY <3>1, <3>4 DEF Kept
  <2>5. CASE ~ eq_CQ(w) /\ ~ Serve(w)
    <3>1. OrdersOf(w)' = OrdersOf(w)
      <4>1. InQueue(w)' = InQueue(w) /\ Mark(w)' = Mark(w)
        BY <1>1, <2>5 DEF InQueue, Mark
      <4>2. QED
        BY <2>1, <4>1
    <3>2. CASE BookOrder(w)
      <4>1. wpc[w] = "book" /\ wpc'[w] = "post" /\ PO'[w] = PO[w] + 1
        BY <1>0, <3>2 DEF BookOrder, WaiterGoes, TypeOK
      <4>2. Posting(w) = 0 /\ Posting(w)' = 1
        BY <4>1 DEF Posting, Num
      <4>3. PO'[w] >= OrdersOf(w)' + Posting(w)'
        BY <2>1, <2>2, <3>1, <4>1, <4>2 DEF Kept
      <4>4. QED
        BY <4>1, <4>3 DEF Kept
    <3>3. CASE ~ BookOrder(w)
      <4>1. PO' = PO /\ Posting(w)' <= Posting(w)
        <5>0. \/ WaitForWork(w) \/ Look(w) \/ dq_WQ(w) \/ CheckTakingTime(w) \/ SetTakingTime(w)
              \/ CallCook(w) \/ CallCustomer(w) \/ WaiterFails(w)
          BY <2>5, <3>3 DEF WaiterStep
        <5>4. PO' = PO
          BY <5>0 DEF WaitForWork, Look, dq_WQ, CheckTakingTime, SetTakingTime,
             CallCook, CallCustomer, WaiterFails, M
        <5>5. wpc'[w] # "post"
          <6>1. WaitForWork(w) => WaiterGoes(w, "look")
            BY DEF WaitForWork
          <6>2. Look(w) => WaiterGoes(w, "take") \/ WaiterGoes(w, "serve")
            BY DEF Look
          <6>3. dq_WQ(w) => WaiterGoes(w, "left") \/ WaiterGoes(w, "idle") \/ WaiterGoes(w, "order")
            BY DEF dq_WQ
          <6>4. CheckTakingTime(w) => WaiterGoes(w, "set_time") \/ WaiterGoes(w, "book")
            BY DEF CheckTakingTime
          <6>5. SetTakingTime(w) => WaiterGoes(w, "book")
            BY DEF SetTakingTime
          <6>6. CallCook(w) => WaiterGoes(w, "call_customer")
            BY DEF CallCook
          <6>7. CallCustomer(w) => WaiterGoes(w, "idle")
            BY DEF CallCustomer
          <6>8. WaiterFails(w) => WaiterGoes(w, "left")
            BY DEF WaiterFails
          <6>9. \E l \in WaiterLabels \ {"post"} : WaiterGoes(w, l)
            BY <5>0, <6>1, <6>2, <6>3, <6>4, <6>5, <6>6, <6>7, <6>8 DEF WaiterLabels
          <6>10. QED
            BY <1>0, <6>9 DEF WaiterGoes, TypeOK
        <5>1. PO' = PO /\ (wpc'[w] # "post")
          BY <5>4, <5>5
        <5>2. Posting(w)' = 0
          BY <5>1 DEF Posting, Num
        <5>3. QED
          BY <2>1, <5>1, <5>2
      <4>2. PO'[w] >= OrdersOf(w)' + Posting(w)'
        BY <2>1, <2>2, <3>1, <4>1 DEF Kept
      <4>3. ASSUME ipc', wpc'[w] = "left"
            PROVE  OrdersOf(w)' = 0
        <5>1. dq_WQ(w) /\ MayLeave(w)
          BY <1>0, <1>1, <2>5, <3>3, <4>3 DEF WaiterStep, WaitForWork, Look, dq_WQ, CheckTakingTime,
             SetTakingTime, CallCook, CallCustomer, WaiterFails, WaiterGoes, TypeOK
        <5>2. PO[w] = 0
          BY <5>1 DEF MayLeave
        <5>3. QED
          BY <2>1, <2>2, <3>1, <5>2 DEF Kept
      <4>4. QED
        BY <4>2, <4>3 DEF Kept
    <3>4. QED
      BY <3>2, <3>3
  <2>6. QED
    BY <2>3, <2>4, <2>5
<1>6. QED
  BY <1>4, <1>5, PendingParts

\* The cooks' steps.
LEMMA CookPending ==
  ASSUME TypeInv, PlaceInv, PendingInv, NEW k \in Cooks, CookStep(k)
  PROVE  PendingInv'
<1>0. TypeOK /\ HandInv /\ TypeOK' /\ HandInv'
  BY CookTypes DEF TypeInv
<1>1. /\ wpc' = wpc /\ PO' = PO /\ ipc' = ipc
      /\ \A j \in Cooks \ {k} : kpc'[j] = kpc[j] /\ korder'[j] = korder[j]
      /\ ~ dq_CQ(k) => CQ' = CQ
      /\ ~ FoodReady(k) => FR' = FR
  BY <1>0, CookLeaves
<1>2. ASSUME NEW w \in Waiters
      PROVE  OrdersOf(w)' <= OrdersOf(w)
  <2>1. /\ OrdersOf(w)' = Cardinality(InQueue(w)') + Cardinality(OnStoves(w)') + Mark(w)'
        /\ OrdersOf(w) = Cardinality(InQueue(w)) + Cardinality(OnStoves(w)) + Mark(w)
        /\ Cardinality(InQueue(w)) \in Nat /\ Cardinality(OnStoves(w)) \in Nat
        /\ Cardinality(InQueue(w)') \in Nat /\ Cardinality(OnStoves(w)') \in Nat
        /\ Mark(w) \in {0, 1} /\ Mark(w)' \in {0, 1}
    BY <1>0, OrdersCounted, OrdersCountedNext
  <2>2. Cardinality(OnStoves(w)')
          = Cardinality(OnStoves(w)) + Num(k \in OnStoves(w)') - Num(k \in OnStoves(w))
    <3>1. \A j \in OnStoves(w) \cup OnStoves(w)' : j # k => (j \in OnStoves(w)' <=> j \in OnStoves(w))
      BY <1>1 DEF OnStoves, Stove
    <3>2. IsFiniteSet(OnStoves(w))
      BY <1>0, OrdersCounted
    <3>3. QED
      BY <3>1, <3>2, OneMoves
  <2>3. CASE dq_CQ(k) /\ CQ # <<>>
    <3>1. CQ' = Tail(CQ) /\ kpc[k] = "fetch" /\ kpc'[k] = "cooking" /\ korder'[k] = CQ[1] /\ FR' = FR
      <4>1. Head(CQ) = CQ[1]
        BY <1>0, <2>3, FirstAndRest DEF TypeOK
      <4>2. QED
        BY <1>0, <2>3, <4>1 DEF dq_CQ, CookGoes, TypeOK
    <3>2. Cardinality(InQueue(w)') = Cardinality(InQueue(w)) - Num(CQ[1].waiter_id = w)
      BY <1>0, <2>3, <3>1, WithoutFirst
    <3>3. k \notin OnStoves(w) /\ (k \in OnStoves(w)' <=> CQ[1].waiter_id = w)
      BY <3>1 DEF OnStoves, Stove
    <3>4. Mark(w)' = Mark(w)
      BY <3>1 DEF Mark
    <3>5. CASE CQ[1].waiter_id = w
      <4>1. /\ Cardinality(InQueue(w)') = Cardinality(InQueue(w)) - 1
            /\ Cardinality(OnStoves(w)') = Cardinality(OnStoves(w)) + 1
        BY <2>2, <3>2, <3>3, <3>5 DEF Num
      <4>2. QED
        BY <2>1, <3>4, <4>1
    <3>6. CASE CQ[1].waiter_id # w
      <4>1. /\ Cardinality(InQueue(w)') = Cardinality(InQueue(w))
            /\ Cardinality(OnStoves(w)') = Cardinality(OnStoves(w))
        BY <2>1, <2>2, <3>2, <3>3, <3>6 DEF Num
      <4>2. QED
        BY <2>1, <3>4, <4>1
    <3>7. QED
      BY <3>5, <3>6
  <2>4. CASE FoodReady(k)
    <3>1. /\ CQ' = CQ /\ kpc[k] = "ready" /\ kpc'[k] = "notify"
          /\ w # korder[k].waiter_id => FR'[w] = FR[w]
      BY <1>0, <2>4 DEF FoodReady, CookGoes, TypeOK
    <3>2. k \notin OnStoves(w)' /\ (k \in OnStoves(w) <=> korder[k].waiter_id = w)
      BY <3>1 DEF OnStoves, Stove
    <3>3. InQueue(w)' = InQueue(w)
      BY <3>1 DEF InQueue
    <3>4. CASE korder[k].waiter_id = w
      <4>1. Cardinality(OnStoves(w)') = Cardinality(OnStoves(w)) - 1
        BY <2>1, <2>2, <3>2, <3>4 DEF Num
      <4>2. QED
        BY <2>1, <3>3, <4>1
    <3>5. CASE korder[k].waiter_id # w
      <4>1. Cardinality(OnStoves(w)') = Cardinality(OnStoves(w))
        BY <2>1, <2>2, <3>2, <3>5 DEF Num
      <4>2. Mark(w)' = Mark(w)
        BY <3>1, <3>5 DEF Mark
      <4>3. QED
        BY <2>1, <3>3, <4>1, <4>2
    <3>6. QED
      BY <3>4, <3>5
  <2>5. CASE ~ (dq_CQ(k) /\ CQ # <<>>) /\ ~ FoodReady(k)
    <3>1. CQ' = CQ /\ \A j \in Cooks : (Stove(j)' <=> Stove(j)) /\ (Stove(j) => korder'[j] = korder[j])
      BY <2>5, OtherCookStove
    <3>2. InQueue(w)' = InQueue(w)
      BY <3>1 DEF InQueue
    <3>3. OnStoves(w)' = OnStoves(w)
      BY <3>1 DEF OnStoves
    <3>4. Mark(w)' = Mark(w)
      BY <1>1, <2>5 DEF Mark
    <3>5. QED
      BY <2>1, <3>2, <3>3, <3>4
  <2>6. QED
    BY <2>3, <2>4, <2>5
<1>3. ASSUME NEW w \in Waiters
      PROVE  Kept(w)'
  <2>1. Kept(w) /\ OrdersOf(w)' <= OrdersOf(w)
    BY <1>2, PendingParts
  <2>2. OrdersOf(w) \in Nat /\ OrdersOf(w)' \in Nat /\ PO[w] \in Int /\ Posting(w) \in {0, 1}
    BY <1>0, OrdersCounted, OrdersCountedNext
  <2>3. Posting(w)' = Posting(w)
    BY <1>1 DEF Posting
  <2>4. QED
    BY <1>1, <2>1, <2>2, <2>3 DEF Kept
<1>4. QED
  BY <1>3, PendingParts

\* At the start nothing is pending.
LEMMA InitPending == Init => PendingInv
<1> SUFFICES ASSUME Init PROVE PendingInv
  OBVIOUS
<1>1. ASSUME NEW w \in Waiters
      PROVE  Kept(w)
  <2>1. PO[w] = 0 /\ wpc[w] = "idle" /\ FR[w] = NOBODY /\ CQ = <<>> /\ \A k \in Cooks : kpc[k] = "idle"
    BY DEF Init
  <2>2. Posting(w) = 0 /\ Mark(w) = 0
    BY <2>1 DEF Posting, Mark, Num
  <2>3. InQueue(w) = {} /\ OnStoves(w) = {}
    BY <2>1 DEF InQueue, OnStoves, Stove
  <2>4. OrdersOf(w) = Cardinality({}) + Cardinality({}) + 0
    <3>1. TypeOK /\ HandInv
      BY InitTypes DEF TypeInv
    <3>2. OrdersOf(w) = Cardinality(InQueue(w)) + Cardinality(OnStoves(w)) + Mark(w)
      BY <3>1, OrdersCounted
    <3>3. QED
      BY <2>2, <2>3, <3>2
  <2>5. OrdersOf(w) = 0
    BY <2>4, FS_EmptySet
  <2>6. QED
    BY <2>1, <2>2, <2>5 DEF Kept
<1>2. QED
  BY <1>1, PendingParts

\* No waiter goes home while the kitchen has an order of its.
THEOREM WaitersStay == Spec => []WaitersStayForTheirOrders
<1>1. Init => PendingInv
  BY InitPending
<1>2. ASSUME TypeInv /\ PlaceInv, PendingInv, [Next]_vars
      PROVE  PendingInv'
  <2>0. TypeOK
    BY <1>2 DEF TypeInv
  <2>1. CASE Arrive \/ Cleanup \/ UNCHANGED vars \/ \E c \in Customers : CustomerStep(c)
    BY <1>2, <2>0, <2>1, OthersKeepPending
  <2>2. CASE \E w \in Waiters : WaiterStep(w)
    BY <1>2, <2>2, WaiterPending
  <2>3. CASE \E k \in Cooks : CookStep(k)
    BY <1>2, <2>3, CookPending
  <2>4. QED
    BY <1>2, <2>1, <2>2, <2>3 DEF Next
<1>3. ASSUME TypeInv, PendingInv
      PROVE  WaitersStayForTheirOrders
  <2>1. ASSUME NEW w \in Waiters
        PROVE  /\ PO[w] >= OrdersOf(w)
               /\ ipc /\ wpc[w] = "left" => OrdersOf(w) = 0
    <3>1. Kept(w)
      BY <1>3, PendingParts
    <3>2. OrdersOf(w) \in Nat /\ PO[w] \in Int /\ Posting(w) \in {0, 1}
      BY <1>3, OrdersCounted DEF TypeInv
    <3>3. QED
      BY <3>1, <3>2 DEF Kept
  <2>2. QED
    BY <2>1 DEF WaitersStayForTheirOrders
<1>4. QED
  BY <1>1, <1>2, <1>3, LunchInvariant, PTL DEF Spec


=============================================================================
