----------------------------- MODULE Restaurant -----------------------------
(* The lunch session of LA6: cooks, waiters and customers are processes that *)
(* share the segment M and System V semaphores (cook.c, waiter.c,            *)
(* customer.c).  Every critical section under the mutex is one step, so is   *)
(* every P and V on the other semaphores and every access to M that the code *)
(* makes without the mutex.  usleep gives the others an arbitrary time.      *)
EXTENDS Integers, Sequences, FiniteSets, TLC

CONSTANTS
  NCUSTOMERS,    \* the number of lines of customers.txt
  Files,         \* the contents customers.txt may have
  NWAITERS,      \* the number of waiters (5 in the code)
  TABLES         \* the number of tables (10 in the code)

Customers == 1 .. NCUSTOMERS

\* gencustomers.c writes the customers in the order of arrival.
ASSUME FilesAssumption ==
  /\ NCUSTOMERS \in Nat
  /\ \A f \in Files :
       /\ f.arrival \in [Customers -> Nat] /\ f.count \in [Customers -> 1 .. 4]
       /\ \A c, d \in Customers : c < d => f.arrival[c] <= f.arrival[d]

ASSUME StaffAssumption == NWAITERS \in Nat \ {0} /\ TABLES \in Nat \ {0}

Waiters == 0 .. NWAITERS - 1
Cooks   == {"C", "D"}

ClosingTime == 240
TakeDelay   == 1
EatDelay    == 30
CookDelay(count) == 5 * count

Num(b) == IF b THEN 1 ELSE 0

NOBODY  == 0
NoOrder == [waiter_id |-> 0, cus_id |-> NOBODY, cus_cnt |-> 0]
Orders  == [waiter_id : Waiters, cus_id : Customers \cup {NOBODY}, cus_cnt : 0 .. 4]

VARIABLES
  Tid, ETid, NWid,     \* M[0..2]: time, empty tables, next waiter
  CQ,                  \* the cooking queue
  WQ, FR, PO,          \* per waiter: queue of customers, food ready, orders pending
  cook, waiter, cus,   \* the semaphores
  ipc,                 \* the segment and the semaphores exist
  file,                \* customers.txt
  arrived,             \* how many customers the wrapper has forked
  cpc, cwaiter, ctime, \* customers: program point, waiter_id, time to set
  wpc, wcus, wtime,    \* waiters: program point, cus_id, time read or to set
  kpc, korder, kret, ktime, woken   \* cooks: likewise; woken: loop counter of wake_all_waiters

M         == <<Tid, ETid, NWid, CQ, WQ, FR, PO>>
sems      == <<cook, waiter, cus>>
customers == <<file, arrived, cpc, cwaiter, ctime>>
waiters   == <<wpc, wcus, wtime>>
cooks     == <<kpc, korder, kret, ktime, woken>>
vars      == <<M, sems, ipc, customers, waiters, cooks>>

CustomerLabels == {"absent", "door", "seated", "chosen", "queued", "await_order",
                   "await_food", "served", "eating", "set_time", "finished", "left"}
WaiterLabels == {"idle", "look", "take", "order", "set_time", "book", "post",
                 "call_cook", "call_customer", "serve", "bring", "left"}
CookLabels == {"idle", "fetch", "cooking", "set_time", "reread", "ready", "notify",
               "waking", "leaving", "left"}

\* The wrapper of the cooks creates and fills M and the semaphores before
\* anybody else runs.
Init ==
  /\ Tid = 0 /\ ETid = TABLES /\ NWid = 0 /\ CQ = <<>>
  /\ WQ = [w \in Waiters |-> <<>>] /\ FR = [w \in Waiters |-> NOBODY]
  /\ PO = [w \in Waiters |-> 0]
  /\ cook = 0 /\ waiter = [w \in Waiters |-> 0] /\ cus = [c \in Customers |-> 0]
  /\ ipc = TRUE
  /\ file \in Files /\ arrived = 0 /\ cpc = [c \in Customers |-> "absent"]
  /\ cwaiter = [c \in Customers |-> 0] /\ ctime = [c \in Customers |-> 0]
  /\ wpc = [w \in Waiters |-> "idle"] /\ wcus = [w \in Waiters |-> NOBODY]
  /\ wtime = [w \in Waiters |-> 0]
  /\ kpc = [k \in Cooks |-> "idle"] /\ korder = [k \in Cooks |-> NoOrder]
  /\ kret = [k \in Cooks |-> 0] /\ ktime = [k \in Cooks |-> 0]
  /\ woken = [k \in Cooks |-> 0]

-----------------------------------------------------------------------------
(* Customers and their wrapper.                                            *)

CustomerGoes(c, label) == cpc' = [cpc EXCEPT ![c] = label]

\* The wrapper forks the next customer at its arrival time and sets the time,
\* whatever it is.
Arrive ==
  /\ arrived + 1 \in Customers
  /\ arrived' = arrived + 1
  /\ Tid' = file.arrival[arrived']
  /\ CustomerGoes(arrived', "door")
  /\ UNCHANGED <<ETid, NWid, CQ, WQ, FR, PO, sems, ipc, file, cwaiter, ctime, waiters, cooks>>

\* Too late, no table, or a table is taken.
Enter(c) ==
  /\ cpc[c] = "door"
  /\ \/ /\ file.arrival[c] > ClosingTime \/ ETid = 0
        /\ CustomerGoes(c, "left") /\ UNCHANGED ETid
     \/ /\ file.arrival[c] <= ClosingTime /\ ETid # 0
        /\ CustomerGoes(c, "seated") /\ ETid' = ETid - 1
  /\ UNCHANGED <<Tid, NWid, CQ, WQ, FR, PO, sems, ipc, file, arrived, cwaiter, ctime, waiters, cooks>>

ChooseWaiter(c) ==
  /\ cpc[c] = "seated" /\ CustomerGoes(c, "chosen")
  /\ cwaiter' = [cwaiter EXCEPT ![c] = NWid]
  /\ NWid' = (NWid + 1) % NWAITERS
  /\ UNCHANGED <<Tid, ETid, CQ, WQ, FR, PO, sems, ipc, file, arrived, ctime, waiters, cooks>>

eq_WQ_Overwrites(c) ==
  /\ cpc[c] = "chosen" /\ CustomerGoes(c, "queued")
  /\ WQ' = [WQ EXCEPT ![cwaiter[c]] = <<c>>]
  /\ UNCHANGED <<Tid, ETid, NWid, CQ, FR, PO, sems, ipc, file, arrived, cwaiter, ctime, waiters, cooks>>

eq_WQ(c) ==
  /\ cpc[c] = "chosen" /\ CustomerGoes(c, "queued")
  /\ WQ' = [WQ EXCEPT ![cwaiter[c]] = Append(@, c)]
  /\ UNCHANGED <<Tid, ETid, NWid, CQ, FR, PO, sems, ipc, file, arrived, cwaiter, ctime, waiters, cooks>>

WakeWaiter(c) ==
  /\ cpc[c] = "queued" /\ CustomerGoes(c, "await_order")
  /\ waiter' = [waiter EXCEPT ![cwaiter[c]] = @ + 1]
  /\ UNCHANGED <<M, cook, cus, ipc, file, arrived, cwaiter, ctime, waiters, cooks>>

\* P(cus) twice: the order is placed, the food is served.
AwaitSignal(c) ==
  /\ \/ cpc[c] = "await_order" /\ CustomerGoes(c, "await_food")
     \/ cpc[c] = "await_food" /\ CustomerGoes(c, "served")
  /\ cus[c] > 0 /\ cus' = [cus EXCEPT ![c] = @ - 1]
  /\ UNCHANGED <<M, cook, waiter, ipc, file, arrived, cwaiter, ctime, waiters, cooks>>

Eat(c) ==
  /\ cpc[c] = "served" /\ CustomerGoes(c, "eating")
  /\ ctime' = [ctime EXCEPT ![c] = Tid + EatDelay]
  /\ UNCHANGED <<M, sems, ipc, file, arrived, cwaiter, waiters, cooks>>

\* update_sim_time: the check reads the time without the mutex ...
CheckEatingTime(c) ==
  /\ cpc[c] = "eating"
  /\ CustomerGoes(c, IF ctime[c] < Tid THEN "finished" ELSE "set_time")
  /\ UNCHANGED <<M, sems, ipc, file, arrived, cwaiter, ctime, waiters, cooks>>

\* ... and the assignment comes later.
SetEatingTime(c) ==
  /\ cpc[c] = "set_time" /\ CustomerGoes(c, "finished")
  /\ Tid' = ctime[c]
  /\ UNCHANGED <<ETid, NWid, CQ, WQ, FR, PO, sems, ipc, file, arrived, cwaiter, ctime, waiters, cooks>>

FreeTable(c) ==
  /\ cpc[c] = "finished" /\ CustomerGoes(c, "left")
  /\ ETid' = ETid + 1
  /\ ctime' = [ctime EXCEPT ![c] = 0]
  /\ UNCHANGED <<Tid, NWid, CQ, WQ, FR, PO, sems, ipc, file, arrived, cwaiter, waiters, cooks>>

CustomerStep(c) ==
  \/ Enter(c) \/ ChooseWaiter(c) \/ eq_WQ(c) \/ WakeWaiter(c) \/ AwaitSignal(c)
  \/ Eat(c) \/ CheckEatingTime(c) \/ SetEatingTime(c) \/ FreeTable(c)

\* When every customer has left, the wrapper removes the shared resources.
Cleanup ==
  /\ ipc /\ \A c \in Customers : cpc[c] = "left"
  /\ ipc' = FALSE
  /\ UNCHANGED <<M, sems, customers, waiters, cooks>>

-----------------------------------------------------------------------------
(* Waiters.                                                                *)

WaiterGoes(w, label) == wpc' = [wpc EXCEPT ![w] = label]

WaitForWork(w) ==
  /\ ipc /\ wpc[w] = "idle" /\ WaiterGoes(w, "look")
  /\ waiter[w] > 0 /\ waiter' = [waiter EXCEPT ![w] = @ - 1]
  /\ UNCHANGED <<M, cook, cus, ipc, customers, wcus, wtime, cooks>>

\* Food that is ready comes first.
Look(w) ==
  /\ ipc /\ wpc[w] = "look" /\ WaiterGoes(w, IF FR[w] = NOBODY THEN "take" ELSE "serve")
  /\ wcus' = [wcus EXCEPT ![w] = FR[w]]
  /\ wtime' = [wtime EXCEPT ![w] = IF FR[w] = NOBODY THEN Tid ELSE 0]
  /\ UNCHANGED <<M, sems, ipc, customers, cooks>>

MayLeave_PendingIgnored(w) == wtime[w] > ClosingTime

MayLeave(w) == PO[w] = 0 /\ wtime[w] > ClosingTime

\* The next customer of the waiter's queue, if any; without one, the waiter
\* leaves when it is late and none of its orders is pending.
dq_WQ(w) ==
  /\ ipc /\ wpc[w] = "take"
  /\ \/ /\ WQ[w] = <<>> /\ UNCHANGED <<WQ, wcus>>
        /\ WaiterGoes(w, IF MayLeave(w) THEN "left" ELSE "idle")
        /\ wtime' = [wtime EXCEPT ![w] = 0]
     \/ /\ WQ[w] # <<>> /\ WaiterGoes(w, "order")
        /\ WQ' = [WQ EXCEPT ![w] = Tail(@)]
        /\ wcus' = [wcus EXCEPT ![w] = Head(WQ[w])]
        /\ wtime' = [wtime EXCEPT ![w] = @ + TakeDelay]
  /\ UNCHANGED <<Tid, ETid, NWid, CQ, FR, PO, sems, ipc, customers, cooks>>

CheckTakingTime(w) ==
  /\ ipc /\ wpc[w] = "order"
  /\ WaiterGoes(w, IF wtime[w] < Tid THEN "book" ELSE "set_time")
  /\ wtime' = [wtime EXCEPT ![w] = IF @ < Tid THEN 0 ELSE @]
  /\ UNCHANGED <<M, sems, ipc, customers, wcus, cooks>>

SetTakingTime(w) ==
  /\ ipc /\ wpc[w] = "set_time" /\ WaiterGoes(w, "book")
  /\ Tid' = wtime[w] /\ wtime' = [wtime EXCEPT ![w] = 0]
  /\ UNCHANGED <<ETid, NWid, CQ, WQ, FR, PO, sems, ipc, customers, wcus, cooks>>

BookOrder(w) ==
  /\ ipc /\ wpc[w] = "book" /\ WaiterGoes(w, "post")
  /\ PO' = [PO EXCEPT ![w] = @ + 1]
  /\ UNCHANGED <<Tid, ETid, NWid, CQ, WQ, FR, sems, ipc, customers, wcus, wtime, cooks>>

eq_CQ(w) ==
  /\ ipc /\ wpc[w] = "post" /\ WaiterGoes(w, "call_cook")
  /\ CQ' = Append(CQ, [waiter_id |-> w, cus_id |-> wcus[w], cus_cnt |-> file.count[wcus[w]]])
  /\ UNCHANGED <<Tid, ETid, NWid, WQ, FR, PO, sems, ipc, customers, wcus, wtime, cooks>>

CallCook_Skipped(w) ==
  /\ ipc /\ wpc[w] = "call_cook" /\ WaiterGoes(w, "call_customer")
  /\ UNCHANGED <<M, sems, ipc, customers, wcus, wtime, cooks>>

CallCook_CustomerToo(w) ==
  /\ ipc /\ wpc[w] = "call_cook" /\ WaiterGoes(w, "call_customer")
  /\ cook' = cook + 1 /\ cus' = [cus EXCEPT ![wcus[w]] = @ + 1]
  /\ UNCHANGED <<M, waiter, ipc, customers, wcus, wtime, cooks>>

CallCook(w) ==
  /\ ipc /\ wpc[w] = "call_cook" /\ WaiterGoes(w, "call_customer")
  /\ cook' = cook + 1
  /\ UNCHANGED <<M, waiter, cus, ipc, customers, wcus, wtime, cooks>>

\* V(cus): the order is placed, or the food is there.
CallCustomer(w) ==
  /\ ipc /\ wpc[w] \in {"call_customer", "bring"} /\ WaiterGoes(w, "idle")
  /\ cus' = [cus EXCEPT ![wcus[w]] = @ + 1]
  /\ wcus' = [wcus EXCEPT ![w] = NOBODY]
  /\ UNCHANGED <<M, cook, waiter, ipc, customers, wtime, cooks>>

\* The food-ready cell is cleared in a section of its own, after it was read.
Serve(w) ==
  /\ ipc /\ wpc[w] = "serve" /\ WaiterGoes(w, "bring")
  /\ FR' = [FR EXCEPT ![w] = NOBODY] /\ PO' = [PO EXCEPT ![w] = @ - 1]
  /\ UNCHANGED <<Tid, ETid, NWid, CQ, WQ, sems, ipc, customers, wcus, wtime, cooks>>

\* Every semop fails once the semaphores are gone: exit(1), and the process
\* is no more.
WaiterFails(w) ==
  /\ ~ ipc /\ wpc[w] # "left" /\ WaiterGoes(w, "left")
  /\ wcus' = [wcus EXCEPT ![w] = NOBODY] /\ wtime' = [wtime EXCEPT ![w] = 0]
  /\ UNCHANGED <<M, sems, ipc, customers, cooks>>

WaiterStep(w) ==
  \/ WaitForWork(w) \/ Look(w) \/ dq_WQ(w) \/ CheckTakingTime(w) \/ SetTakingTime(w)
  \/ BookOrder(w) \/ eq_CQ(w) \/ CallCook(w) \/ CallCustomer(w) \/ Serve(w)
  \/ WaiterFails(w)

-----------------------------------------------------------------------------
(* Cooks.                                                                  *)

CookGoes(k, label) == kpc' = [kpc EXCEPT ![k] = label]

WaitForOrder(k) ==
  /\ ipc /\ kpc[k] = "idle" /\ CookGoes(k, "fetch")
  /\ cook > 0 /\ cook' = cook - 1
  /\ UNCHANGED <<M, waiter, cus, ipc, customers, waiters, korder, kret, ktime, woken>>

\* Takes the first order; ret tells whether that emptied the queue.  Without
\* an order the cook would wake all waiters, and leave when it is late: code
\* that is never reached, see WakeupsCoverWork.
dq_CQ(k) ==
  /\ ipc /\ kpc[k] = "fetch"
  /\ IF CQ = <<>>
     THEN /\ CookGoes(k, IF Tid > ClosingTime THEN "leaving" ELSE "waking")
          /\ UNCHANGED <<CQ, korder, kret, ktime>>
     ELSE /\ CookGoes(k, "cooking")
          /\ CQ' = Tail(CQ)
          /\ korder' = [korder EXCEPT ![k] = Head(CQ)]
          /\ kret' = [kret EXCEPT ![k] = Num(Len(CQ) = 1)]
          /\ ktime' = [ktime EXCEPT ![k] = Tid + CookDelay(Head(CQ).cus_cnt)]
  /\ UNCHANGED <<Tid, ETid, NWid, WQ, FR, PO, sems, ipc, customers, waiters, woken>>

CheckCookingTime(k) ==
  /\ ipc /\ kpc[k] = "cooking"
  /\ CookGoes(k, IF ktime[k] < Tid THEN "reread" ELSE "set_time")
  /\ UNCHANGED <<M, sems, ipc, customers, waiters, korder, kret, ktime, woken>>

\* update_sim_time returns the time it set, or a second reading of M[Tid].
SetCookingTime(k) ==
  /\ \/ ipc /\ kpc[k] = "set_time" /\ Tid' = ktime[k] /\ UNCHANGED ktime
     \/ kpc[k] = "reread" /\ ktime' = [ktime EXCEPT ![k] = Tid] /\ UNCHANGED Tid
  /\ CookGoes(k, "ready")
  /\ UNCHANGED <<ETid, NWid, CQ, WQ, FR, PO, sems, ipc, customers, waiters, korder, kret, woken>>

\* There is one food-ready cell per waiter, whatever it still holds.
FoodReady(k) ==
  /\ ipc /\ kpc[k] = "ready" /\ CookGoes(k, "notify")
  /\ FR' = [FR EXCEPT ![korder[k].waiter_id] = korder[k].cus_id]
  /\ UNCHANGED <<Tid, ETid, NWid, CQ, WQ, PO, sems, ipc, customers, waiters,
                 korder, kret, ktime, woken>>

NotifyWaiter_Skipped(k) ==
  /\ ipc /\ kpc[k] = "notify"
  /\ CookGoes(k, IF ktime[k] >= ClosingTime /\ kret[k] = 1 THEN "leaving" ELSE "idle")
  /\ korder' = [korder EXCEPT ![k] = NoOrder]
  /\ kret' = [kret EXCEPT ![k] = 0] /\ ktime' = [ktime EXCEPT ![k] = 0]
  /\ UNCHANGED <<M, sems, ipc, customers, waiters, woken>>

\* Leaves when it is closing time and its own order had emptied the queue.
NotifyWaiter(k) ==
  /\ ipc /\ kpc[k] = "notify"
  /\ waiter' = [waiter EXCEPT ![korder[k].waiter_id] = @ + 1]
  /\ CookGoes(k, IF ktime[k] >= ClosingTime /\ kret[k] = 1 THEN "leaving" ELSE "idle")
  /\ korder' = [korder EXCEPT ![k] = NoOrder]
  /\ kret' = [kret EXCEPT ![k] = 0] /\ ktime' = [ktime EXCEPT ![k] = 0]
  /\ UNCHANGED <<M, cook, cus, ipc, customers, waiters, woken>>

wake_all_waiters(k) ==
  /\ ipc /\ kpc[k] \in {"waking", "leaving"}
  /\ waiter' = [waiter EXCEPT ![woken[k]] = @ + 1]
  /\ woken' = [woken EXCEPT ![k] = (@ + 1) % NWAITERS]
  /\ CookGoes(k, CASE woken'[k] # 0        -> kpc[k]
                   [] kpc[k] = "waking"    -> "idle"
                   [] OTHER                -> "left")
  /\ UNCHANGED <<M, cook, cus, ipc, customers, waiters, korder, kret, ktime>>

CookFails(k) ==
  /\ ~ ipc /\ kpc[k] # "left" /\ CookGoes(k, "left")
  /\ korder' = [korder EXCEPT ![k] = NoOrder]
  /\ kret' = [kret EXCEPT ![k] = 0] /\ ktime' = [ktime EXCEPT ![k] = 0]
  /\ woken' = [woken EXCEPT ![k] = 0]
  /\ UNCHANGED <<M, sems, ipc, customers, waiters>>

CookStep(k) ==
  \/ WaitForOrder(k) \/ dq_CQ(k) \/ CheckCookingTime(k) \/ SetCookingTime(k)
  \/ FoodReady(k) \/ NotifyWaiter(k) \/ wake_all_waiters(k) \/ CookFails(k)

-----------------------------------------------------------------------------

Next ==
  \/ Arrive \/ Cleanup
  \/ \E c \in Customers : CustomerStep(c)
  \/ \E w \in Waiters : WaiterStep(w)
  \/ \E k \in Cooks : CookStep(k)

\* The operating system runs every process that can run.  A semaphore of a
\* waiter or a customer has one process that waits on it.
Fairness ==
  /\ WF_vars(Arrive) /\ WF_vars(Cleanup)
  /\ \A c \in Customers : WF_vars(CustomerStep(c))
  /\ \A w \in Waiters : WF_vars(WaiterStep(w))
  /\ \A k \in Cooks : WF_vars(CookStep(k))

Spec == Init /\ [][Next]_vars /\ Fairness

-----------------------------------------------------------------------------
(* Properties.                                                             *)

\* What values the variables take.
TypeOK ==
  /\ Tid \in Nat /\ ETid \in 0 .. TABLES /\ NWid \in Waiters
  /\ CQ \in Seq(Orders) /\ WQ \in [Waiters -> Seq(Customers)]
  /\ FR \in [Waiters -> Customers \cup {NOBODY}] /\ PO \in [Waiters -> Int]
  /\ cook \in Nat /\ waiter \in [Waiters -> Nat] /\ cus \in [Customers -> Nat]
  /\ ipc \in BOOLEAN /\ file \in Files /\ arrived \in Customers \cup {0}
  /\ cpc \in [Customers -> CustomerLabels] /\ cwaiter \in [Customers -> Waiters]
  /\ ctime \in [Customers -> Nat]
  /\ wpc \in [Waiters -> WaiterLabels] /\ wcus \in [Waiters -> Customers \cup {NOBODY}]
  /\ wtime \in [Waiters -> Nat]
  /\ kpc \in [Cooks -> CookLabels] /\ korder \in [Cooks -> Orders]
  /\ kret \in [Cooks -> {0, 1}] /\ ktime \in [Cooks -> Nat] /\ woken \in [Cooks -> Waiters]

AtTable(w) == wpc[w] \in {"order", "set_time", "book", "post"}
OnStove(k) == korder[k].cus_id # NOBODY /\ kpc[k] # "notify"

\* How often customer c stands in its waiter's queue, in a waiter's hand, in
\* the cooking queue and on a stove: its wish on the way to the kitchen.
Queued(c) == Cardinality({wi \in Waiters \X Customers :
                wi[2] \in DOMAIN WQ[wi[1]] /\ WQ[wi[1]][wi[2]] = c})
             + Cardinality({w \in Waiters : AtTable(w) /\ wcus[w] = c})
Ordered(c) == Cardinality({i \in DOMAIN CQ : CQ[i].cus_id = c})
             + Cardinality({k \in Cooks : OnStove(k) /\ korder[k].cus_id = c})
Wishes(c) == Queued(c) + Ordered(c)

\* The processes that pass a customer's wish on neither lose it before the
\* order is placed nor double it: there is at most one, and there is one while
\* the customer has not been told that the order is placed (customer.c
\* l. 77-83, 141; waiter.c l. 77-98, 176-189; cook.c l. 83-97).
OneWishPerCustomer ==
  \A c \in Customers :
    /\ Wishes(c) <= 1
    /\ cpc[c] \in {"queued", "await_order"} /\ cus[c] = 0 =>
         \/ Queued(c) = 1
         \/ \E w \in Waiters : wcus[w] = c /\ wpc[w] \in {"call_cook", "call_customer"}

\* The two signals a customer waits for mean what the customer takes them to
\* mean: after the first its order is in the kitchen, after the second it is
\* cooked, although both come over one semaphore and from a waiter who is
\* woken for other reasons (customer.c l. 141, 153; waiter.c l. 189, 207).
SignalsMeanWhatTheySay ==
  \A c \in Customers :
    /\ cpc[c] = "await_food" => Queued(c) = 0
    /\ cpc[c] \in {"served", "eating", "set_time", "finished", "left"} => Wishes(c) = 0

\* No wakeup is lost: the semaphores, with the signals that are just being
\* given and the wakeups not yet used, cover everything that waits in the
\* queues and in the food-ready cell; for the cooks there is exactly one
\* wakeup for each order, so a cook never finds the queue empty and the code
\* for that case is dead (customer.c l. 132-138, cook.c l. 128-147, 172-178,
\* waiter.c l. 125-147, 181-186).
WakeupsCoverWork ==
  /\ \A w \in Waiters :
       waiter[w] + Cardinality({c \in Customers : cpc[c] = "queued" /\ cwaiter[c] = w})
                 + Cardinality({k \in Cooks : kpc[k] = "notify" /\ korder[k].waiter_id = w})
                 + Num(wpc[w] \in {"look", "take"})
         >= Len(WQ[w]) + Num(FR[w] # NOBODY /\ wpc[w] # "serve")
  /\ cook + Cardinality({w \in Waiters : wpc[w] = "call_cook"})
          + Cardinality({k \in Cooks : kpc[k] = "fetch"}) = Len(CQ)

OrdersOf(w) == Cardinality({i \in DOMAIN CQ : CQ[i].waiter_id = w})
               + Cardinality({k \in Cooks : OnStove(k) /\ korder[k].waiter_id = w})
               + Num(FR[w] # NOBODY)

\* The count of pending orders that a waiter consults before leaving covers
\* its orders in the kitchen, so no cook ever prepares food for a waiter that
\* has gone home (waiter.c l. 140-147, 177, 204; cook.c l. 172-178).
WaitersStayForTheirOrders ==
  \A w \in Waiters :
    /\ PO[w] >= OrdersOf(w)
    /\ ipc /\ wpc[w] = "left" => OrdersOf(w) = 0

\* Every wish gets through the kitchen, unless the waiter or both cooks went
\* home (the loops of waiter.c l. 123-209 and cook.c l. 126-187).
WishesAreCooked ==
  \A c \in Customers :
    Wishes(c) > 0 ~> \/ Wishes(c) = 0
                     \/ wpc[cwaiter[c]] = "left"
                     \/ \A k \in Cooks : kpc[k] = "left"

\* A dish that is marked as ready is brought to its customer, unless its mark
\* meets the mark of another dish for the same waiter: there is one cell for
\* the marks, and it is cleared after it was read (cook.c l. 172-178, waiter.c
\* l. 127-133, 193-207).
DishesAreServed ==
  \A w \in Waiters, c \in Customers :
    FR[w] = c ~> \/ cpc[c] = "served"
                 \/ \E d \in Customers \ {c} :
                      \/ FR[w] = d
                      \/ wpc[w] \in {"serve", "bring"} /\ wcus[w] = d

\* "The last cook sees that there are no orders to be served" (cook.c l. 99),
\* "if time >= 240, and no order in queue, break" (l. 181): when the second
\* cook decides to leave, the cooking queue is empty.
LastCookSeesNoOrders ==
  [][\A k \in Cooks :
       kpc'[k] = "leaving" /\ kpc[k] # "leaving"
       /\ (\A j \in Cooks \ {k} : kpc[j] \in {"leaving", "left"}) => CQ = <<>>]_vars

=============================================================================
