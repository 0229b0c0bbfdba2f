------------------------------ MODULE Scheduler ------------------------------
(***************************************************************************)
(* The simulation of src/LA3/schedule.c: tasks that alternate CPU and I/O  *)
(* bursts share one CPU, first under FCFS and then under round robin with  *)
(* two quanta.  A heap of events gives the order of what happens, a FIFO   *)
(* queue the order of the tasks that are ready.                            *)
(*                                                                         *)
(* One event is one step, with the scheduling that follows it.  Left out:  *)
(* the printing, and the percentages and averages it computes.             *)
(***************************************************************************)
EXTENDS Integers, FiniteSets, SequencesExt

CONSTANTS
  n,          \* the number of tasks (task_count)
  Files,      \* the contents proc.txt may have
  Quanta,     \* the quanta of the runs: TIME_INFINITY, 10, 5 in main
  PROC_LIMIT

Tasks == 0 .. n - 1
Bursts == Seq(Nat \ {0})

\* Times are positive, and every I/O burst lies between two CPU bursts.
ASSUME FileAssumption ==
  \A f \in Files :
    /\ f.task_id \in [Tasks -> Nat] /\ \A t, u \in Tasks : f.task_id[t] = f.task_id[u] => t = u
    /\ f.start_time \in [Tasks -> Nat]
    /\ \A t \in Tasks : /\ f.compute_times[t] \in Bursts /\ f.compute_times[t] # <<>>
                        /\ f.wait_times[t] \in Bursts
                        /\ Len(f.wait_times[t]) = Len(f.compute_times[t]) - 1

\* A thousand tasks and more fit (genproc.c writes 100), so that the exits for
\* a full queue (l. 74, 116) are never taken.
ASSUME SizeAssumption == n \in Nat \ {0} /\ Quanta \in Seq(Nat \ {0}) /\ n < PROC_LIMIT

EVT_START    == "START"
EVT_COMPLETE == "COMPLETE"
EVT_UNBLOCK  == "UNBLOCK"
EVT_PREEMPT  == "PREEMPT"
Arrivals     == {EVT_START, EVT_UNBLOCK}
NOTASK       == -1

VARIABLES
  file,                      \* proc.txt
  round, running,            \* which run of run_scheduler, and whether it is in its loop
  event_queue,               \* the heap, from position 1
  ready_queue,               \* what the circular array holds, from front to rear
  system_time, idle_periods, running_task,
  status, burst_index, time_left, completion_time, queue_time,
  waited                     \* auxiliary: the time a task has spent in the ready queue

clock == <<system_time, idle_periods>>
times == <<completion_time, queue_time>>
vars  == <<file, round, running, event_queue, ready_queue, clock, running_task,
           status, burst_index, time_left, times, waited>>

quantum == Quanta[round]
Smaller(a, b) == IF a < b THEN a ELSE b
SumTo(seq, k) == LET sum[i \in 0 .. k] == IF i = 0 THEN 0 ELSE sum[i - 1] + seq[i] IN sum[k]

burst_count(t)   == Len(file.compute_times[t])
activity_time(t) == SumTo(file.compute_times[t], burst_count(t))
                    + SumTo(file.wait_times[t], burst_count(t) - 1)

Init ==
  /\ file \in Files
  /\ round = 1 /\ running = FALSE
  /\ event_queue = <<>> /\ ready_queue = <<>>
  /\ system_time = 0 /\ idle_periods = 0 /\ running_task = NOTASK
  /\ status = [t \in Tasks |-> "INIT"]
  /\ burst_index = [t \in Tasks |-> 0]
  /\ time_left = [t \in Tasks |-> file.compute_times[t][1]]
  /\ completion_time = [t \in Tasks |-> 0] /\ queue_time = [t \in Tasks |-> 0]
  /\ waited = [t \in Tasks |-> 0]

-----------------------------------------------------------------------------
(* The event queue: a binary heap, its root at 1.                          *)

\* a is handled before b.
compare_events(a, b) ==
  \/ a.timestamp < b.timestamp
  \/ /\ a.timestamp = b.timestamp
     /\ IF a.category \in Arrivals /\ b.category = EVT_PREEMPT THEN TRUE
        ELSE IF b.category \in Arrivals /\ a.category = EVT_PREEMPT THEN FALSE
        ELSE file.task_id[a.task_index] < file.task_id[b.task_index]

\* The positions on the way from q up to the root.
above[q \in Nat] == IF q = 0 THEN {} ELSE {q} \cup above[q \div 2]

\* The event moves up from the first free position, past every event that is
\* handled later.
event_queue_push(heap, evt) ==
  LET last  == Len(heap) + 1
      place == Min({a \in above[last] :
                      \A q \in above[last] : a <= q /\ q < last => compare_events(evt, heap[q])})
  IN  [q \in 1 .. last |->
         IF q = place THEN evt
         ELSE IF q \in above[last] /\ q > place THEN heap[q \div 2]
         ELSE heap[q]]

\* Mutant: the last child is never looked at.
Below_LastChild(heap, q) ==
  {c \in {2 * q, 2 * q + 1} : c < Len(heap) - 1 /\ compare_events(heap[c], heap[Len(heap)])}

\* The children of q that are handled before the last event, and the first of them.
Below(heap, q) ==
  {c \in {2 * q, 2 * q + 1} : c < Len(heap) /\ compare_events(heap[c], heap[Len(heap)])}
Child(heap, q) ==
  CHOOSE c \in Below(heap, q) : \A d \in Below(heap, q) \ {c} : compare_events(heap[c], heap[d])

\* The last event takes the root's place and sinks, each time to the child that
\* is handled first, which moves up.
Sinking(heap) ==
  {q \in 1 .. Len(heap) - 1 :
     \A a \in above[q] \ {1} : Below(heap, a \div 2) # {} /\ a = Child(heap, a \div 2)}
event_queue_pop(heap) ==
  [q \in 1 .. Len(heap) - 1 |->
     IF q \notin Sinking(heap) THEN heap[q]
     ELSE IF Below(heap, q) = {} THEN heap[Len(heap)] ELSE heap[Child(heap, q)]]

-----------------------------------------------------------------------------
(* The runs.                                                               *)

\* The heap of the arrivals of all tasks, which are pushed one after the other.
arrivals ==
  LET heap[k \in 0 .. n] ==
        IF k = 0 THEN <<>>
        ELSE event_queue_push(heap[k - 1], [timestamp |-> file.start_time[k - 1], task_index |-> k - 1,
                                            category |-> EVT_START])
  IN  heap[n]

\* Everything is set as at the start, and the arrivals are queued.
BeginRun ==
  /\ round \in DOMAIN Quanta /\ ~running
  /\ running' = TRUE
  /\ system_time' = 0 /\ idle_periods' = 0 /\ running_task' = NOTASK
  /\ ready_queue' = <<>>
  /\ burst_index' = [t \in Tasks |-> 0]
  /\ time_left' = [t \in Tasks |-> file.compute_times[t][1]]
  /\ queue_time' = [t \in Tasks |-> 0] /\ completion_time' = [t \in Tasks |-> 0]
  /\ status' = [t \in Tasks |-> "INIT"]
  /\ waited' = [t \in Tasks |-> 0]
  /\ event_queue' = arrivals
  /\ UNCHANGED <<file, round>>

EndRun ==
  /\ running /\ event_queue = <<>>
  /\ running' = FALSE /\ round' = round + 1
  /\ UNCHANGED <<file, event_queue, ready_queue, clock, running_task, status, burst_index,
                 time_left, times, waited>>

\* How long a task runs that is given the CPU.
Slice(q, left) == Smaller(q, left)

\* Mutant: the task that gets the CPU stays in the ready queue.
schedule_next_task_Peek(ready, heap, cpu, left, state) ==
  IF cpu # NOTASK \/ ready = <<>>
  THEN /\ ready_queue' = ready /\ event_queue' = heap /\ running_task' = cpu /\ status' = state
  ELSE LET next_task == Head(ready)
           duration  == Slice(quantum, left[next_task])
       IN  /\ ready_queue' = ready
           /\ running_task' = next_task
           /\ status' = [state EXCEPT ![next_task] = "ACTIVE"]
           /\ event_queue' = event_queue_push(heap,
                [timestamp |-> system_time' + duration, task_index |-> next_task,
                 category |-> IF duration = left[next_task] THEN EVT_COMPLETE ELSE EVT_PREEMPT])

\* schedule_next_task, given what the handler of the event left.
schedule_next_task(ready, heap, cpu, left, state) ==
  IF cpu # NOTASK \/ ready = <<>>
  THEN /\ ready_queue' = ready /\ event_queue' = heap /\ running_task' = cpu /\ status' = state
  ELSE LET next_task == Head(ready)
           duration  == Slice(quantum, left[next_task])
       IN  /\ ready_queue' = Tail(ready)
           /\ running_task' = next_task
           /\ status' = [state EXCEPT ![next_task] = "ACTIVE"]
           /\ event_queue' = event_queue_push(heap,
                [timestamp |-> system_time' + duration, task_index |-> next_task,
                 category |-> IF duration = left[next_task] THEN EVT_COMPLETE ELSE EVT_PREEMPT])

\* The next event is taken off the heap, and the clock moves to its time.
evt == event_queue[1]

Handle(category) ==
  /\ running /\ event_queue # <<>>
  /\ evt.category = category
  /\ system_time' = evt.timestamp
  /\ idle_periods' = idle_periods + IF running_task = NOTASK THEN evt.timestamp - system_time ELSE 0
  /\ waited' = [t \in Tasks |-> waited[t]
                  + IF Contains(ready_queue, t) THEN evt.timestamp - system_time ELSE 0]
  /\ UNCHANGED <<file, round, running>>

Start ==
  /\ Handle(EVT_START)
  /\ schedule_next_task(Append(ready_queue, evt.task_index), event_queue_pop(event_queue),
                        running_task, time_left, [status EXCEPT ![evt.task_index] = "QUEUED"])
  /\ UNCHANGED <<burst_index, time_left, times>>

Complete ==
  /\ Handle(EVT_COMPLETE)
  /\ LET t    == evt.task_index
         done == burst_index[t] + 1 = burst_count(t)
         turnaround == system_time' - file.start_time[t]
         heap == event_queue_pop(event_queue)
     IN  /\ burst_index' = [burst_index EXCEPT ![t] = @ + 1]
         /\ completion_time' = [completion_time EXCEPT ![t] = IF done THEN turnaround ELSE @]
         /\ queue_time' = [queue_time EXCEPT ![t] = IF done THEN turnaround - activity_time(t) ELSE @]
         /\ schedule_next_task(ready_queue,
              IF done THEN heap
              ELSE event_queue_push(heap,
                     [timestamp |-> system_time' + file.wait_times[t][burst_index'[t]],
                      task_index |-> t, category |-> EVT_UNBLOCK]),
              NOTASK, time_left, [status EXCEPT ![t] = IF done THEN "DONE" ELSE "BLOCKED"])
  /\ UNCHANGED time_left

Unblock ==
  /\ Handle(EVT_UNBLOCK)
  /\ time_left' = [time_left EXCEPT ![evt.task_index] =
                     file.compute_times[evt.task_index][burst_index[evt.task_index] + 1]]
  /\ schedule_next_task(Append(ready_queue, evt.task_index), event_queue_pop(event_queue),
                        running_task, time_left', [status EXCEPT ![evt.task_index] = "QUEUED"])
  /\ UNCHANGED <<burst_index, times>>

\* Mutant: the whole slice is still to come.
Remaining_NotReduced(left, q) == left

Remaining(left, q) == left - q

Preempt ==
  /\ Handle(EVT_PREEMPT)
  /\ time_left' = [time_left EXCEPT ![evt.task_index] = Remaining(@, quantum)]
  /\ schedule_next_task(Append(ready_queue, evt.task_index), event_queue_pop(event_queue),
                        NOTASK, time_left', [status EXCEPT ![evt.task_index] = "QUEUED"])
  /\ UNCHANGED <<burst_index, times>>

Ended == round > Len(Quanta) /\ UNCHANGED vars

Next == BeginRun \/ Start \/ Complete \/ Unblock \/ Preempt \/ EndRun \/ Ended

Spec == Init /\ [][Next]_vars

-----------------------------------------------------------------------------
(* Properties.                                                             *)

EventsOf(t) == {i \in DOMAIN event_queue : event_queue[i].task_index = t}
QueuedAt(t) == {i \in DOMAIN ready_queue : ready_queue[i] = t}

\* What a task waits for, by the kind of its one event.
Awaits(category) ==
  CASE category = EVT_START    -> {"INIT"}
    [] category = EVT_UNBLOCK  -> {"BLOCKED"}
    [] OTHER                   -> {"ACTIVE"}

\* A task is in one place: it has one pending event, of the kind its status
\* tells, or stands once in the ready queue, or is done; the task that has the
\* CPU is the one with a timeout or a burst's end pending; and the CPU is not
\* left idle while a task is ready (schedule.c l. 214-237, 285-340).  So both
\* queues stay within the arrays that hold them.
OnePlacePerTask ==
  running =>
    /\ \A t \in Tasks :
         /\ Cardinality(EventsOf(t)) = IF status[t] \in {"QUEUED", "DONE"} THEN 0 ELSE 1
         /\ Cardinality(QueuedAt(t)) = IF status[t] = "QUEUED" THEN 1 ELSE 0
         /\ \A i \in EventsOf(t) : status[t] \in Awaits(event_queue[i].category)
         /\ running_task = t <=> status[t] = "ACTIVE"
    /\ running_task = NOTASK => ready_queue = <<>>

\* What is handled next comes first in time; of what happens at one time a
\* timeout comes after every arrival, and arrivals come by their IDs, in
\* whatever shape the heap is (schedule.c l. 99-172; LA3.pdf p. 2: "Arrival
\* (for the first time or after IO completion) < CPU timeout").
EventsInOrder ==
  \A i \in DOMAIN event_queue :
    LET e == event_queue[i]
    IN  /\ evt.timestamp >= system_time /\ evt.timestamp <= e.timestamp
        /\ evt.timestamp = e.timestamp /\ e.category \in Arrivals =>
             /\ evt.category # EVT_PREEMPT
             /\ evt.category \in Arrivals =>
                  file.task_id[evt.task_index] <= file.task_id[e.task_index]

\* The CPU time that task t has had.
Served(t) ==
  LET burst == file.compute_times[t][burst_index[t] + 1]
      still == event_queue[CHOOSE i \in EventsOf(t) : TRUE].timestamp - system_time
  IN  SumTo(file.compute_times[t], burst_index[t])
      + CASE status[t] = "QUEUED" -> burst - time_left[t]
          [] status[t] = "ACTIVE" -> burst - time_left[t] + Smaller(quantum, time_left[t]) - still
          [] OTHER                -> 0

\* The times that are reported are those that passed: the clock less the idle
\* time is the CPU time that all tasks have had, and the wait time of a task,
\* computed from its turnaround, is the time it stood in the ready queue,
\* whatever preemptions and ties it went through (schedule.c l. 278-280,
\* 298-301, 331).
TimesAddUp ==
  running =>
    /\ system_time - idle_periods = SumTo([i \in 1 .. n |-> Served(i - 1)], n)
    /\ \A t \in Tasks : status[t] = "DONE" => queue_time[t] = waited[t]

Sol == INSTANCE SolScheduler

\* The two simulations of the assignment report the same: every task leaves once and
\* with the same turnaround and wait times, and the CPU has been idle as long, although
\* sol_schedule.c orders events at one time by their kind, has one event record per job
\* and builds its heap in place (schedule.c l. 99-113, 210-237; sol_schedule.c l. 103-112).
SimulationsAgree ==
  ~ running /\ round > 1 =>
    LET sol == Sol!schedule(n, file, Quanta[round - 1])
    IN  /\ Len(sol.exits) = n
        /\ ToSet(sol.exits) = {<<t, completion_time[t], queue_time[t]>> : t \in Tasks}
        /\ sol.t = system_time /\ sol.cpuidle = idle_periods

=============================================================================
