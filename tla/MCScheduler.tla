----------------------------- MODULE MCScheduler -----------------------------
EXTENDS Scheduler

\* A task has one burst, or two with I/O between them.
Programs == {<<<<3>>, <<>>>>} \cup {<<<<c, d>>, <<w>>>> : c \in {1, 3}, d \in {1, 2}, w \in {1, 2}}

\* Three tasks that arrive together or apart, in the order of their IDs or against it.
ThreeTasks ==
  {[task_id |-> ids,
    start_time |-> [t \in 0 .. 2 |-> starts[t + 1]],
    compute_times |-> [t \in 0 .. 2 |-> programs[t + 1][1]],
    wait_times |-> [t \in 0 .. 2 |-> programs[t + 1][2]]] :
   ids \in {[t \in 0 .. 2 |-> t + 1], [t \in 0 .. 2 |-> 3 - t]},
   starts \in {<<0, 1, 1>>, <<1, 0, 3>>},
   programs \in Programs \X Programs \X Programs}

ThreeQuanta == <<100, 2, 1>>
=============================================================================
