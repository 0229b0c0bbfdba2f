# Formal models of OSlab_CS39002

The repository holds eleven independent operating-systems assignments, `LA1` to
`LA11`, each a program or a few cooperating programs in C or C++, its
specification as a PDF (`LAx/LAx.pdf`), and for some a second solution
(`sol_*`). There is no shared library: the system's parts are the assignments.
This directory models the ones whose correctness depends on concurrency, on an
allocation policy or on a long sequence of steps. Line numbers (l.) refer to
the files under `src/`.

## Inventory

| Part | State | Operations | What is hard | What makes it correct | Here |
|---|---|---|---|---|---|
| **LA8** `resource.cpp`, decisions of `sol_resource.c`: resource manager with and without deadlock avoidance | AVAILABLE, ALLOC, NEED, active threads, the queue Q, one global request; rmtx, cmtx[i], cv[i], barriers BOS, REQB, ACKB[i] | users release, ask, quit; the master books, scans the queue, grants, signals | the acknowledgement comes before the booking; a signal may come before the wait; safety of tentative grants; starvation in the queue | no request overwritten, no signal lost, books balance, states stay safe, everyone finishes | modelled |
| **LA6** `cook.c`, `waiter.c`, `customer.c`: restaurant | segment M (time, tables, next waiter, cooking queue, a queue, a food-ready cell and a pending count per waiter), System V semaphores | cooks, waiters, customers and a wrapper as processes | many small critical sections, one semaphore for several purposes, simulated time read without a lock, people who go home | no wish lost or doubled, wakeups cover work, dishes are served, nobody leaves work behind | modelled |
| **LA7** `boating.c`, `sol_boating.c`: boats and visitors | BA, BC, BT, per-boat barriers, two home-made semaphores, `finished`, `done` | boats offer, ride, return; visitors call, search, ride, leave; the last one rings the closing bell | barriers re-created for every ride; wakeups and matches go different ways; shutdown | rides one to one, barriers ready, everybody ends | modelled |
| **LA10** `LRU.c`: page replacement | page tables with histories, list of free frames with former owners | load, access, fault, replace, age, exit | one list with three purposes; histories as order of use; boundaries at NFFMIN and 0xFFFF | frames conserved, minimum kept, least recently used evicted, a victim always found | modelled |
| **LA3** `schedule.c`, `sol_schedule.c`: CPU scheduler simulation | task table, event heap, ready queue, clock | arrival, end of burst, end of I/O, timeout | ties, two hand-written heaps, a circular queue, derived times | one place per task, events in order, times add up, both programs agree | modelled |
| **LA4** `coordinator.c`, `block.c` and those of `sol_LA4`: Foodoku | the puzzle; per block its board, its pipe and the put it works on | new game, solution, put, quit; ask row and column neighbours, answer | commands, questions and answers share one pipe; stale answers; blocks that wait for each other | no conflicting digit is accepted, the puzzle stays, nobody waits in vain | modelled |
| **LA9** `demandpaging.cpp`: demand paging with swapping | page tables, free frames, ready and swapped queues | search step, fault, swap out, swap in, exit | a process that does not fit; processes that end inside the swap-in of another; queues that may be empty | frames conserved, every search made | modelled |
| **LA5** `leader.c`, `follower.c` and those of `sol_LA5`: turns in shared memory | a segment with the number of followers, the count of those who joined, the turn and the numbers | create, join, draw, add up, last round, remove | increments without locks, read after detach, removal by one for all | a sum uses numbers of its own round, nobody is left behind, the game ends | modelled |
| **LA2** `parent.c`, `child.c` and those of `sol_LA2`: ball game over signals | who plays, a flag, the number of a dummy process in a file; per child what it knows of itself | throw, catch, miss, print a row, stop | signals do not queue, handlers run on top of each other, two records of who plays | one row at a time, the ball goes to players, the last player wins, the game goes on | modelled |
| **LA1** `rebuild.c`: dependency rebuild | `done.txt` | recursive rebuild by child processes | a file as shared state, but a parent waits for each child before it forks the next | every node rebuilt once, after its dependencies | not modelled |
| **LA11** `findall.c` | none | directory walk | pure I/O | | not modelled |
| other `sol_*`, samples, generators | | | | | generators give the inputs' ranges; the rest is not modelled, see below |

The parts of one assignment interact as follows. LA8: users write `g_request`
under `rmtx` and meet the master at `REQB` and `ACKB[i]`; the master signals
`cv[i]`. LA6: customers hand a wish to a waiter's queue, the waiter an order to
the cooking queue, the cook a mark to the waiter's cell, each followed by a V on
the next one's semaphore. LA7: a visitor does V(boat) then P(rider), a boat
V(rider) then P(boat); the pair then meets at the boat's barriers. LA10, LA9
and LA3 are sequential; their components (processes, events) interact through
tables. LA2: the parent sends USR2 (throw) to a child, the child answers with USR1
(caught) or USR2 (missed), the parent sends USR1 (print) to the first child, each child
passes it on, and the last one kills the dummy process the parent waits for. LA5: leader
and followers pass the turn through one cell of the segment. LA4: the coordinator writes commands into the blocks' pipes, and blocks
write questions and answers into each other's.

## Modules

| Module | Models | State and actions against the code |
|---|---|---|
| `SafeState` | what it means for a state to be safe | the definition, by an order in which all can finish |
| `Banker` | LA8 `is_safe_state`, `can_fulfill_req`; `issafe`, `resourceavailable`, `safetoallocate`, `canserve` of `sol_resource.c` | one thread's turn in a scan is `LetFinish`, the for loop over the threads `Pass`, the do-while a recursive function of the trial (work vector and who has finished) |
| `Allocator` | what LA8 promises | abstract: give and ask, grant, leave; no threads, messages or queue; `Service` is `Safety` and weak fairness of each grant |
| `ResourceSession` | LA8 `main`, `user_thread`, `master_thread` | a program counter per thread; one action per synchronisation operation or critical section; a scan of the queue takes one entry a step |
| `Restaurant` | LA6 | a program counter per process; a critical section under the mutex is one action, and so are each P, each V and each unlocked access to M |
| `Jetty` | what LA7 promises | abstract: board, land |
| `SolBoating` | LA7 `sol_boating.c` | the same for the solution: boats on offer all the time, no lock kept at the barrier, main at the barrier `EOS`; joining a barrier that is not initialised has any outcome |
| `Boating` | LA7 `boating.c` | a program counter per thread; the semaphores of l. 16-32 as counters with their negative values; barriers as sets of the parties that have arrived |
| `PageReplacement` | LA10 | one access of A[M] is one action; the list of free frames is the sequence of its first NFF entries |
| `Scheduler` | LA3 `schedule.c` | one event is one action, with the scheduling after it; the heap is a sequence with the code's parent and child positions |
| `SolScheduler` | LA3 `sol_schedule.c` | the simulation as a function of the input file and the quantum: a heap of jobs, each with its one event, and the circular queue with its front and back |
| `DemandPaging` | LA9 | one access of A[M] is one action; the free frames are the sequence of the first `cntff` entries; the tail recursion of `swapInNextProcess` is a loop that knows its first caller |
| `Foodoku` | LA4, both programs | the user has chosen a program; a program counter per block; each write to and each read from a pipe is one action; the coordinator's loops over the blocks write one command a step |
| `CatchGame` | LA2, both programs | `version` says which; per process the stack of its running handlers and the set of its pending signals; every send, every decision and every end of a handler is an action |
| `Followers` | LA5, both programs | `version` says which; a label per process; each read or write of the segment that others can notice is an action |
| `ResourceSession_proofs`, `Scheduler_proofs`, `MCBoating_proofs`, `Foodoku_proofs`, `Followers_proofs`, `CatchGame_proofs`, `Restaurant_proofs`, `PageReplacement_proofs` | theorems and lemmas on the modules they are named after | see "What is proved"; `MCBoating_proofs` is about `Boating`, `SolBoating` and what `MCBoating` makes of them, `ResourceSession_proofs` is also about `Banker` and about what `MCResourceSession` adds, and the last sections of `PageReplacement_proofs` are about `DemandPaging` |
| `MC*` | inputs for TLC; `MCBanker` also the comparison of LA8's two safety tests, `MCBoating` the choice between LA7's two programs | |

`PageReplacement.uses`, `Scheduler.waited` and `Followers.wrote` are auxiliary: no guard
reads them, and they stand for nothing in the code. They record what really happened
so that the histories, the computed wait times and the sums can be compared with it.
The `TypeOK` of `Restaurant`, `Boating`, `SolBoating` and `PageReplacement` say what values the
variables take; no run of theirs checks them.

Definitions whose name ends in `_Something` and that a comment calls a mutant
are plausible mistakes next to the definition they would spoil; no run uses
them. They record what each property is able to notice.

## What each run checks

| Run | Bounds | Result |
|---|---|---|
| `la8_session` (`LA8Session.cfg`) | 2 threads with 2 requests each, 2 types, with and without avoidance; the safety tests also on all tables of 2 threads and 2 types with entries up to 2 | handshake, signals, queue, books, safety, no request passed over that the pool could serve, completion with avoidance, `Allocator` is implemented; the safety tests of both programs are exact, serve the same requests and serve somebody in every safe table |
| `la6_lunch` (`LA6Lunch.cfg`) | 2 customers, 1 waiter, 2 cooks, 2 tables, arrivals on both sides of closing time | wishes, signals, wakeups, pending counts; every wish is cooked unless those who would cook it went home; every dish is served unless its mark met another's |
| `la6_last_cook` (`LA6LastCook.cfg`) | 3 customers, 1 waiter, 3 tables | violated: see below |
| `la7_boating` (`LA7Boating.cfg`) | 2 boats, 3 visitors, either program | matches, calls and searches in both; barriers, closing only when all visitors rode, termination, and `Jetty` is implemented by `boating.c`; `sol_boating.c` ends after the last ride unless a rider is stranded |
| `la10_paging` (`LA10Paging.cfg`) | 2 processes, 9 frames, minimum 1, arrays of 6 pages, 4 searches, 2 history bits | frames are conserved and the minimum is kept, the least recently used page goes |
| `la10_no_victim` (`LA10NoVictim.cfg`) | the same | violated: see below |
| `la9_paging` (`LA9Paging.cfg`) | 3 processes, arrays of 2, 4 or 5 pages, 1 or 2 searches, 6 frames, 2 essential pages; 3059 inputs | frames are conserved and owned by those in memory, every search is made |
| `la4_foodoku` (`LA4Foodoku.cfg`) | 9 blocks, a puzzle with two digits, 3 moves, five kinds of users with up to 2 commands, one of them at `sol_LA4` | patient play is consistent, blocks and puzzle stay intact, nobody waits in vain, every game ends |
| `la4_hasty` (`LA4Hasty.cfg`) | the same, a user who does not wait | violated: see below |
| `la3_schedule` (`LA3Schedule.cfg`) | 3 tasks, 2916 input files, quanta 100, 2, 1 | one place per task, order of events, times add up, every run ends with the times that `sol_schedule.c` computes |
| `la2_game` (`LA2Game.cfg`) | 3 children, both programs, every catch and miss | rows one at a time, throws only to players, the last player wins, the game goes on unless the parent misses an answer |
| `la5_followers` (`LA5Followers.cfg`) | a leader that wants 2 followers, 3 follower processes, draws 1 or 2 and 1, both programs | when the numbers are proper, sums are fresh, nobody is left behind, the game ends for everyone |

Why the bounds are enough to be interesting. LA8: two threads are the least that
can deadlock, two types the least where a pool covers a request in one type
only; two requests after which each can still hold what the other needs. LA6:
two customers share a waiter and its single food-ready cell; two cooks is what
the code has; the third customer of the second run is needed because two cooks
must both have taken an order before the one that is left behind. LA7: with
more visitors than boats every boat is used again, so barriers are made anew;
with two boats the boat woken need not be the boat found. LA10: nine frames
leave seven to share, so that a process may run short in its second search
(failure) or only later (replacement); all four attempts of the search for a
frame occur, and four searches outlive a history of two bits. LA9:
with six frames nothing is free after loading; a process that exits leaves few
or many, so the next one fails again when it is swapped in, or ends there and
lets in a third. LA4: a put involves five of the nine blocks, so the whole board
is there; the puzzle holds one digit that a move meets in its row and one in
its column; two commands are the least of which one can be taken for an answer
to the other's questions. LA3: three tasks
make heaps with two children; times up to 3 make ties of every kind, and the ready
queue of `sol_schedule.c` gets as full as it can. LA2: three children are the least
where a child that is out lies between two players. LA5: a third process can come when
the game is full, and two sums make the game go on for a few rounds; one follower
process more than seats is what makes the counts go wrong.

### Disagreements between code and documents

* `la6_last_cook`: `cook.c` l. 99 and 181 say that the last cook leaves when no
  order is in the queue; `cook.c` l. 182 tests what `dq_CQ` saw when the cook
  took its order. Order 1 cooks from 231 to 251, order 2 from 232 to 252, order
  3 is placed at 240: both cooks saw an empty queue and leave, order 3 stays.
* `la10_no_victim`: `LRU.c` l. 189 takes only pages whose history is below
  0xFFFF. After a process's first search all its pages have 0xFFFF, so if the
  free frames are at NFFMIN by then, its next fault finds no victim and the
  program exits. LA10.pdf p. 2 selects the minimum whatever it is. With input
  of `gensearch.c` this happens at 300 to 500 processes, not at 200.
* `la4_hasty`: LA4.pdf p. 1-2 places a digit only when no block, row or column
  repeats it; `block.c` l. 203 reads an answer with `scanf("%d", &response)` and
  does not look at the result. Another command or a neighbour's question in the
  pipe makes scanf fail without taking anything, all four times, and `response`
  keeps its value, which at first is whatever the stack held. The user who types
  a second digit for the same block at once gets both placed. With a user who
  waits until every block is quiet this cannot happen (`la4_foodoku`).

Smaller ones, met while modelling, that no run stands for:

* LA10.pdf p. 1-2 clears the ownership of the frames of an exiting process;
  `freeProcessFrames` (`LRU.c` l. 164-179) records it, and the model does the same.
* LA2.pdf p. 2 lets only the last player print that it won. `child.c` l. 51 passes the
  row on before l. 60 clears `last_action`. The row may end and the next throw
  reach the child in between, on top of the print handler; l. 60 then erases the
  miss, the child does not learn that it is out, and at the end it claims to have
  won too. `LastPlayerWins` therefore promises a single winner of `sol_LA2` only.
* `parent.c` l. 85-86 clears the flag after the throw and tests it before it pauses:
  an answer that comes in between is missed, and the game stops. `GameGoesOn`
  says that nothing else stops it.
* `leader.c` l. 34-35 writes M[0] before it clears M[1]: a follower that joins in
  between is forgotten. A follower that read M[0] before that keeps 0 as its limit.
  LA5.pdf p. 1 says that such races need not be dealt with; the properties of
  `Followers` presuppose `NumbersProper`.
* `sol_LA4/block.c` l. 163 skips the rest of a line after every command, also when the
  fourth answer was not there: it then takes a whole question of a neighbour, who
  waits for ever, or a Q. With a user who does not wait TLC finds this at once
  (`hurries |-> {"p"}` for `program |-> "sol"`); `la4_foodoku` has a user who does.
* LA7.pdf p. 2 has the last boat meet main at `EOS`, after which the process
  terminates, and p. 1 does not let the program rely on the order of the condition
  queue. In `sol_boating.c` a boat is on offer from l. 61 or 83 on, before and while
  it waits in P(&boat) (l. 68), and the rider takes the first boat on offer
  (l. 115-118). If V(&boat) wakes another boat, the rider waits at the barrier of a
  boat nobody called and the woken boat waits for a rider; with no further call to
  come, main waits at `EOS` for ever. A FIFO queue does not help, for boats come back
  from rides in any order. TLC shows it with two boats and one rider;
  `TerminatesUnlessStranded` says that nothing else stops the solution, and that
  `boating.c`, which offers a boat only after it was called (l. 69-80), always ends.
  The first offer even precedes the initialisation of the barrier (l. 61-62), which
  only the riders' sleep of 3 s (l. 106) hides.

## Fairness

Liveness is checked for LA8, LA6, LA7, LA9, LA2 and LA5 under weak fairness only. LA8: the
master's steps, and each user's steps. LA6: each process; each semaphore of a
waiter or a customer has one process that waits on it, so a V cannot be taken
by another for ever. LA7: each thread; the visitor's search sleeps 5 ms with
bmtx unlocked when it finds nothing (l. 137), so boats get the lock, and a
search that finds nothing is a stutter; in `sol_boating.c` every search finds a boat
(`CallsMatchInBoth`). This is what the operating system's
scheduler gives to threads that can run. LA2: the parent and each child; nothing
is assumed of catches, so a game may go on for ever. LA5: the leader and each
follower that was started; nobody need start one. LA9 is sequential; its
fairness says that the program keeps running. LA3 and LA10 are sequential and
LA4 has no liveness property: `la4_foodoku` checks deadlock, and no block can
run in circles, for a message is written only for a command that was given.

## What is proved

The theorems below hold for every value of the constants that the named assumptions
allow. None of the invariants is inductive as the runs check it; each time
the strengthening was first checked by TLC on the bounds of the run.

**LA8, the decisions** (first part of `ResourceSession_proofs`, from `CountsAssumption`). `NoStuckSet` says that
in every set of live threads somebody's need is covered by the pool and by what the threads
outside the set hold. `SafetyTestExact` and `SolutionTestExact` prove of `is_safe_state`
and of `issafe` that they answer yes exactly for such tables, so the two agree
(`SafetyTestsAgree`) whatever the order of their scans; `DefinitionMeansNoStuckSet` proves
the same of the definition by an order of finishing, which gives
`SafetyTestMeetsDefinition`. The loops are recursive functions on trials; that they are
defined at all, and what they return, is shown by a least counterexample
(`WFMin` on the number of unfinished threads) instead of induction over an operator. A
scan keeps `Sound`: work is the pool plus what those finished hold, and a thread that is
stuck when the scan ends is in a stuck set. The only hypothesis on the tables is
that nobody holds less than nothing, which `NoOverdraft` gives for the session.
Lemmas used by the session: what a release, a quit and the undoing of a grant do to
`NoStuckSet`.

**LA8, the session** (rest of `ResourceSession_proofs`, from `CountsAssumption`,
`InputAssumption` and `BoundAssumption`, both builds).

* `TypeCorrect`, `RequestIsStable` (while the master may read `g_request` it is what its
  writer wrote), `SignalsArrive` (a signal always finds its thread asleep) and
  `SleepersAreInLine` (a thread sleeps exactly while one request of its is in a queue).
  The invariant `IInv` is `TypeOK`; `HandshakeInv` (`LabelInv`, `RmtxInv`, `BarrierInv`,
  `TransitInv`, `KindInv`: at most one thread is between `LockRmtx` and `UnlockRmtx`, and
  the master's label tells how far that thread is); `ActiveInv` (which threads have
  quit); `QueueInv` (`CmtxInv`, `PhaseInv`, `OneRequestPerSleeper`, `NoLostSignal`).
  `NoLostSignal` needs that the user takes `cmtx[i]` before it lets go of `rmtx`, that the
  master takes it before it signals, and that a request is in one queue only.
* `BooksAlwaysBalance` and `GrantsComeFirst`, from `BookInv`: `FileInv` (what a line of a
  file may ask for), `DueInv` (what a thread will hold once its request has been booked and
  granted is what its file says, and is within its maximum need), `Conservation`,
  `NeedBalances`, `NoOverdraft`. That a grant never makes NEED negative follows from
  `DueInv`, and not from the test in `can_fulfill_req` alone.
* `SafeThroughout`: with avoidance every reachable state is safe. A grant is tested
  beforehand; that releases and quits keep safety is a lemma on stuck sets.
* `NobodyIsOvertakenInVain`, from `PassInv` (requests are not negative, the queue is empty
  until the threads have met at BOS). It rests on `GrantMakesNoRoom`: whatever can be
  served after a grant to another thread could be served before it. This is what makes one pass
  front to back enough.
* `NoDeadlockWithAvoidance`: with avoidance, when the master waits at REQB and somebody is
  live, some live thread does not sleep. It follows from the invariants above: in
  a safe state somebody's whole need can be granted, so a part of it can, but what
  is left in the queue cannot be.
* `TestsMeetDefinition`: the property `AgreesWithDefinition`, and so also that of the
  tables, which hold for tables of any entries (`SmallTablesExact`,
  `SmallTablesProgress`).
* `ImplementsAllocatorSafely`: every behaviour of the session is one of `Allocator`'s
  `Safety`. `LiveInv` (the thread being served is live) is added; bookings map to
  `GiveAndAsk` or `Leave`, a grant to `GrantTo`, unless it is a grant of nothing, and all else to
  stuttering.

**LA7** (`MCBoating_proofs`, from `SizeAssumption` and `TimeAssumption`). `BoatingTypes`,
`RidesAlwaysMatch`, `BarriersAlwaysReady`, `CallsAlwaysMatch`, `BoatingIsAJetty` (the safety
half of the refinement of `Jetty`). `RideInv` is `TypeOK`, `CountInv` and `PairInv` (who holds
the mutex, what the flags of a boat on offer, called and riding are, who waits in which
barrier, and that a visitor aboard and its boat know each other); `BalanceInv` is the
equation between calls, answers, searches and the two semaphores. The second part
adds `SolInv` for `sol_boating.c` (a rider that searches always finds a boat on offer,
for more boats have signalled than riders are searching) and proves the three properties of
the run for whichever program was chosen.

**LA5** (`Followers_proofs`). `SumsAreFresh` and `NobodyStaysBehind`, for any number of
followers and any draws, both under `NumbersProper` as in the run. `JoinInv` says who may
know which number; `RoundInv` says, for proper numbers, whose turn it is, which cells
have been written since the last sum and who has ended. Numbers that
are proper once were always proper (`ProperBefore`), so the hypothesis may be used in every step.

**LA2** (`CatchGame_proofs`). `OneRowAtAnyTime`, `ThrownOnlyToPlayers` and
`LastPlayerAlwaysWins`, for any number of children and both programs. The invariant
relates stacks of handlers and pending signals of all processes: `StackInv` (which
handlers may lie on top of which), `RowInv` (one child prints, or the next one has its
USR1 pending, or the dummy is dead), `BallInv` (where the ball is), `CountInv`, `OwnInv` (what a child
knows of itself against the parent's record), `SolInv` (what holds in `sol_LA2` only) and `EndInv`.

**LA6** (`Restaurant_proofs`, from `FilesAssumption` and `StaffAssumption`), for any number of
customers, waiters and tables and any arrivals in the order of the file: `OneWish`,
`SignalsMean`, `NoWakeupIsLost` with its consequence `CooksFindOrders` (the code for an empty
cooking queue is dead), and `WaitersStay`.

* `LunchInvariant` is the common part. `TypeInv`: `TypeOK`; `SeatInv` (tables taken and tables left
  are all there are); `HandInv` (who works holds a customer). `PlaceInv`: `DoorInv` (customers come in the
  order of the file, and the segment goes when all have left); `LineInv` (a customer stands once, and with
  the waiter it chose, wherever it stands); `StageInv`. `StageOf(c)` names the
  places of a wish (in line, in hand, being called, listed, cooking, marked, served), says which exclude each
  other, and ties them to what the customer has been told. It is the
  strengthening `OneWishPerCustomer` and `SignalsMeanWhatTheySay` need: they count, and counts
  alone do not keep a signal from being given twice. `WishCounts` derives the counts from the places.
* `WakeInv` is `WakeupsCoverWork` and `MarkInv`: a mark that the waiter did not see when it looked (l. 129-131)
  is announced by a V done or about to be done. Otherwise the wakeup that is used up for a customer would
  have been the one for the dish.
* `PendingInv` adds to `WaitersStayForTheirOrders` the order that has been counted (`waiter.c` l. 177) and not yet
  put into the queue (l. 182). That a cook marks a cell that holds a mark already only lets the count stay too high.

**LA10** (`PageReplacement_proofs`, from `SizeAssumption` and `MemoryAssumption`), for any number of
processes, searches and frames, any sizes, any keys and any width of the histories: `FramesAlwaysConserved`,
`TypesAlwaysOK` and `AlwaysEvictsLeastRecentlyUsed`.

* `FramesConserved` counts the places of each frame. The invariant `PlaceInv` names the one place instead
  (`OnlyInList`, `OnlyInTable`), so that each step can say where it takes that frame: the first of the list
  to the page that faults, the victim's to the end of the list, a whole table behind the list.
  `OnePlaceIsCountedOnce` goes back to the counts.
* It needs three more facts: `LoadInv` (the process being read has no page yet, and loading has used so
  many frames that the next process's still leave the minimum), `SearchInv` (the access stays in the array)
  and `CountInv` (the finished processes are those with all their searches made).
* About the operators: `LeastNumber` and `GreatestNumber` say that `Min` and `Max` choose an element, so a
  victim is a valid page (`VictimIsValid`) and whichever of the four attempts finds a frame, it is on the
  list (`SuitableFrameIsListed`); `InOrderIsAList` says that a leaving process returns each of its pages once.
* For the victim, `HistoryInv` ties the bits to the searches the code does not remember: the reference bit is the
  use by the search that runs; for each k the history is at least the weight of bit BITS - k exactly if one of
  the last k searches used the page (or this one loaded it); and it is full if every search since the loading used
  it. It holds of array pages only, the essential ones are never read. `HistoryOfAged` is the shift at the end of a
  search, `OlderIsUnusedLonger` compares two pages, and `VictimIsOldest` says which one `findVictimPage` takes.

**LA9** (the last sections of `PageReplacement_proofs`, from `SizeAssumption` and `MemoryAssumption` of
`DemandPaging`, which are hypotheses of the theorem), for any number of processes, any arrays and keys,
and any sizes that satisfy them: `FramesConserved` (`FramesAlwaysConservedInLA9`). The module of LA10's
proofs declares LA9's constants and what variables LA10 has not, and instantiates `DemandPaging` as `LA9`.

* `PagingInv` has two parts. `Standing`: each process is ready, swapped out or the one that runs, in one
  place only, or it has made all its searches. `Kept`: those that are ready or run are in memory, have their essential
  pages and are as many as `activeProcesses` says, the others own nothing, and each frame is in
  one place (`Placed`: the list and the tables as functions without a common value that cover the frames).
* Memory moves in two ways, whatever the action: `FramesTaken` (from the end of the list to new pages of a process) and
  `FramesReturned` (all of a process's to the list); `Enters`, `PageComes` and `Leaves` say what they do to `Kept`.
* `swapInNextProcess` never loses a process: it is called when a process has just given back its frames, so
  there are enough for the next one's essential pages (`Leaves`), or with nobody in memory, when all frames
  are free (`AllFree`). `NextComesIn` needs this for every caller.
* At the start (`AllLoaded`) the tables share no frame because page a of process p gets frame
  `USER_FRAMES - p * ESSENTIAL_PAGES - a - 1`, and the blocks of `ESSENTIAL_PAGES` numbers do not
  overlap (`Blocks`).

**LA4** (`Foodoku_proofs`, from `PuzzleAssumption` and `UserAssumption`), for any puzzles with their solutions,
any users, moves and numbers of commands, and both programs: `BlocksStayIntact`, `PatientPlayStaysConsistent` and
`NobodyEverWaitsInVain`.

* `DrawInv` is about commands under way: a new board and a solution are never under way at once, and a block of
  `block.c` that waits for no board has the puzzle. With it `Proper(b)` is inductive: a digit a block asks about is
  neither in the block nor in a cell of the puzzle, however many boards come while it asks. That makes
  `BlocksIntact`; it holds whatever the answers are.
* `WaitInv` counts, for every block of `block.c`, the answers to it and the questions from it in all nine pipes
  (`UnderIn`) and keeps at least as many as the block has still to read (`Needed`). The lemmas `UnderAppended` and
  `UnderTaken` say what one message more or less does to the count. A block that meets a question instead of an answer
  takes nothing, so it never reads what another block waits for.
* `PatientInv` says that a patient user's game is one thing at a time: drawing, quitting, or one block that is
  about to put a digit (`Waiting`), asks about it (`Playing`) or is done with it (`Ending`). In `Playing` every neighbour
  that was asked is `Cleared`: it has no conflict, has not answered, or its 1 has not been read; and there are exactly as
  many messages as the block awaits (`Traffic`), so when it has read four zeros nothing is left and all four are
  clear. `PlacedDigit` takes from there to the 81 cells: the four neighbours and the block itself are all the blocks
  of the row and the column (`ThreesInLine`).

**LA3** (`Scheduler_proofs`, from `FileAssumption` and `SizeAssumption`), for any number of tasks below the
array's limit, any bursts, arrivals and I/O times, and any sequence of quanta: `TasksAreInOnePlace`, `EventsComeInOrder`
and `ReportedTimesAddUp`. All follow from `IInv` (`Inductive`), whose parts are these.

* The heap: `HeapOf(heap, E)` says that the heap holds each event of the set E once and no event before its
  parent. `Pushed` and `Popped` prove that a push adds one event to E and a pop takes the root away, wherever the event
  comes to rest; `RootIsFirst` that nothing in E comes before the root. The ways to the root are the closure of
  halving (`Path`, `Paths`). All of this rests on `compare_events` being a total order, and in general it is not one: an end of
  a burst may come by ID after a timeout and before an arrival that comes before the timeout. `EventOrder` proves it
  for `Orderly` sets (one event per task, and at most one timeout or end of a burst), and the invariant keeps
  the pending events so.
* `Placed`: each task's status against its pending event, the ready queue and the CPU. This is
  `OnePlacePerTask` said about the set of events instead of counts of positions in two arrays.
* `Accounted`: for each task, the time from its arrival to its next event is the time it waited, its bursts
  and I/O so far, and the part of the present burst. A timeout splits a burst, and only `time_left` remembers by how much.
* `Balanced`: the clock less the idle time is the sum of what the tasks have had of the CPU. `SumSteps` and `OneGrows` say how
  such a sum changes; `ClockMoves`, `WaitsAreCounted` and `IdleTimeIsCounted` take the clock to the next event.
* One lemma per kind of event (`Starts`, `Unblocks`, `Preempts`, `Finishes`, `Blocks`) takes the invariant to the
  scheduling that follows, one (`Schedules`) through it, and `Reaches` puts them together. `AllArrive` is the load of the heap.
* Complete induction (`FromSmaller`) is a lemma about sets of numbers, from `WFMin`, since the provers cannot
  instantiate an induction rule with an operator.

Only model-checked: liveness (such as `RunsToCompletion`, `GameGoesOn`, `WishesAreCooked`,
`DishesAreServed`) and the fairness halves of `ImplementsAllocator` and of LA7's refinement, for
TLAPS has no rules for ENABLED here, LA9's `EverySearchIsMade` among them; and LA3's `SimulationsAgree`, which compares with a second simulation as a
whole, a recursion over its input.

## Abstractions

* Output, its locks and semaphores, statistics and failures to open or parse
  input are left out everywhere.
* A wait (P, `pthread_cond_wait`, `pthread_barrier_wait`) returns only when it
  was signalled: spurious wakeups and interrupted calls are left out.
* LA2: the sleeps at the start are long enough for everyone to install its handlers; the
  text of a row is left out.
* LA5: what a process does between two accesses that others can notice is one step; a
  busy wait that finds nothing is left out, and so are a second leader and the
  programs that only fork followers.
* LA6: a waiter's queue is an unbounded sequence; in the code it has 196 cells, and a day of
  `gencustomers.c` does not fill them. `usleep` is an arbitrary delay, while the simulated time and its
  arithmetic (240, 1, 30, 5 per person) are the code's. The removal of the IPC
  objects while processes still wait is modelled.
* LA7: ride times only matter as data; the solution's boats are numbered from 0, and
  its threads run on until main exits, cancelled or not; the macOS replacement of barriers is
  taken by its contract.
* LA10: page numbers, sizes and the bits of the history are constants, and so are the values of
  those bits (`Weight`, the powers of two by the assumption that each is twice the one before: the provers do
  not know `2 ^ BITS`); a key is chosen when its search begins instead of being read beforehand.
* LA9: the ready queue holds no process that made all its searches, so
  l. 298-304 are left out; the assumptions that all essential pages and one
  whole process fit are those of the generator and of the sizes in the code.
* LA4: the user looks at the boards before each command, so a new board or
  solution has been drawn by then; while one is being sent or drawn nothing is claimed of the
  boards, and `PatientPlayIsConsistent` says so. `put` and `response` get default values where the
  code's variables are out of scope. `response` starts with any value. Cells
  that are empty stay writable after `s`, as in the code. Windows, help and
  invalid input are left out, and so is that `temp_stdout` is never closed. The
  solution's coordinator does what `coordinator.c` does; its block differs.
* LA3: the two queues of `schedule.c` are sequences; `OnePlacePerTask`, which is proved, shows that they
  stay within the arrays. An event's way up and the last event's way down the heap are given by the positions they pass
  (`above`, `Sinking`) instead of a loop of swaps. The circular queue of `sol_schedule.c` is modelled as it is.

## Not modelled

* LA1: a parent waits for each child before it forks the next, so no two processes
  ever run at once; the file is a plain array. What is odd lies in parsing: a line
  without dependencies leaves `child_foodule[0]` as it was (l. 140) or 0, and lines are
  cut at 100 characters (l. 75).
* LA11: a directory walk, pure I/O.
* `LA6/sol_LA6`: the same protocol with larger critical sections and the same single
  food-ready cell.
* The threads of `LA8/sol_resource.c`: a second program for what `ResourceSession` models;
  its decisions are in `Banker`.
* `LA7/pthread_barrier.h` (macOS) beyond its contract, the samples and transcripts.

## Plan

1. Done: LA8, LA6, LA7, LA10, LA9, LA3, LA4, LA2, LA5 as above, and the first theorems.
2. Done: theorems on LA8 with its refinement, LA7 (both programs), LA5, LA2, LA6, LA10, LA4, LA3 and LA9.
3. Left: `SimulationsAgree`, which would need a step-by-step simulation of `SolScheduler` instead of a function.
