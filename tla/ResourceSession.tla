--------------------------- MODULE ResourceSession ---------------------------
(***************************************************************************)
(* The session of src/LA8/resource.cpp: n user threads place requests with *)
(* one master thread through a single global request, under the mutex      *)
(* rmtx and the two-party barriers REQB and ACKB[i]; a thread asking for   *)
(* more resources then sleeps on its own condition variable until the      *)
(* master grants the request.  The master alone keeps the books.           *)
(*                                                                         *)
(* Left out: the printing and its leaf lock pmtx, and failures to open,    *)
(* read or parse the input files.  A user's input file is a sequence of    *)
(* requests fixed in advance; here each line is chosen when it is sent,    *)
(* among those geninput.c can write.                                       *)
(***************************************************************************)
EXTENDS Banker, Sequences, FiniteSets

CONSTANTS
  TOTAL,           \* the vector read from system.txt
  MAX_NEED,        \* the first line of every thread file
  MaxRequests      \* bound: resource requests in each thread's file

ASSUME InputAssumption ==
  /\ TOTAL \in [Resources -> Nat]
  /\ MAX_NEED \in [Threads -> [Resources -> Nat]]
  /\ \A t \in Threads : MAX_NEED[t] \preceq TOTAL
ASSUME BoundAssumption == MaxRequests \in [Threads -> Nat]

Master == n
Procs  == 0 .. n
NOBODY == -1

RELEASE    == 0
ADDITIONAL == 1
QUIT       == 2

Requests     == [type : {RELEASE, ADDITIONAL, QUIT},
                 thread_id : Threads, request : Vectors]
FREED        == [type |-> -1]     \* the pointer g_request after free()
QueueEntries == [thread_id : Threads, req : Vectors]

VARIABLES
  DLAVOID,     \* which of the makefile's two executables runs: the one
               \* compiled with -D_DLAVOID, or the one that allows deadlocks
  pc,          \* where each thread of execution stands
  rmtx, cmtx,  \* owners of the mutexes, or NOBODY
  BOS, REQB, ACKB,  \* the threads blocked in each barrier
  g_request,   \* the global request record
  left,        \* request lines left in each thread's file
  held,        \* what a thread holds by the lines it has got past sending
  kind,        \* the type of the request line a thread is carrying out
  cur,         \* the master's copy of the request it is serving
  AVAILABLE, ALLOC, NEED,
  active,      \* the set of indices whose active_threads entry is true
  terminated_threads,
  Q, temp_queue, fulfilled_queue

sync  == <<rmtx, cmtx, BOS, REQB, ACKB>>
user  == <<left, held, kind>>
books == <<AVAILABLE, ALLOC, NEED, active, terminated_threads>>
queue == <<Q, temp_queue, fulfilled_queue>>
vars  == <<DLAVOID, pc, sync, user, g_request, cur, books, queue>>

Goto(p, label) == pc' = [pc EXCEPT ![p] = label]

Init ==
  /\ DLAVOID \in BOOLEAN
  /\ pc = [p \in Procs |-> "bos"]
  /\ rmtx = NOBODY
  /\ cmtx = [t \in Threads |-> NOBODY]
  /\ BOS = {} /\ REQB = {}
  /\ ACKB = [t \in Threads |-> {}]
  /\ g_request = FREED /\ cur = FREED
  /\ left = MaxRequests
  /\ held = [t \in Threads |-> Zero]
  /\ kind = [t \in Threads |-> RELEASE]
  /\ AVAILABLE = TOTAL
  /\ ALLOC = [t \in Threads |-> Zero]
  /\ NEED = MAX_NEED
  /\ active = Threads
  /\ terminated_threads = 0
  /\ Q = <<>> /\ temp_queue = <<>> /\ fulfilled_queue = <<>>

-----------------------------------------------------------------------------
(* Barriers: the thread that completes the count releases all the others.  *)

AfterRequest == IF terminated_threads = n THEN "join" ELSE "scan"

AfterBOS(p)  == IF p = Master THEN "reqb" ELSE "ready"
\* Mutant: the user does not wait for the acknowledgement.
AfterREQB_NoAck(p) == IF p = Master THEN "copy" ELSE "unlock_r"

AfterREQB(p) == IF p = Master THEN "copy" ELSE "ackb"
AfterACKB(p) == IF p # Master THEN "unlock_r"
                ELSE IF cur.type = QUIT THEN AfterRequest ELSE "handle"

Released(blocked, p, After(_)) ==
  [q \in Procs |-> IF q \in blocked \cup {p} THEN After(q) ELSE pc[q]]

JoinBOS(p) ==
  /\ pc[p] = "bos"
  /\ \/ /\ Cardinality(BOS) + 1 < n + 1
        /\ BOS' = BOS \cup {p}
        /\ Goto(p, "in_bos")
     \/ /\ Cardinality(BOS) + 1 = n + 1
        /\ BOS' = {}
        /\ pc' = Released(BOS, p, AfterBOS)
  /\ UNCHANGED <<rmtx, cmtx, REQB, ACKB, user, g_request, cur, books, queue>>

JoinREQB(p) ==
  /\ pc[p] = "reqb"
  /\ \/ /\ REQB = {}
        /\ REQB' = {p}
        /\ Goto(p, "in_reqb")
     \/ /\ REQB # {}
        /\ REQB' = {}
        /\ pc' = Released(REQB, p, AfterREQB)
  /\ UNCHANGED <<rmtx, cmtx, BOS, ACKB, user, g_request, cur, books, queue>>

JoinACKB(p, t) ==
  /\ pc[p] = "ackb"
  /\ t = IF p = Master THEN cur.thread_id ELSE p
  /\ \/ /\ ACKB[t] = {}
        /\ ACKB' = [ACKB EXCEPT ![t] = {p}]
        /\ Goto(p, "in_ackb")
     \/ /\ ACKB[t] # {}
        /\ ACKB' = [ACKB EXCEPT ![t] = {}]
        /\ pc' = Released(ACKB[t], p, AfterACKB)
  /\ UNCHANGED <<rmtx, cmtx, BOS, REQB, user, g_request, cur, books, queue>>

-----------------------------------------------------------------------------
(* A user thread.                                                          *)

\* geninput.c (l. 41-53) writes lines that keep the thread's running total
\* between nothing and its maximum need; these are the totals it may reach.
Holdings(t) ==
  {h \in [Resources -> UNION {0 .. MAX_NEED[t][j] : j \in Resources}] :
     h \preceq MAX_NEED[t]}

LockRmtx(t) ==
  /\ pc[t] = "ready"
  /\ rmtx = NOBODY
  /\ rmtx' = t
  /\ Goto(t, "write")
  /\ UNCHANGED <<cmtx, BOS, REQB, ACKB, user, g_request, cur, books, queue>>

\* Mutant: the thread reads on past the last line of its file.
WriteRequest_PastEnd(t) ==
  /\ pc[t] = "write"
  /\ g_request' = [type |-> RELEASE, thread_id |-> t, request |-> Zero]
  /\ kind' = [kind EXCEPT ![t] = RELEASE]
  /\ left' = [left EXCEPT ![t] = @ - 1]
  /\ Goto(t, "reqb")
  /\ UNCHANGED <<sync, held, cur, books, queue>>

WriteRequest(t) ==
  /\ pc[t] = "write"
  /\ left[t] > 0
  /\ \E h \in Holdings(t) :
       LET r    == h \ominus held[t]
           type == IF \E j \in Resources : r[j] > 0 THEN ADDITIONAL ELSE RELEASE
       IN  /\ g_request' = [type |-> type, thread_id |-> t, request |-> r]
           /\ kind' = [kind EXCEPT ![t] = type]
           /\ held' = [held EXCEPT ![t] = h]
           /\ Goto(t, IF type = ADDITIONAL THEN "lock_c" ELSE "reqb")
  /\ left' = [left EXCEPT ![t] = @ - 1]
  /\ UNCHANGED <<sync, cur, books, queue>>

WriteQuit(t) ==
  /\ pc[t] = "write"
  /\ g_request' = [type |-> QUIT, thread_id |-> t, request |-> Zero]
  /\ kind' = [kind EXCEPT ![t] = QUIT]
  /\ held' = [held EXCEPT ![t] = Zero]
  /\ left' = [left EXCEPT ![t] = 0]
  /\ Goto(t, "reqb")
  /\ UNCHANGED <<sync, cur, books, queue>>

\* Mutant: the thread goes to REQB without its cmtx.
LockCmtx_Skipped(t) ==
  /\ pc[t] = "lock_c"
  /\ Goto(t, "reqb")
  /\ UNCHANGED <<sync, user, g_request, cur, books, queue>>

LockCmtx(t) ==
  /\ pc[t] = "lock_c"
  /\ cmtx[t] = NOBODY
  /\ cmtx' = [cmtx EXCEPT ![t] = t]
  /\ Goto(t, "reqb")
  /\ UNCHANGED <<rmtx, BOS, REQB, ACKB, user, g_request, cur, books, queue>>

\* Mutant: an additional request is treated as non-blocking.
UnlockRmtx_NoWait(t) ==
  /\ pc[t] = "unlock_r"
  /\ rmtx' = NOBODY
  /\ cmtx' = [cmtx EXCEPT ![t] = NOBODY]
  /\ Goto(t, IF kind[t] = QUIT THEN "done" ELSE "ready")
  /\ UNCHANGED <<BOS, REQB, ACKB, user, g_request, cur, books, queue>>

UnlockRmtx(t) ==
  /\ pc[t] = "unlock_r"
  /\ rmtx' = NOBODY
  /\ Goto(t, CASE kind[t] = ADDITIONAL -> "cond_wait"
               [] kind[t] = RELEASE    -> "ready"
               [] kind[t] = QUIT       -> "done")
  /\ UNCHANGED <<cmtx, BOS, REQB, ACKB, user, g_request, cur, books, queue>>

\* pthread_cond_wait gives the mutex up and sleeps in one step ...
CondWait(t) ==
  /\ pc[t] = "cond_wait"
  /\ cmtx' = [cmtx EXCEPT ![t] = NOBODY]
  /\ Goto(t, "waiting")
  /\ UNCHANGED <<rmtx, BOS, REQB, ACKB, user, g_request, cur, books, queue>>

\* ... and takes it back before it returns; no predicate is tested again.
Reacquire(t) ==
  /\ pc[t] = "woken"
  /\ cmtx[t] = NOBODY
  /\ cmtx' = [cmtx EXCEPT ![t] = t]
  /\ Goto(t, "granted")
  /\ UNCHANGED <<rmtx, BOS, REQB, ACKB, user, g_request, cur, books, queue>>

UnlockCmtx(t) ==
  /\ pc[t] = "granted"
  /\ cmtx' = [cmtx EXCEPT ![t] = NOBODY]
  /\ Goto(t, "ready")
  /\ UNCHANGED <<rmtx, BOS, REQB, ACKB, user, g_request, cur, books, queue>>

UserStep(t) ==
  \/ JoinBOS(t) \/ JoinREQB(t) \/ JoinACKB(t, t)
  \/ LockRmtx(t) \/ WriteRequest(t) \/ WriteQuit(t)
  \/ LockCmtx(t) \/ UnlockRmtx(t)
  \/ CondWait(t) \/ Reacquire(t) \/ UnlockCmtx(t)

-----------------------------------------------------------------------------
(* The master thread.                                                      *)

\* For a resource request the record is freed once it has been copied.
CopyRequest ==
  /\ pc[Master] = "copy"
  /\ cur' = g_request
  /\ \/ /\ g_request.type = QUIT
        /\ Goto(Master, "handle")
        /\ UNCHANGED g_request
     \/ /\ g_request.type # QUIT
        /\ Goto(Master, "ackb")
        /\ g_request' = FREED
  /\ UNCHANGED <<sync, user, books, queue>>

\* A QUIT is booked before it is acknowledged, the others after.
HandleQuit ==
  /\ pc[Master] = "handle"
  /\ cur.type = QUIT
  /\ LET t == cur.thread_id
     IN  /\ AVAILABLE' = AVAILABLE \oplus ALLOC[t]
         /\ ALLOC' = [ALLOC EXCEPT ![t] = Zero]
         /\ NEED' = [NEED EXCEPT ![t] = MAX_NEED[t]]
         /\ active' = active \ {t}
  /\ terminated_threads' = terminated_threads + 1
  /\ Goto(Master, "ackb")
  /\ UNCHANGED <<sync, user, g_request, cur, queue>>

Freed(r)   == [j \in Resources |-> IF r[j] < 0 THEN 0 - r[j] ELSE 0]
Wanted(r)  == [j \in Resources |-> IF r[j] < 0 THEN 0 ELSE r[j]]

\* Mutant: what is given back is not added to the need again.
BookReleases_NoNeed ==
  LET t == cur.thread_id
      f == Freed(cur.request)
  IN  /\ AVAILABLE' = AVAILABLE \oplus f
      /\ ALLOC' = [ALLOC EXCEPT ![t] = @ \ominus f]
      /\ UNCHANGED <<NEED, active, terminated_threads>>

BookReleases ==
  LET t == cur.thread_id
      f == Freed(cur.request)
  IN  /\ AVAILABLE' = AVAILABLE \oplus f
      /\ ALLOC' = [ALLOC EXCEPT ![t] = @ \ominus f]
      /\ NEED' = [NEED EXCEPT ![t] = @ \oplus f]
      /\ UNCHANGED <<active, terminated_threads>>

HandleAdditional ==
  /\ pc[Master] = "handle"
  /\ cur.type = ADDITIONAL
  /\ BookReleases
  /\ Q' = Append(Q, [thread_id |-> cur.thread_id, req |-> Wanted(cur.request)])
  /\ Goto(Master, AfterRequest)
  /\ UNCHANGED <<sync, user, g_request, cur, temp_queue, fulfilled_queue>>

HandleRelease ==
  /\ pc[Master] = "handle"
  /\ cur.type = RELEASE
  /\ BookReleases
  /\ Goto(Master, AfterRequest)
  /\ UNCHANGED <<sync, user, g_request, cur, queue>>

-----------------------------------------------------------------------------
(* process_pending_requests: the loop over Q takes one entry a step.        *)

Lr == Head(Q)

Scanning == pc[Master] = "scan" /\ Q # <<>>

\* Mutant: a granted request is also put back into the queue.
Grant_PutBack ==
  /\ Scanning
  /\ Lr.thread_id \in active
  /\ can_fulfill_req(Lr, ALLOC, NEED, AVAILABLE, active, DLAVOID)
  /\ AVAILABLE' = AVAILABLE \ominus Lr.req
  /\ ALLOC' = [ALLOC EXCEPT ![Lr.thread_id] = @ \oplus Lr.req]
  /\ NEED' = [NEED EXCEPT ![Lr.thread_id] = @ \ominus Lr.req]
  /\ fulfilled_queue' = Append(fulfilled_queue, Lr)
  /\ temp_queue' = Append(temp_queue, Lr)
  /\ Q' = Tail(Q)
  /\ UNCHANGED <<pc, sync, user, g_request, cur, active, terminated_threads>>

Grant ==
  /\ Scanning
  /\ Lr.thread_id \in active
  /\ can_fulfill_req(Lr, ALLOC, NEED, AVAILABLE, active, DLAVOID)
  /\ AVAILABLE' = AVAILABLE \ominus Lr.req
  /\ ALLOC' = [ALLOC EXCEPT ![Lr.thread_id] = @ \oplus Lr.req]
  /\ NEED' = [NEED EXCEPT ![Lr.thread_id] = @ \ominus Lr.req]
  /\ fulfilled_queue' = Append(fulfilled_queue, Lr)
  /\ Q' = Tail(Q)
  /\ UNCHANGED <<pc, sync, user, g_request, cur,
                 active, terminated_threads, temp_queue>>

\* Mutant: the pass ends at the first request that cannot be served.
PassOver_Stops ==
  /\ Scanning
  /\ ~ can_fulfill_req(Lr, ALLOC, NEED, AVAILABLE, active, DLAVOID)
  /\ temp_queue' = temp_queue \o Q
  /\ Q' = <<>>
  /\ UNCHANGED <<pc, sync, user, g_request, cur, books, fulfilled_queue>>

\* A request that cannot be served is kept for the next pass; that of an
\* inactive thread would be dropped.
PassOver ==
  /\ Scanning
  /\ Lr.thread_id \in active =>
       ~ can_fulfill_req(Lr, ALLOC, NEED, AVAILABLE, active, DLAVOID)
  /\ temp_queue' = IF Lr.thread_id \in active THEN Append(temp_queue, Lr)
                   ELSE temp_queue
  /\ Q' = Tail(Q)
  /\ UNCHANGED <<pc, sync, user, g_request, cur, books, fulfilled_queue>>

EndScan ==
  /\ pc[Master] = "scan" /\ Q = <<>>
  /\ Goto(Master, "signal")
  /\ UNCHANGED <<sync, user, g_request, cur, books, queue>>

\* The first fulfilled request's thread is signalled under its own mutex.
SignalLock ==
  /\ pc[Master] = "signal" /\ fulfilled_queue # <<>>
  /\ LET t == Head(fulfilled_queue).thread_id
     IN  /\ cmtx[t] = NOBODY
         /\ cmtx' = [cmtx EXCEPT ![t] = Master]
  /\ Goto(Master, "signalling")
  /\ UNCHANGED <<rmtx, BOS, REQB, ACKB, user, g_request, cur, books, queue>>

\* A signal finds its thread asleep and wakes it, or is lost.
Signal ==
  /\ pc[Master] = "signalling" /\ fulfilled_queue # <<>>
  /\ LET t == Head(fulfilled_queue).thread_id
     IN  /\ pc' = [pc EXCEPT ![Master] = "signal",
                            ![t] = IF @ = "waiting" THEN "woken" ELSE @]
         /\ cmtx' = [cmtx EXCEPT ![t] = NOBODY]
  /\ fulfilled_queue' = Tail(fulfilled_queue)
  /\ UNCHANGED <<rmtx, BOS, REQB, ACKB, user, g_request, cur, books,
                 Q, temp_queue>>

PutBack ==
  /\ pc[Master] = "signal" /\ fulfilled_queue = <<>>
  /\ Q' = temp_queue
  /\ temp_queue' = <<>>
  /\ Goto(Master, "reqb")
  /\ UNCHANGED <<sync, user, g_request, cur, books, fulfilled_queue>>

\* pthread_join of every user, and the end of main.
Join ==
  /\ pc[Master] = "join"
  /\ \A t \in Threads : pc[t] = "done"
  /\ Goto(Master, "done")
  /\ UNCHANGED <<sync, user, g_request, cur, books, queue>>

MasterStep ==
  \/ JoinBOS(Master) \/ JoinREQB(Master)
  \/ \E t \in Threads : JoinACKB(Master, t)
  \/ CopyRequest \/ HandleQuit \/ HandleAdditional \/ HandleRelease
  \/ Grant \/ PassOver \/ EndScan
  \/ SignalLock \/ Signal \/ PutBack \/ Join

\* Every thread has returned: the process is over.
Finished == (\A p \in Procs : pc[p] = "done") /\ UNCHANGED vars

Next ==
  /\ \/ MasterStep
     \/ \E t \in Threads : UserStep(t)
     \/ Finished
  /\ UNCHANGED DLAVOID

\* The operating system keeps running every thread that can run; nothing is
\* assumed about who gets a mutex.
Fairness ==
  /\ WF_vars(MasterStep /\ UNCHANGED DLAVOID)
  /\ \A t \in Threads : WF_vars(UserStep(t) /\ UNCHANGED DLAVOID)

Spec == Init /\ [][Next]_vars /\ Fairness

-----------------------------------------------------------------------------
(* Properties.                                                             *)

TypeOK ==
  /\ pc \in [Procs -> {"bos", "in_bos", "ready", "write", "lock_c", "reqb",
        "in_reqb", "ackb", "in_ackb", "unlock_r", "cond_wait", "waiting",
        "woken", "granted", "done", "copy", "handle", "scan", "signal",
        "signalling", "join"}]
  /\ rmtx \in Procs \cup {NOBODY}
  /\ cmtx \in [Threads -> Procs \cup {NOBODY}]
  /\ BOS \in SUBSET Procs
  /\ REQB \in SUBSET Procs
  /\ ACKB \in [Threads -> SUBSET Procs]
  /\ g_request \in Requests \cup {FREED}
  /\ cur \in Requests \cup {FREED}
  /\ left \in [Threads -> Nat]
  /\ held \in [Threads -> Vectors]
  /\ kind \in [Threads -> {RELEASE, ADDITIONAL, QUIT}]
  /\ AVAILABLE \in Vectors
  /\ ALLOC \in [Threads -> Vectors]
  /\ NEED \in [Threads -> Vectors]
  /\ active \in SUBSET Threads
  /\ terminated_threads \in Int
  /\ Q \in Seq(QueueEntries)
  /\ temp_queue \in Seq(QueueEntries)
  /\ fulfilled_queue \in Seq(QueueEntries)

\* While the master copies the global request, the thread that wrote it is
\* still inside the handshake and holds rmtx: nobody can have overwritten or
\* freed the record (resource.cpp l. 150-162, 342-358, 382-413).
RequestStable ==
  pc[Master] = "copy" =>
    /\ g_request # FREED
    /\ rmtx = g_request.thread_id
    /\ pc[rmtx] \in {"ackb", "in_ackb"}
    /\ g_request.type = kind[rmtx]

\* A signal is never lost: when the master signals, the thread of the granted
\* request is asleep on its condition variable.  The thread takes cmtx before
\* it meets the master at REQB for this reason (l. 403, 418, 510-512; la8.txt
\* l. 104-106).
NoLostSignal ==
  pc[Master] = "signalling" => pc[Head(fulfilled_queue).thread_id] = "waiting"

Entries(q) == {q[i] : i \in 1 .. Len(q)}

HasEntry(q, t) == \E i \in 1 .. Len(q) : q[i].thread_id = t
Distinct(q)    == \A i, k \in 1 .. Len(q) : q[i].thread_id = q[k].thread_id => i = k
InLine(t)      == HasEntry(Q, t) \/ HasEntry(temp_queue, t) \/ HasEntry(fulfilled_queue, t)
Booking(t)     == pc[Master] = "handle" /\ cur.thread_id = t
Sleeping(t)    == /\ kind[t] = ADDITIONAL
                  /\ pc[t] \in {"unlock_r", "cond_wait", "waiting"}

\* A thread sleeps, or is about to, exactly while one single request of its is
\* in the three queues or about to be booked: no request is granted twice or
\* forgotten while the pass moves it from queue to queue, and nobody who is in
\* line can send another request.
OneRequestPerSleeper ==
  /\ \A t \in Threads :
       /\ Sleeping(t) <=> InLine(t) \/ (Booking(t) /\ cur.type = ADDITIONAL)
       /\ Booking(t) => ~ InLine(t)
       /\ ~ (HasEntry(Q, t) /\ HasEntry(temp_queue, t))
       /\ ~ (HasEntry(Q, t) /\ HasEntry(fulfilled_queue, t))
       /\ ~ (HasEntry(temp_queue, t) /\ HasEntry(fulfilled_queue, t))
  /\ Distinct(Q) /\ Distinct(temp_queue) /\ Distinct(fulfilled_queue)

TotalAllocated(j) ==
  LET upto[k \in 0..n] == IF k = 0 THEN 0 ELSE upto[k-1] + ALLOC[k-1][j]
  IN  upto[n]

\* No instance is lost or made up by any mixture of releases, grants and
\* quits (l. 172-176, 213-220, 234-240, 478-482).
Conservation ==
  \A j \in Resources : AVAILABLE[j] + TotalAllocated(j) = TOTAL[j]

\* What a thread holds and what it may still ask for make up its maximum
\* need, at every step of the master.
NeedBalances == \A t \in Threads : NEED[t] \oplus ALLOC[t] = MAX_NEED[t]

\* Nothing is granted that is not there, and nothing is taken back that was
\* not granted.
NoOverdraft ==
  /\ Zero \preceq AVAILABLE
  /\ \A t \in Threads : Zero \preceq ALLOC[t] /\ Zero \preceq NEED[t]

\* The master's three tables agree with each other and with the pool through
\* every release, grant and quit.
BooksBalance == Conservation /\ NeedBalances /\ NoOverdraft

\* A thread that is past its last request really holds what its input file
\* says it holds: it does not run on before its grant is booked, and the only
\* booking that may still be due is that of a non-blocking release
\* (l. 416-426).
GrantedBeforeProceeding ==
  \A t \in Threads :
    /\ pc[t] \in {"ready", "write", "granted"}
    /\ ~ (pc[Master] = "handle" /\ cur.thread_id = t)
    => ALLOC[t] = held[t]

\* With avoidance the system is in a safe state after every step of the
\* master, also between the grants of one pass over the queue.
StaysSafe == DLAVOID => is_safe_state(ALLOC, NEED, AVAILABLE, active)

\* A request that was passed over in this pass, or that is left in the queue
\* when the master goes back to REQB, could not be served now either: later
\* grants of the same pass never make room for an earlier request, so one
\* pass front to back is enough and nobody is overtaken needlessly.
PassedOverOnlyIfUnservable ==
  /\ \A e \in Entries(temp_queue) :
       ~ can_fulfill_req(e, ALLOC, NEED, AVAILABLE, active, DLAVOID)
  /\ pc[Master] \in {"reqb", "in_reqb"} => \A e \in Entries(Q) :
       ~ can_fulfill_req(e, ALLOC, NEED, AVAILABLE, active, DLAVOID)

\* All live threads sleep and no request can reach the master any more,
\* although no order of finishing exists: a deadlock of the threads over the
\* resources, and not of the handshake.
Deadlock ==
  /\ pc[Master] = "in_reqb"
  /\ \A t \in Threads : pc[t] \in {"waiting", "done"}
  /\ ~ is_safe_state(ALLOC, NEED, AVAILABLE, active)

\* The session implements the abstract allocator: a request is asked for when
\* the master books it and granted when the master grants it.
Asked(t) ==
  LET mine == {e \in Entries(Q) \cup Entries(temp_queue) : e.thread_id = t}
  IN  IF mine = {} THEN Zero ELSE (CHOOSE e \in mine : TRUE).req

Abstract == INSTANCE Allocator WITH
  Clients <- Threads, Kinds <- Resources, Limit <- MAX_NEED, Pool <- TOTAL,
  avoid <- DLAVOID, pool <- AVAILABLE, alloc <- ALLOC, live <- active,
  wants <- [t \in Threads |-> Asked(t)]

\* The handshake, the queue and the pass over it implement the abstract
\* allocator, the fairness towards servable requests included.
ImplementsAllocator == Abstract!Service

\* With avoidance the program runs to completion; without it, the only thing
\* that can stop it is a deadlock over the resources (la8.txt l. 134-140).
RunsToCompletion ==
  <>[](pc[Master] = "done" \/ (~ DLAVOID /\ Deadlock))

=============================================================================
