---------------------------- MODULE DemandPaging ----------------------------
(***************************************************************************)
(* The simulation of src/LA9/demandpaging.cpp: processes take turns at     *)
(* binary searches in arrays of their own, whose pages are loaded on       *)
(* demand.  A process that finds no free frame is swapped out with all its *)
(* frames and makes the same search again when another process has ended   *)
(* and let it in.                                                          *)
(*                                                                         *)
(* One access of A[M] is one step.  swapInNextProcess calls itself last,   *)
(* so what a call needs to know is who called the first one.  Left out:    *)
(* the statistics, the printing and failures to read the input.            *)
(***************************************************************************)
EXTENDS Integers, Sequences, FiniteSets

CONSTANTS
  totalProcesses,
  Inputs,             \* what search.txt may hold: for each process the size s of
                      \* its array and the sequence of its keys
  USER_FRAMES, ESSENTIAL_PAGES, INTS_PER_PAGE

Procs  == 0 .. totalProcesses - 1
Frames == 0 .. USER_FRAMES - 1
Essential == 0 .. ESSENTIAL_PAGES - 1
Page(M)   == ESSENTIAL_PAGES + M \div INTS_PER_PAGE

IsProcess(f) ==
  f.s \in Nat \ {0} /\ f.keys # <<>> /\ f.keys \in Seq(0 .. f.s - 1)

ASSUME SizeAssumption ==
  /\ totalProcesses \in Nat \ {0}
  /\ ESSENTIAL_PAGES \in Nat \ {0} /\ INTS_PER_PAGE \in Nat \ {0}
  /\ \A I \in Inputs : /\ DOMAIN I = Procs
                       /\ \A p, q \in Procs : IsProcess(I[p]) /\ Len(I[p].keys) = Len(I[q].keys)

\* The essential pages of all processes fit (500 processes need 5000 of the
\* 12288 frames), and so does one process with all the pages that its searches
\* may touch (2048 at most); no search touches the last element.
ASSUME MemoryAssumption ==
  /\ USER_FRAMES \in Nat /\ USER_FRAMES >= totalProcesses * ESSENTIAL_PAGES
  /\ \A I \in Inputs : \A p \in Procs : USER_FRAMES > Page(I[p].s - 2)

VARIABLES
  status,             \* what main does: turn, search, end or, after reading an
                      \* empty queue, undefined
  freeFrames,         \* the first cntff entries of the array
  pt,                 \* the valid entries of each page table
  input, currentSearch,
  readyQ, swappedQ,
  activeProcesses, completedCount,
  search              \* the search that runs: of whom, its range, and who called

vars == <<status, freeFrames, pt, input, currentSearch, readyQ, swappedQ,
          activeProcesses, completedCount, search>>

cntff == Len(freeFrames)
searchesPerProcess == Len(input[0].keys)

NoPages   == [page \in {} |-> 0]
NoSearch  == [proc |-> 0, L |-> 0, R |-> 0, caller |-> "main"]
Search(p, caller) == [proc |-> p, L |-> 0, R |-> input[p].s - 1, caller |-> caller]

\* Frames are taken from the end of the array.
allocateEssentialPages(table, frames) ==
  LET served == {vp \in Essential : vp < Len(frames)}
  IN  [page \in DOMAIN table \cup served |->
         IF page \in served THEN frames[Len(frames) - page] ELSE table[page]]
Untaken(frames) == SubSeq(frames, 1, Len(frames) - ESSENTIAL_PAGES)

\* All processes are loaded in the order of their numbers.  The page tables
\* come from malloc; nothing was freed before, so they are zero.
Init ==
  /\ status = "turn"
  /\ LET loaded(p) == [i \in 1 .. USER_FRAMES - p * ESSENTIAL_PAGES |-> i - 1]
     IN  /\ freeFrames = loaded(totalProcesses)
         /\ pt = [p \in Procs |-> allocateEssentialPages(NoPages, loaded(p))]
  /\ input \in Inputs
  /\ currentSearch = [p \in Procs |-> 0]
  /\ readyQ = [i \in 1 .. totalProcesses |-> i - 1] /\ swappedQ = <<>>
  /\ activeProcesses = totalProcesses /\ completedCount = 0
  /\ search = NoSearch

-----------------------------------------------------------------------------
(* Releasing and swapping in.                                              *)

\* The frames of these pages, in the order of the pages.
FramesOf(p, pages) ==
  [i \in 1 .. Cardinality(pages) |->
     pt[p][CHOOSE page \in pages : Cardinality({q \in pages : q < page}) = i - 1]]

\* Mutant: only the pages of the array are given back.
freeProcessFrames_ArrayOnly(p) == freeFrames \o FramesOf(p, DOMAIN pt[p] \ Essential)

\* The free frames once p has given back its own.
freeProcessFrames(p) == freeFrames \o FramesOf(p, DOMAIN pt[p])

\* What follows a call that swapped a process in, or did not: only main's call
\* for an empty ready queue looks at the result, and then reads that queue.
ReturnTrue(caller, ready) ==
  /\ status' = IF caller = "empty" /\ ready = <<>> THEN "undefined" ELSE "turn"
  /\ search' = NoSearch
ReturnFalse(caller) ==
  /\ status' = IF caller = "empty" THEN "end" ELSE "turn"
  /\ search' = NoSearch

\* With these frames, page tables and active processes.  The process taken from
\* the queue is lost if its essential pages do not fit.
swapInNextProcess(caller, frames, tables, active) ==
  IF swappedQ = <<>>
  THEN /\ ReturnFalse(caller)
       /\ freeFrames' = frames /\ pt' = tables /\ activeProcesses' = active
       /\ UNCHANGED swappedQ
  ELSE /\ swappedQ' = Tail(swappedQ)
       /\ pt' = [tables EXCEPT ![Head(swappedQ)] = allocateEssentialPages(@, frames)]
       /\ IF Len(frames) < ESSENTIAL_PAGES
          THEN /\ ReturnFalse(caller)
               /\ freeFrames' = <<>> /\ activeProcesses' = active
          ELSE /\ search' = Search(Head(swappedQ), caller) /\ status' = "search"
               /\ freeFrames' = Untaken(frames) /\ activeProcesses' = active + 1

-----------------------------------------------------------------------------
(* The loop of main.  A process in the ready queue has a search to make,   *)
(* for one that has made its last leaves at once; so l. 298-304 are left   *)
(* out.                                                                    *)

AllCompleted ==
  /\ status = "turn" /\ completedCount >= totalProcesses
  /\ status' = "end"
  /\ UNCHANGED <<freeFrames, pt, input, currentSearch, readyQ, swappedQ,
                 activeProcesses, completedCount, search>>

NobodyReady ==
  /\ status = "turn" /\ completedCount < totalProcesses /\ readyQ = <<>>
  /\ swapInNextProcess("empty", freeFrames, pt, activeProcesses)
  /\ UNCHANGED <<input, currentSearch, readyQ, completedCount>>

Dispatch ==
  /\ status = "turn" /\ completedCount < totalProcesses /\ readyQ # <<>>
  /\ search' = Search(Head(readyQ), "main") /\ status' = "search"
  /\ readyQ' = Tail(readyQ)
  /\ UNCHANGED <<freeFrames, pt, input, currentSearch, swappedQ, activeProcesses, completedCount>>

-----------------------------------------------------------------------------
(* simulateBinarySearch and what its callers do with the result.           *)

proc  == search.proc
M     == (search.L + search.R) \div 2
vpage == Page(M)

Narrow == search' = IF input[proc].keys[currentSearch[proc] + 1] <= M
                    THEN [search EXCEPT !.R = M] ELSE [search EXCEPT !.L = M + 1]

Access == status = "search" /\ search.L < search.R

Hit ==
  /\ Access /\ vpage \in DOMAIN pt[proc]
  /\ Narrow
  /\ UNCHANGED <<status, freeFrames, pt, input, currentSearch, readyQ, swappedQ,
                 activeProcesses, completedCount>>

Fault == Access /\ vpage \notin DOMAIN pt[proc]

allocateFrame ==
  /\ Fault /\ cntff > 0
  /\ pt' = [pt EXCEPT ![proc] = [page \in DOMAIN @ \cup {vpage} |->
                                   IF page = vpage THEN freeFrames[cntff] ELSE @[page]]]
  /\ freeFrames' = SubSeq(freeFrames, 1, cntff - 1)
  /\ Narrow
  /\ UNCHANGED <<status, input, currentSearch, readyQ, swappedQ, activeProcesses, completedCount>>

swapOut ==
  /\ Fault /\ cntff = 0
  /\ freeFrames' = freeProcessFrames(proc)
  /\ pt' = [pt EXCEPT ![proc] = NoPages]
  /\ activeProcesses' = activeProcesses - 1
  /\ swappedQ' = Append(swappedQ, proc)
  /\ ReturnTrue(search.caller, readyQ)
  /\ UNCHANGED <<input, currentSearch, readyQ, completedCount>>

Found == status = "search" /\ search.L >= search.R

MoreSearches ==
  /\ Found /\ currentSearch[proc] + 1 < searchesPerProcess
  /\ currentSearch' = [currentSearch EXCEPT ![proc] = @ + 1]
  /\ readyQ' = Append(readyQ, proc)
  /\ ReturnTrue(search.caller, readyQ')
  /\ UNCHANGED <<freeFrames, pt, input, swappedQ, activeProcesses, completedCount>>

LastSearch ==
  /\ Found /\ currentSearch[proc] + 1 >= searchesPerProcess
  /\ currentSearch' = [currentSearch EXCEPT ![proc] = @ + 1]
  /\ UNCHANGED <<input, readyQ>>

\* Mutant: nobody is let in when a process ends that had been swapped in.
Terminate_NoChain ==
  /\ LastSearch
  /\ completedCount' = IF search.caller = "main" THEN completedCount + 1 ELSE completedCount
  /\ LET frames == freeProcessFrames(proc)
         tables == [pt EXCEPT ![proc] = NoPages]
     IN  IF search.caller = "main"
         THEN swapInNextProcess("exit", frames, tables, activeProcesses - 1)
         ELSE /\ ReturnTrue(search.caller, readyQ)
              /\ freeFrames' = frames /\ pt' = tables /\ activeProcesses' = activeProcesses - 1
              /\ UNCHANGED swappedQ

\* terminateProcess, and another process is let in.  main counts the processes
\* that end in its own loop, swapInNextProcess those that end in it not.
Terminate ==
  /\ LastSearch
  /\ completedCount' = IF search.caller = "main" THEN completedCount + 1 ELSE completedCount
  /\ swapInNextProcess(IF search.caller = "main" THEN "exit" ELSE search.caller,
                       freeProcessFrames(proc), [pt EXCEPT ![proc] = NoPages],
                       activeProcesses - 1)

Next == \/ AllCompleted \/ NobodyReady \/ Dispatch
        \/ Hit \/ allocateFrame \/ swapOut \/ MoreSearches \/ Terminate

\* A sequential program that keeps running.
Spec == Init /\ [][Next]_vars /\ WF_vars(Next)

-----------------------------------------------------------------------------
(* Properties.                                                             *)

Running   == IF status = "search" THEN {proc} ELSE {}
Waiting   == {readyQ[i] : i \in DOMAIN readyQ}
Swapped   == {swappedQ[i] : i \in DOMAIN swappedQ}
Completed == {p \in Procs : currentSearch[p] = searchesPerProcess}
Owned     == UNION {{p} \X DOMAIN pt[p] : p \in Procs}

\* Frames are neither lost nor given to two pages, across faults, swapping and
\* exits, and who owns them fits the queues: a process that is ready or runs
\* has its essential pages and is counted as active, one that is swapped out or
\* has ended owns nothing (demandpaging.cpp l. 72-102, 144-188).
FramesConserved ==
  /\ \A f \in Frames :
       Cardinality({i \in DOMAIN freeFrames : freeFrames[i] = f})
         + Cardinality({o \in Owned : pt[o[1]][o[2]] = f}) = 1
  /\ \A p \in Waiting \cup Running : Essential \subseteq DOMAIN pt[p]
  /\ \A p \in Swapped \cup Completed : pt[p] = NoPages
  /\ activeProcesses = Cardinality(Waiting \cup Running)

\* However often processes are swapped out, also right after they were swapped
\* in, the program ends, nobody is left in a queue or forgotten, and every
\* process made all its searches, although main's count of completed processes
\* misses some (demandpaging.cpp l. 175-217, 282-334).
EverySearchIsMade == <>(status = "end" /\ Completed = Procs)

=============================================================================
