--------------------------- MODULE PageReplacement ---------------------------
(***************************************************************************)
(* The simulation of src/LA10/LRU.c: n processes take turns at binary      *)
(* searches in arrays of their own, all processes stay in memory, and page *)
(* faults are served from a list of free frames that remembers which page  *)
(* each frame held last.  When the list is down to NFFMIN frames, a fault  *)
(* costs the process its least recently used page.                         *)
(*                                                                         *)
(* One access of A[M] is one step.  Left out: the statistics, the printing *)
(* and failures to read the input.                                         *)
(***************************************************************************)
EXTENDS Integers, FiniteSets, SequencesExt

CONSTANTS
  n, m,              \* processes, searches of each (n and m of search.txt)
  s,                 \* the size of each process's array
  Keys,              \* the keys that search.txt may hold for each process
  USER_FRAMES, NFFMIN, ESSENTIAL_PAGES, INTS_PER_PAGE,
  BITS,              \* the width of the history (16 in the code)
  Weight             \* the values of its bits, 1, 2, 4, ... and of the first beyond it

Procs  == 0 .. n - 1
Frames == 0 .. USER_FRAMES - 1
NONE   == -1
Page(M) == ESSENTIAL_PAGES + M \div INTS_PER_PAGE
ArrayPages(p) == {Page(M) : M \in 0 .. s[p] - 1}
Essential == 0 .. ESSENTIAL_PAGES - 1
Pages     == Essential \cup UNION {ArrayPages(p) : p \in Procs}
Newest    == Weight[BITS] - 1          \* 0xFFFF: all bits set, a page just loaded
TopBit    == Weight[BITS - 1]          \* 0x8000
History   == 0 .. Newest

ASSUME SizeAssumption ==
  /\ n \in Nat \ {0} /\ m \in Nat \ {0}
  /\ BITS \in Nat \ {0} /\ Weight \in [0 .. BITS -> Nat]
  /\ Weight[0] = 1 /\ \A b \in 1 .. BITS : Weight[b] = 2 * Weight[b - 1]
  /\ ESSENTIAL_PAGES \in Nat \ {0} /\ INTS_PER_PAGE \in Nat \ {0}
  /\ s \in [Procs -> Nat \ {0}]
  /\ Keys \in [Procs -> SUBSET Nat] /\ \A p \in Procs : Keys[p] # {} /\ Keys[p] \subseteq 0 .. s[p] - 1

\* The essential pages of all processes fit and leave the minimum free: 500
\* processes need 5000 of the 12288 frames, and NFFMIN is 1000.  So the exit
\* for too little memory (LRU.c l. 416) is never taken.
ASSUME MemoryAssumption ==
  NFFMIN \in Nat \ {0} /\ USER_FRAMES \in Nat /\ USER_FRAMES - n * ESSENTIAL_PAGES >= NFFMIN

VARIABLES
  status,              \* what main does: load, turn, search, failed or finished
  freeFrames,          \* the first NFF entries of the list
  pt,                  \* the page tables
  currentSearch, current, finishedProcesses,
  proc,                \* the search that runs: its key k and the range L .. R
  loaded,              \* how many processes readinput has set up
  uses                 \* auxiliary: in which searches a page was used since it was loaded

vars == <<status, freeFrames, pt, currentSearch, current, finishedProcesses, proc, loaded, uses>>

NFF == Len(freeFrames)

Absent == [valid |-> FALSE, ref |-> FALSE, frame |-> 0, history |-> 0]
makeEntry(frame) == [valid |-> TRUE, ref |-> TRUE, frame |-> frame, history |-> Newest]
invalidate(e)    == [e EXCEPT !.valid = FALSE, !.ref = FALSE, !.frame = 0]

isValid(p, page) == pt[p][page].valid

Init ==
  /\ status = "load" /\ loaded = 0
  /\ freeFrames = [i \in 1 .. USER_FRAMES |->
                     [frameNumber |-> i - 1, lastOwner |-> NONE, lastPage |-> NONE]]
  /\ pt = [p \in Procs |-> [page \in Pages |-> Absent]]
  /\ currentSearch = [p \in Procs |-> 0]
  /\ current = 0 /\ finishedProcesses = 0
  /\ proc = [k |-> 0, L |-> 0, R |-> 0]
  /\ uses = [p \in Procs |-> [page \in Pages |-> {}]]

-----------------------------------------------------------------------------
(* Reading the input: each process gets its essential pages.               *)

allocateEssentialPages ==
  /\ status = "load" /\ loaded < n
  /\ pt' = [pt EXCEPT ![loaded] = [page \in Pages |->
              IF page \in Essential THEN makeEntry(freeFrames[page + 1].frameNumber) ELSE @[page]]]
  /\ freeFrames' = SubSeq(freeFrames, ESSENTIAL_PAGES + 1, NFF)
  /\ loaded' = loaded + 1
  /\ status' = IF loaded' = n THEN "turn" ELSE "load"
  /\ UNCHANGED <<currentSearch, current, finishedProcesses, proc, uses>>

-----------------------------------------------------------------------------
(* The round robin of main.                                                *)

Following(p) == (p + 1) % n

\* The turn of the current process.  All processes make m searches in step, so
\* none is skipped: the last turns are the last searches.
Turn ==
  /\ status = "turn" /\ finishedProcesses < n
  /\ IF currentSearch[current] >= m
     THEN current' = Following(current) /\ UNCHANGED <<status, proc>>
     ELSE /\ \E k \in Keys[current] : proc' = [k |-> k, L |-> 0, R |-> s[current] - 1]
          /\ status' = "search"
          /\ UNCHANGED current
  /\ UNCHANGED <<freeFrames, pt, currentSearch, finishedProcesses, loaded, uses>>

-----------------------------------------------------------------------------
(* The body of the loop of binarySearch: an access of A[M].                *)

M     == (proc.L + proc.R) \div 2
vpage == Page(M)

Narrow == proc' = IF proc.k <= M THEN [proc EXCEPT !.R = M] ELSE [proc EXCEPT !.L = M + 1]

Access == status = "search" /\ proc.L < proc.R

ThisSearch == currentSearch[current]

Hit ==
  /\ Access /\ isValid(current, vpage)
  /\ pt' = [pt EXCEPT ![current][vpage].ref = TRUE]
  /\ uses' = [uses EXCEPT ![current][vpage] = @ \cup {ThisSearch}]
  /\ Narrow
  /\ UNCHANGED <<status, freeFrames, currentSearch, current, finishedProcesses, loaded>>

Fault == Access /\ ~isValid(current, vpage)

FreeFramesToSpare == NFF > NFFMIN

\* handlePageFault with frames to spare: allocateFrame takes the first.
AllocateFrame ==
  /\ Fault /\ FreeFramesToSpare
  /\ pt' = [pt EXCEPT ![current][vpage] = makeEntry(freeFrames[1].frameNumber)]
  /\ freeFrames' = RemoveAt(freeFrames, 1)
  /\ uses' = [uses EXCEPT ![current][vpage] = {ThisSearch}]
  /\ Narrow
  /\ UNCHANGED <<status, currentSearch, current, finishedProcesses, loaded>>

\* Mutant: the essential pages take part.
Candidates_FromZero(p) == {page \in Pages : isValid(p, page) /\ pt[p][page].history < Newest}

\* The pages that findVictimPage compares.
Candidates(p) == {page \in Pages \ Essential : isValid(p, page) /\ pt[p][page].history < Newest}

\* The first page of the lowest history below 0xFFFF.
findVictimPage(p) ==
  IF Candidates(p) = {} THEN NONE
  ELSE LET lowest == Min({pt[p][page].history : page \in Candidates(p)})
       IN  Min({page \in Candidates(p) : pt[p][page].history = lowest})

\* The four attempts; the random frame of the fourth is the first of the list.
findSuitableFrame(p, page) ==
  LET same   == SelectLastInSeq(freeFrames, LAMBDA f : f.lastOwner = p /\ f.lastPage = page)
      nobody == SelectLastInSeq(freeFrames, LAMBDA f : f.lastOwner = NONE)
      own    == SelectLastInSeq(freeFrames, LAMBDA f : f.lastOwner = p)
  IN  CASE same # 0                             -> same
        [] same = 0 /\ nobody # 0               -> nobody
        [] same = 0 /\ nobody = 0 /\ own # 0    -> own
        [] OTHER                                -> 1

\* Mutant: the page table keeps the victim.
Replace_VictimStays(victim, i) ==
  /\ pt' = [pt EXCEPT ![current][vpage] = makeEntry(freeFrames[i].frameNumber)]
  /\ freeFrames' = Append(RemoveAt(freeFrames, i),
       [frameNumber |-> pt[current][victim].frame, lastOwner |-> current, lastPage |-> victim])

\* Free frame i takes the page; the victim's frame joins the list.
Replace(victim, i) ==
  /\ pt' = [pt EXCEPT ![current][victim] = invalidate(@),
                      ![current][vpage]  = makeEntry(freeFrames[i].frameNumber)]
  /\ freeFrames' = Append(RemoveAt(freeFrames, i),
       [frameNumber |-> pt[current][victim].frame, lastOwner |-> current, lastPage |-> victim])

ReplacePage ==
  /\ Fault /\ ~FreeFramesToSpare
  /\ findVictimPage(current) # NONE
  /\ Replace(findVictimPage(current), findSuitableFrame(current, vpage))
  /\ uses' = [uses EXCEPT ![current][vpage] = {ThisSearch}]
  /\ Narrow
  /\ UNCHANGED <<status, currentSearch, current, finishedProcesses, loaded>>

\* No victim: the search fails and the program exits.
NoVictim ==
  /\ Fault /\ ~FreeFramesToSpare
  /\ findVictimPage(current) = NONE
  /\ status' = "failed"
  /\ UNCHANGED <<freeFrames, pt, currentSearch, current, finishedProcesses, proc, loaded, uses>>

-----------------------------------------------------------------------------
(* The end of a search, and of a process.                                  *)

Aged(e) ==
  [e EXCEPT !.history = @ \div 2 + IF e.ref THEN TopBit ELSE 0,
            !.ref = FALSE]

updatePageHistory(table) ==
  [page \in Pages |-> IF table[page].valid THEN Aged(table[page]) ELSE table[page]]

\* The pages of a set in the order of their numbers.
InOrder(pages) ==
  [i \in 1 .. Cardinality(pages) |->
     CHOOSE page \in pages : Cardinality({q \in pages : q < page}) = i - 1]

freeProcessFrames(p, table) ==
  LET held == InOrder({page \in Pages : table[page].valid})
  IN  freeFrames \o [i \in 1 .. Len(held) |->
        [frameNumber |-> table[held[i]].frame, lastOwner |-> p, lastPage |-> held[i]]]

EndSearch ==
  /\ status = "search" /\ proc.L >= proc.R
  /\ LET table == updatePageHistory(pt[current])
         last  == currentSearch[current] + 1 >= m
     IN  /\ pt' = [pt EXCEPT ![current] =
                     IF last THEN [page \in Pages |-> IF table[page].valid THEN invalidate(table[page])
                                                      ELSE table[page]]
                     ELSE table]
         /\ freeFrames' = IF last THEN freeProcessFrames(current, table) ELSE freeFrames
         /\ finishedProcesses' = finishedProcesses + IF last THEN 1 ELSE 0
  /\ currentSearch' = [currentSearch EXCEPT ![current] = @ + 1]
  /\ current' = Following(current)
  /\ status' = "turn"
  /\ UNCHANGED <<proc, loaded, uses>>

Finish ==
  /\ status = "turn" /\ finishedProcesses = n
  /\ status' = "finished"
  /\ UNCHANGED <<freeFrames, pt, currentSearch, current, finishedProcesses, proc, loaded, uses>>

Next ==
  \/ allocateEssentialPages
  \/ Turn
  \/ Hit \/ AllocateFrame \/ ReplacePage \/ NoVictim
  \/ EndSearch \/ Finish

Spec == Init /\ [][Next]_vars

-----------------------------------------------------------------------------
(* Properties.                                                             *)

Entries == [valid : BOOLEAN, ref : BOOLEAN, frame : Frames, history : History]
FreeEntries == [frameNumber : Frames, lastOwner : Procs \cup {NONE}, lastPage : Pages \cup {NONE}]

\* What values the variables take.
TypeOK ==
  /\ status \in {"load", "turn", "search", "failed", "finished"}
  /\ freeFrames \in Seq(FreeEntries)
  /\ pt \in [Procs -> [Pages -> Entries]]
  /\ currentSearch \in [Procs -> 0 .. m] /\ current \in Procs
  /\ finishedProcesses \in 0 .. n /\ loaded \in 0 .. n
  /\ proc \in [k : Nat, L : Nat, R : Nat]
  /\ uses \in [Procs -> [Pages -> SUBSET (0 .. m - 1)]]

Listed(f) == {i \in 1 .. NFF : freeFrames[i].frameNumber = f}
Mapped(f) == {pp \in Procs \X Pages : pt[pp[1]][pp[2]].valid /\ pt[pp[1]][pp[2]].frame = f}

\* Every user frame is in exactly one place: once in the list of free frames,
\* or under one valid page of one process, through every allocation,
\* replacement and exit (LRU.c l. 138-179, 324-337).  So the list never
\* outgrows its array and no two pages share a frame; and NFFMIN frames stay
\* free, so that a replacement has one to swap with (l. 296; LA10.pdf p. 1).
FramesConserved ==
  /\ \A f \in Frames : Cardinality(Listed(f)) + Cardinality(Mapped(f)) = 1
  /\ NFF >= NFFMIN

Evicted(p, page) == isValid(p, page) /\ ~isValid(p, page)' /\ status' = "search"

\* How many searches ago a page was last used, before the search that runs; 0
\* when this search loaded it.
Earlier(p, page) == uses[p][page] \cap 0 .. currentSearch[p] - 1
Unused(p, page)  == IF Earlier(p, page) = {} THEN 0 ELSE currentSearch[p] - Max(Earlier(p, page))

\* Over all the searches before the one that runs, the page that is replaced
\* has been unused at least as long as every other array page of its process,
\* as far as the history's bits reach back; it sat out a whole search, and it
\* is no essential page (LRU.c l. 181-196, 276-285).  The code knows only the
\* shifted histories.  A use by the search that runs does not protect a page.
EvictsLeastRecentlyUsed ==
  [][\A p \in Procs, page \in Pages : Evicted(p, page) =>
       /\ page \notin Essential
       /\ Earlier(p, page) # Min(uses[p][page]) .. currentSearch[p] - 1
       /\ \A other \in Pages \ Essential :
            isValid(p, other) => Unused(p, other) <= Unused(p, page) \/ Unused(p, page) > BITS]_vars

\* LA10.pdf p. 2: "A page q with valid bit 1 and with the minimum history will
\* be selected from the page table for replacement": a fault at the minimum
\* always finds its victim, so no search fails.
VictimAlwaysFound == status # "failed"

=============================================================================
