---------------------- MODULE PageReplacement_proofs ----------------------
(***************************************************************************)
(* The frames of LA10's simulation are never lost and never shared, and    *)
(* what it replaces is least recently used, for any number of processes,   *)
(* any sizes, any keys and any width of the histories.  Nor are those of   *)
(* LA9's, where processes are swapped out: the last sections are about     *)
(* DemandPaging, with the lemmas on sets and lists of the first.           *)
(***************************************************************************)
EXTENDS PageReplacement, FiniteSetTheorems, SequenceTheorems, WellFoundedInduction, TLAPS

\* The searches are numbered, and what a search reads lies in its array.
SearchInv ==
  /\ status = "load" <=> loaded < n
  /\ status = "load" => \A p \in Procs : currentSearch[p] = 0
  /\ status = "search" =>
       /\ currentSearch[current] < m
       /\ proc.L <= proc.R /\ proc.R < s[current]

\* As many processes have finished as have made all their searches.
CountInv == finishedProcesses = Cardinality({p \in Procs : currentSearch[p] = m})

\* While processes are loaded the list shrinks by as much each time, and those
\* to come have no pages.
LoadInv ==
  status = "load" =>
    /\ NFF = USER_FRAMES - loaded * ESSENTIAL_PAGES
    /\ \A p \in Procs, page \in Pages : p >= loaded => ~ isValid(p, page)

\* Frame f is in the list, at position i, and nowhere else.
OnlyInList(f, i) ==
  /\ \A j \in 1 .. NFF : freeFrames[j].frameNumber = f <=> j = i
  /\ \A p \in Procs, page \in Pages : isValid(p, page) => pt[p][page].frame # f

\* Frame f is under one page of process p, and nowhere else.
OnlyInTable(f, p, page) ==
  /\ \A j \in 1 .. NFF : freeFrames[j].frameNumber # f
  /\ \A q \in Procs, other \in Pages :
       isValid(q, other) /\ pt[q][other].frame = f <=> q = p /\ other = page

\* Each frame is in one place.
PlaceInv ==
  \A f \in Frames : \/ \E i \in 1 .. NFF : OnlyInList(f, i)
                    \/ \E p \in Procs, page \in Pages : OnlyInTable(f, p, page)

\* The inductive invariant.
Inv == TypeOK /\ SearchInv /\ CountInv /\ LoadInv /\ PlaceInv /\ NFF >= NFFMIN

-----------------------------------------------------------------------------
(* Finite sets of numbers.                                                   *)

\* A set of numbers has a least element: the one that Min chooses.
LEMMA LeastNumber ==
  ASSUME NEW S \in SUBSET Nat, S # {}
  PROVE  Min(S) \in S /\ \A x \in S : Min(S) <= x
<1>1. PICK x \in S : \A y \in S : ~ (<<y, x>> \in OpToRel(<, Nat))
  BY NatLessThanWellFounded, WFMin
<1>2. \A y \in S : x <= y
  <2>1. TAKE y \in S
  <2>2. x \in Nat /\ y \in Nat /\ (y < x => <<y, x>> \in OpToRel(<, Nat))
    BY DEF OpToRel
  <2>3. ~ (y < x)
    BY <1>1, <2>2
  <2>4. x \in Nat /\ y \in Nat
    OBVIOUS
  <2>5. QED
    BY <2>3, <2>4
<1>3. QED
  BY <1>2 DEF Min

\* A bounded set of numbers has a greatest element.
LEMMA GreatestNumber ==
  ASSUME NEW k \in Nat, NEW S \in SUBSET (1 .. k), S # {}
  PROVE  Max(S) \in S
<1>. DEFINE T == {k - x : x \in S}
<1>1. T \subseteq Nat /\ T # {}
  <2>1. \A x \in S : k - x \in Nat
    OBVIOUS
  <2>2. QED
    BY <2>1
<1>2. PICK y \in T : \A z \in T : y <= z
  BY <1>1, LeastNumber
<1>3. PICK x \in S : y = k - x
  BY <1>2
<1>4. \A z \in S : x >= z
  <2>1. TAKE z \in S
  <2>2. k - z \in T /\ k - x <= k - z
    BY <1>2, <1>3
  <2>3. QED
    BY <2>2
<1>5. QED
  BY <1>4 DEF Max

\* So has a set of numbers below a bound, zero among them.
LEMMA GreatestOfRange ==
  ASSUME NEW c \in Nat, NEW S \in SUBSET Nat, S \cap 0 .. c - 1 # {}
  PROVE  /\ Max(S \cap 0 .. c - 1) \in S \cap 0 .. c - 1
         /\ \A u \in S \cap 0 .. c - 1 : u <= Max(S \cap 0 .. c - 1)
<1>. DEFINE R == S \cap 0 .. c - 1
            T == {c - x : x \in R}
<1>1. T \in SUBSET Nat /\ T # {}
  <2>1. \A x \in R : c - x \in Nat
    OBVIOUS
  <2>2. QED
    BY <2>1
<1>2. PICK y \in T : \A z \in T : y <= z
  BY <1>1, LeastNumber
<1>3. PICK x \in R : y = c - x
  BY <1>2
<1>4. \A z \in R : x >= z
  <2>1. TAKE z \in R
  <2>2. c - z \in T /\ c - x <= c - z
    BY <1>2, <1>3
  <2>3. QED
    BY <2>2
<1>5. Max(R) \in R /\ \A z \in R : Max(R) >= z
  BY <1>4 DEF Max
<1>6. QED
  BY <1>5

\* Pages are numbers, and there are finitely many.
LEMMA PagesAreFinite ==
  /\ Pages \subseteq Nat /\ IsFiniteSet(Pages)
  /\ Essential \subseteq Pages
  /\ \A p \in Procs : \A a \in 0 .. s[p] - 1 : Page(a) \in Pages
<1>1. \A p \in Procs : s[p] \in Nat \ {0}
  BY SizeAssumption
<1>2. \A a \in Nat : Page(a) \in Nat
  <2>1. ESSENTIAL_PAGES \in Nat /\ INTS_PER_PAGE \in Nat \ {0}
    BY SizeAssumption
  <2>2. QED
    BY <2>1 DEF Page
<1>3. \A p \in Procs : ArrayPages(p) \subseteq Nat /\ IsFiniteSet(ArrayPages(p))
  <2>1. TAKE p \in Procs
  <2>. DEFINE I == 0 .. s[p] - 1
              f == [a \in I |-> Page(a)]
  <2>2. I \subseteq Nat /\ IsFiniteSet(I)
    BY <1>1, FS_Interval
  <2>3. f \in Surjection(I, ArrayPages(p))
    BY DEF Surjection, ArrayPages
  <2>4. IsFiniteSet(ArrayPages(p))
    BY <2>2, <2>3, FS_Surjection
  <2>5. QED
    BY <1>2, <2>2, <2>4 DEF ArrayPages
<1>4. IsFiniteSet({ArrayPages(p) : p \in Procs})
  <2>. DEFINE S == {ArrayPages(p) : p \in Procs}
              f == [p \in Procs |-> ArrayPages(p)]
  <2>1. f \in Surjection(Procs, S)
    BY DEF Surjection
  <2>2. IsFiniteSet(Procs)
    BY SizeAssumption, FS_Interval DEF Procs
  <2>3. QED
    BY <2>1, <2>2, FS_Surjection
<1>5. IsFiniteSet(UNION {ArrayPages(p) : p \in Procs})
  BY <1>3, <1>4, FS_UNION
<1>6. IsFiniteSet(Essential) /\ Essential \subseteq Nat
  BY SizeAssumption, FS_Interval DEF Essential
<1>7. IsFiniteSet(Pages)
  BY <1>5, <1>6, FS_Union DEF Pages
<1>8. \A p \in Procs : ArrayPages(p) \subseteq Pages
  BY DEF Pages
<1>9. \A p \in Procs : \A a \in 0 .. s[p] - 1 : Page(a) \in ArrayPages(p)
  BY DEF ArrayPages
<1>10. Pages \subseteq Nat
  BY <1>3, <1>6 DEF Pages
<1>11. Essential \subseteq Pages
  BY DEF Pages
<1>12. QED
  BY <1>7, <1>8, <1>9, <1>10, <1>11

\* InOrder lists each page once.
LEMMA InOrderIsAList ==
  ASSUME NEW S \in SUBSET Nat, IsFiniteSet(S)
  PROVE  /\ Cardinality(S) \in Nat /\ Len(InOrder(S)) = Cardinality(S)
         /\ \A i \in 1 .. Cardinality(S) : InOrder(S)[i] \in S
         /\ \A i, j \in 1 .. Cardinality(S) : InOrder(S)[i] = InOrder(S)[j] => i = j
         /\ \A x \in S : \E i \in 1 .. Cardinality(S) : InOrder(S)[i] = x
<1>. DEFINE N == Cardinality(S)
            Below(x) == {q \in S : q < x}
            rank == [x \in S |-> Cardinality(Below(x)) + 1]
<1>1. S \subseteq Nat /\ IsFiniteSet(S) /\ N \in Nat
  BY FS_CardinalityType
<1>2. \A x \in S : IsFiniteSet(Below(x)) /\ Cardinality(Below(x)) \in Nat /\ Cardinality(Below(x)) < N
  <2>1. TAKE x \in S
  <2>2. Below(x) \in SUBSET S /\ x \notin Below(x)
    BY <1>1
  <2>3. IsFiniteSet(Below(x)) /\ Cardinality(Below(x)) <= N /\ Cardinality(Below(x)) # N
    BY <1>1, <2>2, FS_Subset
  <2>4. Cardinality(Below(x)) \in Nat
    BY <2>3, FS_CardinalityType
  <2>5. QED
    BY <1>1, <2>3, <2>4
<1>3. ASSUME NEW x \in S, NEW y \in S, x < y
      PROVE  Cardinality(Below(x)) < Cardinality(Below(y))
  <2>1. Below(x) \in SUBSET Below(y) /\ x \in Below(y) /\ x \notin Below(x)
    <3>1. x \in Nat /\ y \in Nat /\ \A q \in S : q \in Nat
      BY <1>1
    <3>2. \A q \in S : q < x => q < y
      BY <1>3, <3>1
    <3>3. ~ (x < x)
      BY <3>1
    <3>4. QED
      BY <1>3, <3>2, <3>3
  <2>2. IsFiniteSet(Below(y))
    BY <1>2
  <2>3. Cardinality(Below(x)) <= Cardinality(Below(y)) /\ Cardinality(Below(x)) # Cardinality(Below(y))
    BY <2>1, <2>2, FS_Subset
  <2>4. QED
    BY <1>2, <2>3
<1>4. rank \in Injection(S, 1 .. N)
  <2>1. \A x \in S : rank[x] \in 1 .. N
    BY <1>1, <1>2
  <2>2. \A x, y \in S : rank[x] = rank[y] => x = y
    <3>1. TAKE x, y \in S
    <3>2. x < y \/ y < x \/ x = y
      BY <1>1
    <3>3. Cardinality(Below(x)) = Cardinality(Below(y)) => x = y
      <4>1. \A a, b \in S : a < b => Cardinality(Below(a)) < Cardinality(Below(b))
        BY <1>3
      <4>2. Cardinality(Below(x)) \in Nat /\ Cardinality(Below(y)) \in Nat
        BY <1>2
      <4>. HIDE DEF Below
      <4>3. QED
        BY <3>2, <4>1, <4>2
    <3>4. QED
      BY <1>2, <3>3
  <2>3. rank \in [S -> 1 .. N]
    BY <2>1
  <2>4. \A f : f \in [S -> 1 .. N] /\ (\A x, y \in S : f[x] = f[y] => x = y) => f \in Injection(S, 1 .. N)
    BY DEF Injection, IsInjective
  <2>5. QED
    BY <2>2, <2>3, <2>4
<1>5. rank \in Surjection(S, 1 .. N)
  <2>1. IsFiniteSet(1 .. N) /\ Cardinality(1 .. N) = N
    BY <1>1, FS_Interval
  <2>2. QED
    BY <1>4, <2>1, FS_Injection
<1>6. ASSUME NEW i \in 1 .. N
      PROVE  InOrder(S)[i] \in S /\ Cardinality(Below(InOrder(S)[i])) = i - 1
  <2>1. PICK x \in S : rank[x] = i
    BY <1>5 DEF Surjection
  <2>2. Cardinality(Below(x)) = i - 1
    BY <1>2, <2>1
  <2>3. InOrder(S)[i] = CHOOSE page \in S : Cardinality(Below(page)) = i - 1
    BY DEF InOrder
  <2>4. QED
    BY <2>2, <2>3
<1>7. Len(InOrder(S)) = N
  BY <1>1 DEF InOrder
<1>8. \A i, j \in 1 .. N : InOrder(S)[i] = InOrder(S)[j] => i = j
  <2>1. TAKE i, j \in 1 .. N
  <2>2. InOrder(S)[i] = InOrder(S)[j] => i - 1 = j - 1
    BY <1>6
  <2>3. QED
    BY <1>1, <2>2
<1>9. \A x \in S : \E i \in 1 .. N : InOrder(S)[i] = x
  <2>1. TAKE x \in S
  <2>2. rank[x] \in 1 .. N
    BY <1>4 DEF Injection
  <2>3. PICK y \in S : y = InOrder(S)[rank[x]] /\ Cardinality(Below(y)) = rank[x] - 1
    BY <1>6, <2>2
  <2>4. rank[y] = rank[x]
    <3>1. rank[y] = Cardinality(Below(y)) + 1
      OBVIOUS
    <3>2. QED
      BY <1>1, <2>2, <2>3, <3>1
  <2>5. x = y
    <3>1. \A f : f \in Injection(S, 1 .. N) => \A a, b \in S : f[a] = f[b] => a = b
      BY DEF Injection, IsInjective
    <3>2. QED
      BY <1>4, <2>4, <3>1
  <2>6. QED
    BY <2>2, <2>3, <2>5
<1>10. QED
  BY <1>1, <1>6, <1>7, <1>8, <1>9

-----------------------------------------------------------------------------
(* Types.                                                                    *)

\* The weights of the bits double, so none is above the highest's.
LEMMA BitWeights ==
  /\ BITS \in Nat /\ BITS >= 1
  /\ \A b \in 0 .. BITS : Weight[b] \in Nat
  /\ \A b \in 0 .. BITS - 1 : Weight[b + 1] = 2 * Weight[b] /\ Weight[b] <= TopBit
  /\ TopBit \in Nat /\ TopBit >= 1 /\ Newest = 2 * TopBit - 1
<1>1. /\ BITS \in Nat /\ BITS >= 1 /\ Weight[0] = 1
      /\ \A b \in 0 .. BITS : Weight[b] \in Nat
      /\ \A b \in 1 .. BITS : Weight[b] = 2 * Weight[b - 1]
  BY SizeAssumption
<1>2. \A b \in 0 .. BITS - 1 : Weight[b + 1] = 2 * Weight[b]
  <2>1. TAKE b \in 0 .. BITS - 1
  <2>2. b + 1 \in 1 .. BITS /\ (b + 1) - 1 = b
    BY <1>1
  <2>3. QED
    BY <1>1, <2>2
<1>. DEFINE Zero == {b \in 0 .. BITS : Weight[b] = 0}
            Above == {d \in 0 .. BITS - 1 : Weight[BITS - 1 - d] > TopBit}
<1>3. Zero = {}
  <2>1. SUFFICES ASSUME Zero # {} PROVE FALSE
    OBVIOUS
  <2>2. PICK b \in Zero : \A a \in Zero : b <= a
    <3>1. Zero \in SUBSET Nat
      OBVIOUS
    <3>2. QED
      BY <2>1, <3>1, LeastNumber
  <2>3. b \in 0 .. BITS /\ Weight[b] = 0 /\ b # 0
    BY <1>1
  <2>4. b - 1 \in 0 .. BITS /\ b \in 1 .. BITS
    BY <1>1, <2>3
  <2>5. Weight[b] = 2 * Weight[b - 1] /\ Weight[b - 1] \in Nat
    BY <1>1, <2>4
  <2>6. b - 1 \in Zero
    BY <2>3, <2>4, <2>5
  <2>7. b <= b - 1
    BY <2>2, <2>6
  <2>8. QED
    BY <2>3, <2>7
<1>4. TopBit \in Nat /\ TopBit >= 1 /\ Newest = 2 * TopBit - 1
  <2>1. BITS - 1 \in 0 .. BITS /\ BITS - 1 \in 0 .. BITS - 1 /\ (BITS - 1) + 1 = BITS
    BY <1>1
  <2>2. TopBit \in Nat /\ TopBit # 0
    BY <1>1, <1>3, <2>1 DEF TopBit
  <2>3. Weight[BITS] = 2 * TopBit
    BY <1>2, <2>1 DEF TopBit
  <2>4. QED
    BY <2>2, <2>3 DEF Newest
<1>5. Above = {}
  <2>1. SUFFICES ASSUME Above # {} PROVE FALSE
    OBVIOUS
  <2>2. PICK d \in Above : \A a \in Above : d <= a
    <3>1. Above \in SUBSET Nat
      BY <1>1
    <3>2. QED
      BY <2>1, <3>1, LeastNumber
  <2>3. d \in 0 .. BITS - 1 /\ Weight[BITS - 1 - d] > TopBit
    OBVIOUS
  <2>4. d # 0
    <3>1. ~ (TopBit > TopBit)
      BY <1>4
    <3>2. d = 0 => Weight[BITS - 1 - d] = TopBit
      BY <1>1 DEF TopBit
    <3>3. QED
      BY <2>3, <3>1, <3>2
  <2>5. /\ d - 1 \in 0 .. BITS - 1 /\ BITS - 1 - d \in 0 .. BITS - 1 /\ BITS - 1 - d \in 0 .. BITS
        /\ (BITS - 1 - d) + 1 = BITS - 1 - (d - 1)
    BY <1>1, <2>3, <2>4
  <2>6. Weight[BITS - 1 - (d - 1)] = 2 * Weight[BITS - 1 - d] /\ Weight[BITS - 1 - d] \in Nat
    BY <1>1, <1>2, <2>5
  <2>7. d - 1 \in Above
    BY <1>4, <2>3, <2>5, <2>6
  <2>8. d <= d - 1
    BY <2>2, <2>7
  <2>9. QED
    BY <2>3, <2>8
<1>6. \A b \in 0 .. BITS - 1 : Weight[b] <= TopBit
  <2>1. TAKE b \in 0 .. BITS - 1
  <2>2. BITS - 1 - b \in 0 .. BITS - 1 /\ BITS - 1 - (BITS - 1 - b) = b /\ b \in 0 .. BITS
    BY <1>1
  <2>3. ~ (Weight[b] > TopBit)
    BY <1>5, <2>2
  <2>4. QED
    BY <1>1, <1>4, <2>2, <2>3
<1>7. QED
  BY <1>1, <1>2, <1>4, <1>6

\* The sizes are numbers, and so is the length of the list.
LEMMA Sizes ==
  /\ n \in Nat /\ n >= 1 /\ m \in Nat /\ m >= 1 /\ Newest \in Nat /\ Newest >= 1
  /\ ESSENTIAL_PAGES \in Nat /\ ESSENTIAL_PAGES >= 1 /\ USER_FRAMES \in Nat
  /\ NFFMIN \in Nat /\ NFFMIN >= 1
  /\ \A p \in Procs : s[p] \in Nat /\ s[p] >= 1
<1>1. Newest \in Nat /\ Newest >= 1
  BY BitWeights
<1>2. /\ n \in Nat \ {0} /\ m \in Nat \ {0} /\ ESSENTIAL_PAGES \in Nat \ {0}
      /\ \A p \in Procs : s[p] \in Nat \ {0}
  BY SizeAssumption
<1>3. QED
  BY <1>1, <1>2, MemoryAssumption

\* What TypeOK says of the list of free frames and of the page tables.
LEMMA ListTypes ==
  ASSUME TypeOK
  PROVE  /\ NFF \in Nat /\ DOMAIN freeFrames = 1 .. NFF
         /\ \A i \in 1 .. NFF : freeFrames[i] \in FreeEntries /\ freeFrames[i].frameNumber \in Frames
         /\ \A p \in Procs, page \in Pages :
              /\ pt[p][page] \in Entries /\ pt[p][page].frame \in Frames
              /\ pt[p][page].history \in Nat /\ pt[p][page].valid \in BOOLEAN
<1>1. freeFrames \in Seq(FreeEntries)
  BY DEF TypeOK
<1>2. NFF \in Nat /\ DOMAIN freeFrames = 1 .. NFF /\ \A i \in 1 .. NFF : freeFrames[i] \in FreeEntries
  BY <1>1 DEF NFF
<1>3. \A e \in FreeEntries : e.frameNumber \in Frames
  BY DEF FreeEntries
<1>4. \A p \in Procs, page \in Pages : pt[p][page] \in Entries
  BY DEF TypeOK
<1>5. \A e \in Entries : e.frame \in Frames /\ e.history \in Nat /\ e.valid \in BOOLEAN
  BY Sizes DEF Entries, History
<1>6. QED
  BY <1>2, <1>3, <1>4, <1>5

\* Entries that are made, invalidated and aged are entries.
LEMMA EntryOperations ==
  /\ Absent \in Entries \/ Frames = {}
  /\ \A f \in Frames : makeEntry(f) \in Entries /\ makeEntry(f).valid /\ makeEntry(f).frame = f
  /\ \A e \in Entries : /\ invalidate(e) \in Entries /\ ~ invalidate(e).valid
                        /\ Aged(e) \in Entries /\ Aged(e).valid = e.valid /\ Aged(e).frame = e.frame
<1>1. \A f \in Frames : 0 \in Frames
  BY Sizes DEF Frames
<1>2. Absent \in Entries \/ Frames = {}
  BY <1>1, Sizes DEF Absent, Entries, History
<1>3. \A f \in Frames : makeEntry(f) \in Entries /\ makeEntry(f).valid /\ makeEntry(f).frame = f
  BY Sizes DEF makeEntry, Entries, History
<1>4. ASSUME NEW e \in Entries
      PROVE  /\ invalidate(e) \in Entries /\ ~ invalidate(e).valid
             /\ Aged(e) \in Entries /\ Aged(e).valid = e.valid /\ Aged(e).frame = e.frame
  <2>1. e.history \in 0 .. Newest /\ e.frame \in Frames /\ e.ref \in BOOLEAN /\ e.valid \in BOOLEAN
    BY DEF Entries, History
  <2>2. invalidate(e) \in Entries /\ ~ invalidate(e).valid
    BY <1>1, <2>1 DEF invalidate, Entries
  <2>3. e.history \div 2 + TopBit \in 0 .. Newest /\ e.history \div 2 + 0 \in 0 .. Newest
    <3>1. TopBit \in Nat /\ Newest = 2 * TopBit - 1 /\ e.history \in Nat /\ e.history <= 2 * TopBit - 1
      BY <2>1, BitWeights
    <3>2. QED
      BY <3>1
  <2>4. e.history \div 2 + (IF e.ref THEN TopBit ELSE 0) \in 0 .. Newest
    BY <2>3
  <2>5. Aged(e) \in Entries /\ Aged(e).valid = e.valid /\ Aged(e).frame = e.frame
    BY <2>4 DEF Aged, Entries, History
  <2>6. QED
    BY <2>2, <2>5
<1>5. QED
  BY <1>2, <1>3, <1>4

\* Narrowing changes one end of the range.
LEMMA NarrowedRange ==
  ASSUME NEW q \in [k : Nat, L : Nat, R : Nat], NEW a \in Nat
  PROVE  /\ [q EXCEPT !.L = a] \in [k : Nat, L : Nat, R : Nat]
         /\ [q EXCEPT !.L = a].L = a /\ [q EXCEPT !.L = a].R = q.R
         /\ [q EXCEPT !.R = a] \in [k : Nat, L : Nat, R : Nat]
         /\ [q EXCEPT !.R = a].L = q.L /\ [q EXCEPT !.R = a].R = a
<1>1. /\ [q EXCEPT !.L = a] = [k |-> q.k, L |-> a, R |-> q.R]
      /\ [q EXCEPT !.R = a] = [k |-> q.k, L |-> q.L, R |-> a]
  OBVIOUS
<1>2. q.k \in Nat /\ q.L \in Nat /\ q.R \in Nat
  OBVIOUS
<1>3. QED
  BY <1>1, <1>2

\* The page that is read is one of the process's, and the range narrows.
LEMMA Reading ==
  ASSUME TypeOK, SearchInv, Access
  PROVE  /\ vpage \in Pages /\ ThisSearch \in 0 .. m - 1
         /\ Narrow => /\ proc' \in [k : Nat, L : Nat, R : Nat]
                      /\ proc'.L <= proc'.R /\ proc'.R < s[current]
<1>1. current \in Procs /\ proc \in [k : Nat, L : Nat, R : Nat]
  BY DEF TypeOK
<1>2. proc.L \in Nat /\ proc.R \in Nat /\ proc.L < proc.R /\ proc.R < s[current] /\ s[current] \in Nat
  BY <1>1, Sizes DEF SearchInv, Access
<1>3. M \in Nat /\ proc.L <= M /\ M < proc.R
  BY <1>2 DEF M
<1>4. vpage \in Pages
  <2>1. M \in 0 .. s[current] - 1
    BY <1>2, <1>3
  <2>2. QED
    BY <1>1, <2>1, PagesAreFinite DEF vpage
<1>5. ThisSearch \in 0 .. m - 1
  <2>1. currentSearch[current] \in 0 .. m /\ currentSearch[current] < m
    BY <1>1 DEF TypeOK, SearchInv, Access
  <2>2. QED
    BY <2>1, Sizes DEF ThisSearch
<1>6. ASSUME Narrow
      PROVE  /\ proc' \in [k : Nat, L : Nat, R : Nat]
             /\ proc'.L <= proc'.R /\ proc'.R < s[current]
  <2>1. \/ proc' = [proc EXCEPT !.R = M]
        \/ proc' = [proc EXCEPT !.L = M + 1]
    BY <1>6 DEF Narrow
  <2>2. CASE proc' = [proc EXCEPT !.R = M]
    <3>1. PICK a \in Nat : a = M
      BY <1>3
    <3>2. proc' \in [k : Nat, L : Nat, R : Nat] /\ proc'.L = proc.L /\ proc'.R = a
      <4>1. proc' = [proc EXCEPT !.R = a]
        BY <2>2, <3>1, Zenon
      <4>2. QED
        BY <1>1, <4>1, NarrowedRange
    <3>3. QED
      BY <1>2, <1>3, <3>1, <3>2
  <2>3. CASE proc' = [proc EXCEPT !.L = M + 1]
    <3>1. PICK a \in Nat : a = M + 1
      BY <1>3
    <3>2. proc' \in [k : Nat, L : Nat, R : Nat] /\ proc'.L = a /\ proc'.R = proc.R
      <4>1. proc' = [proc EXCEPT !.L = a]
        BY <2>3, <3>1, Zenon
      <4>2. QED
        BY <1>1, <4>1, NarrowedRange
    <3>3. QED
      BY <1>2, <1>3, <3>1, <3>2
  <2>4. QED
    BY <2>1, <2>2, <2>3
<1>7. QED
  BY <1>4, <1>5, <1>6

\* A victim is a valid page of the process.
LEMMA VictimIsValid ==
  ASSUME TypeOK, NEW p \in Procs, findVictimPage(p) # NONE
  PROVE  findVictimPage(p) \in Pages /\ isValid(p, findVictimPage(p))
<1>. DEFINE H == {pt[p][page].history : page \in Candidates(p)}
            lowest == Min(H)
            Low == {page \in Candidates(p) : pt[p][page].history = lowest}
<1>1. Candidates(p) # {} /\ findVictimPage(p) = Min(Low)
  BY DEF findVictimPage, NONE
<1>2. Candidates(p) \subseteq Pages
  BY DEF Candidates
<1>3. H \in SUBSET Nat /\ H # {}
  BY <1>1, <1>2, ListTypes
<1>4. lowest \in H
  BY <1>3, LeastNumber
<1>5. Low \in SUBSET Nat /\ Low # {}
  BY <1>2, <1>4, PagesAreFinite
<1>6. Min(Low) \in Low
  BY <1>5, LeastNumber
<1>7. QED
  BY <1>1, <1>2, <1>6 DEF Candidates

\* The frame that is taken for it is in the list, whichever attempt finds it.
LEMMA SuitableFrameIsListed ==
  ASSUME TypeOK, NFF >= 1, NEW p, NEW page
  PROVE  findSuitableFrame(p, page) \in 1 .. NFF
<1>1. NFF \in Nat
  BY ListTypes
<1>2. ASSUME NEW I \in SUBSET (1 .. NFF)
      PROVE  (IF I # {} THEN Max(I) ELSE 0) \in 0 .. NFF
  <2>1. CASE I = {}
    BY <1>1, <2>1
  <2>2. CASE I # {}
    <3>1. PICK x \in I : x = Max(I)
      BY <1>1, <2>2, GreatestNumber
    <3>2. x \in 0 .. NFF
      BY <1>1
    <3>3. QED
      BY <2>2, <3>1, <3>2
  <2>3. QED
    BY <2>1, <2>2
<1>. DEFINE same   == SelectLastInSeq(freeFrames, LAMBDA f : f.lastOwner = p /\ f.lastPage = page)
            nobody == SelectLastInSeq(freeFrames, LAMBDA f : f.lastOwner = NONE)
            own    == SelectLastInSeq(freeFrames, LAMBDA f : f.lastOwner = p)
<1>3. same \in 0 .. NFF
  <2>. DEFINE I == {i \in 1 .. NFF : freeFrames[i].lastOwner = p /\ freeFrames[i].lastPage = page}
  <2>1. same = IF I # {} THEN Max(I) ELSE 0
    BY DEF SelectLastInSeq, NFF
  <2>2. I \in SUBSET (1 .. NFF)
    OBVIOUS
  <2>. HIDE DEF I, same
  <2>3. QED
    BY <1>2, <2>1, <2>2
<1>4. nobody \in 0 .. NFF
  <2>. DEFINE I == {i \in 1 .. NFF : freeFrames[i].lastOwner = NONE}
  <2>1. nobody = IF I # {} THEN Max(I) ELSE 0
    BY DEF SelectLastInSeq, NFF
  <2>2. I \in SUBSET (1 .. NFF)
    OBVIOUS
  <2>. HIDE DEF I, nobody
  <2>3. QED
    BY <1>2, <2>1, <2>2
<1>5. own \in 0 .. NFF
  <2>. DEFINE I == {i \in 1 .. NFF : freeFrames[i].lastOwner = p}
  <2>1. own = IF I # {} THEN Max(I) ELSE 0
    BY DEF SelectLastInSeq, NFF
  <2>2. I \in SUBSET (1 .. NFF)
    OBVIOUS
  <2>. HIDE DEF I, own
  <2>3. QED
    BY <1>2, <2>1, <2>2
<1>6. findSuitableFrame(p, page) = CASE same # 0                             -> same
                                     [] same = 0 /\ nobody # 0               -> nobody
                                     [] same = 0 /\ nobody = 0 /\ own # 0    -> own
                                     [] OTHER                                -> 1
  BY DEF findSuitableFrame
<1>. HIDE DEF same, nobody, own
<1>7. QED
  BY <1>1, <1>3, <1>4, <1>5, <1>6

\* What is left of the list when the frame at position i is taken.
LEMMA Removal ==
  ASSUME NEW S, NEW list \in Seq(S), NEW i \in 1 .. Len(list)
  PROVE  /\ RemoveAt(list, i) \in Seq(S) /\ Len(RemoveAt(list, i)) = Len(list) - 1
         /\ \A j \in 1 .. Len(list) - 1 : RemoveAt(list, i)[j] = IF j < i THEN list[j] ELSE list[j + 1]
<1>. DEFINE a == SubSeq(list, 1, i - 1)
            b == SubSeq(list, i + 1, Len(list))
<1>1. Len(list) \in Nat
  OBVIOUS
<1>2. a \in Seq(S) /\ Len(a) = i - 1 /\ \A j \in 1 .. i - 1 : a[j] = list[j]
  BY <1>1, SubSeqProperties
<1>3. b \in Seq(S) /\ Len(b) = Len(list) - i /\ \A j \in 1 .. Len(list) - i : b[j] = list[i + j]
  BY <1>1, SubSeqProperties
<1>4. RemoveAt(list, i) = a \o b
  BY DEF RemoveAt
<1>. HIDE DEF a, b
<1>5. a \o b \in Seq(S) /\ Len(a \o b) = Len(list) - 1
  <2>1. a \o b \in Seq(S) /\ Len(a \o b) = Len(a) + Len(b)
    BY <1>2, <1>3, ConcatProperties
  <2>2. QED
    BY <1>1, <1>2, <1>3, <2>1
<1>6. ASSUME NEW j \in 1 .. Len(list) - 1
      PROVE  (a \o b)[j] = IF j < i THEN list[j] ELSE list[j + 1]
  <2>1. (a \o b)[j] = IF j <= Len(a) THEN a[j] ELSE b[j - Len(a)]
    BY <1>1, <1>2, <1>3
  <2>2. CASE j < i
    BY <1>1, <1>2, <2>1, <2>2
  <2>3. CASE ~ (j < i)
    <3>1. j - (i - 1) \in 1 .. Len(list) - i /\ i + (j - (i - 1)) = j + 1
      BY <1>1, <2>3
    <3>2. b[j - (i - 1)] = list[j + 1]
      BY <1>3, <3>1
    <3>3. QED
      BY <1>1, <1>2, <2>1, <2>3, <3>2
  <2>4. QED
    BY <2>2, <2>3
<1>7. QED
  BY <1>4, <1>5, <1>6

-----------------------------------------------------------------------------
(* The initial state.                                                        *)

\* Before any process is loaded every frame is in the list, once.
LEMMA InitInv == Init => Inv
<1>. SUFFICES ASSUME Init PROVE Inv
  OBVIOUS
<1>0. n * ESSENTIAL_PAGES \in Nat /\ USER_FRAMES >= NFFMIN
  BY Sizes, MemoryAssumption
<1>1. NFF = USER_FRAMES /\ DOMAIN freeFrames = 1 .. NFF
  BY Sizes DEF Init, NFF
<1>2. \A i \in 1 .. NFF : freeFrames[i].frameNumber = i - 1
  BY <1>1 DEF Init
<1>3. \A p \in Procs, page \in Pages : pt[p][page] = Absent /\ ~ isValid(p, page)
  BY DEF Init, isValid, Absent
<1>4. TypeOK
  <2>1. 0 \in Frames /\ 0 \in Procs
    BY <1>0, Sizes DEF Frames, Procs
  <2>2. \A i \in 1 .. USER_FRAMES :
          [frameNumber |-> i - 1, lastOwner |-> NONE, lastPage |-> NONE] \in FreeEntries
    BY Sizes DEF FreeEntries, Frames
  <2>3. freeFrames \in Seq(FreeEntries)
    BY <2>2, Sizes DEF Init
  <2>4. Absent \in Entries
    BY <2>1, EntryOperations
  <2>5. pt \in [Procs -> [Pages -> Entries]]
    BY <2>4 DEF Init
  <2>6. uses \in [Procs -> [Pages -> SUBSET (0 .. m - 1)]]
    BY DEF Init
  <2>7. currentSearch \in [Procs -> 0 .. m] /\ finishedProcesses \in 0 .. n /\ loaded \in 0 .. n
    BY Sizes DEF Init
  <2>8. proc \in [k : Nat, L : Nat, R : Nat]
    BY DEF Init
  <2>9. status = "load" /\ current \in Procs
    BY <2>1 DEF Init
  <2>10. QED
    BY <2>3, <2>5, <2>6, <2>7, <2>8, <2>9 DEF TypeOK
<1>5. SearchInv
  BY Sizes DEF Init, SearchInv
<1>6. CountInv
  <2>1. \A p \in Procs : currentSearch[p] # m
    BY Sizes DEF Init
  <2>2. {p \in Procs : currentSearch[p] = m} = {}
    BY <2>1
  <2>3. finishedProcesses = 0
    BY DEF Init
  <2>4. QED
    BY <2>2, <2>3, FS_EmptySet DEF CountInv
<1>7. LoadInv
  BY <1>1, <1>3, Sizes DEF Init, LoadInv
<1>8. PlaceInv
  <2>1. SUFFICES ASSUME NEW f \in Frames
                 PROVE  \E i \in 1 .. NFF : OnlyInList(f, i)
    BY DEF PlaceInv
  <2>2. f + 1 \in 1 .. NFF
    BY <1>1, Sizes DEF Frames
  <2>3. OnlyInList(f, f + 1)
    BY <1>1, <1>2, <1>3, <2>2, Sizes DEF OnlyInList, Frames
  <2>4. QED
    BY <2>2, <2>3
<1>9. QED
  BY <1>0, <1>1, <1>4, <1>5, <1>6, <1>7, <1>8 DEF Inv

-----------------------------------------------------------------------------
(* The steps.                                                                *)

\* A step that leaves the list as it is, every valid bit and every frame of the
\* page tables, leaves every frame in its place.
LEMMA NothingMoves ==
  ASSUME PlaceInv, freeFrames' = freeFrames,
         \A p \in Procs, page \in Pages :
           isValid(p, page)' = isValid(p, page) /\ pt'[p][page].frame = pt[p][page].frame
  PROVE  PlaceInv'
<1>1. NFF' = NFF
  BY DEF NFF
<1>2. ASSUME NEW f \in Frames
      PROVE  \/ \E i \in 1 .. NFF' : OnlyInList(f, i)'
             \/ \E p \in Procs, page \in Pages : OnlyInTable(f, p, page)'
  <2>1. \A i \in 1 .. NFF : OnlyInList(f, i) => OnlyInList(f, i)'
    BY <1>1 DEF OnlyInList
  <2>2. \A p \in Procs, page \in Pages : OnlyInTable(f, p, page) => OnlyInTable(f, p, page)'
    BY <1>1 DEF OnlyInTable
  <2>3. QED
    BY <1>1, <2>1, <2>2 DEF PlaceInv
<1>3. QED
  BY <1>2 DEF PlaceInv

\* The turn passes, or a search begins.
LEMMA TurnKeepsInv == Inv /\ Turn => Inv'
<1>. SUFFICES ASSUME Inv, Turn PROVE Inv'
  OBVIOUS
<1>. USE Sizes
<1>1. TypeOK /\ SearchInv /\ CountInv /\ LoadInv /\ PlaceInv /\ NFF >= NFFMIN
  BY DEF Inv
<1>2. UNCHANGED <<freeFrames, pt, currentSearch, finishedProcesses, loaded, uses>> /\ NFF' = NFF
  BY DEF Turn, NFF
<1>3. status = "turn" /\ loaded >= n
  BY <1>1 DEF Turn, TypeOK, SearchInv
<1>4. ASSUME currentSearch[current] >= m
      PROVE  TypeOK' /\ SearchInv' /\ LoadInv'
  <2>1. current' = Following(current) /\ UNCHANGED <<status, proc>>
    BY <1>4 DEF Turn
  <2>2. current' \in Procs
    BY <1>1, <2>1 DEF TypeOK, Following, Procs
  <2>3. TypeOK'
    BY <1>1, <1>2, <2>1, <2>2 DEF TypeOK
  <2>4. SearchInv' /\ LoadInv'
    BY <1>1, <1>2, <1>3, <2>1 DEF SearchInv, LoadInv, TypeOK
  <2>5. QED
    BY <2>3, <2>4
<1>5. ASSUME ~ (currentSearch[current] >= m)
      PROVE  TypeOK' /\ SearchInv' /\ LoadInv'
  <2>1. status' = "search" /\ current' = current
    BY <1>5 DEF Turn
  <2>2. PICK k \in Keys[current] : proc' = [k |-> k, L |-> 0, R |-> s[current] - 1]
    BY <1>5 DEF Turn
  <2>3. current \in Procs /\ currentSearch[current] \in 0 .. m
    BY <1>1 DEF TypeOK
  <2>4. k \in Nat /\ s[current] \in Nat /\ s[current] >= 1
    BY <2>3, SizeAssumption
  <2>5. proc' \in [k : Nat, L : Nat, R : Nat] /\ proc'.L = 0 /\ proc'.R = s[current] - 1
    BY <2>2, <2>4
  <2>6. TypeOK'
    BY <1>1, <1>2, <2>1, <2>5 DEF TypeOK
  <2>7. SearchInv' /\ LoadInv'
    BY <1>1, <1>2, <1>3, <1>5, <2>1, <2>3, <2>4, <2>5 DEF SearchInv, LoadInv, TypeOK
  <2>8. QED
    BY <2>6, <2>7
<1>6. CountInv' /\ (NFF >= NFFMIN)'
  BY <1>1, <1>2 DEF CountInv
<1>7. PlaceInv'
  BY <1>1, <1>2, NothingMoves DEF isValid
<1>8. QED
  BY <1>4, <1>5, <1>6, <1>7 DEF Inv

\* What every access of the array leaves as it was.
LEMMA AccessKeepsRest ==
  ASSUME Inv, Access, Narrow,
         UNCHANGED <<status, currentSearch, current, finishedProcesses, loaded>>
  PROVE  /\ SearchInv' /\ CountInv' /\ LoadInv'
         /\ proc' \in [k : Nat, L : Nat, R : Nat]
<1>1. TypeOK /\ SearchInv /\ CountInv
  BY DEF Inv
<1>2. status = "search" /\ status' = "search"
  BY DEF Access
<1>3. /\ proc' \in [k : Nat, L : Nat, R : Nat]
      /\ proc'.L <= proc'.R /\ proc'.R < s[current]
  BY <1>1, Reading
<1>4. SearchInv'
  BY <1>1, <1>2, <1>3 DEF SearchInv
<1>5. CountInv' /\ LoadInv'
  BY <1>1, <1>2 DEF CountInv, LoadInv
<1>6. QED
  BY <1>3, <1>4, <1>5

\* A page that is present is used where it is.
LEMMA HitKeepsInv == Inv /\ Hit => Inv'
<1>. SUFFICES ASSUME Inv, Hit PROVE Inv'
  OBVIOUS
<1>1. TypeOK /\ SearchInv /\ PlaceInv /\ NFF >= NFFMIN
  BY DEF Inv
<1>2. /\ Access /\ Narrow
      /\ UNCHANGED <<status, freeFrames, currentSearch, current, finishedProcesses, loaded>>
  BY DEF Hit
<1>3. NFF' = NFF
  BY <1>2 DEF NFF
<1>4. SearchInv' /\ CountInv' /\ LoadInv' /\ proc' \in [k : Nat, L : Nat, R : Nat]
  BY <1>2, AccessKeepsRest
<1>5. vpage \in Pages /\ current \in Procs /\ ThisSearch \in 0 .. m - 1
  BY <1>1, <1>2, Reading DEF TypeOK
<1>6. pt' = [pt EXCEPT ![current][vpage].ref = TRUE]
  BY DEF Hit
<1>7. pt \in [Procs -> [Pages -> Entries]]
  BY <1>1 DEF TypeOK
<1>8. pt' \in [Procs -> [Pages -> Entries]]
  <2>1. \A e \in Entries : [e EXCEPT !.ref = TRUE] \in Entries
    BY DEF Entries
  <2>2. QED
    BY <1>5, <1>6, <1>7, <2>1
<1>9. \A p \in Procs, page \in Pages :
        isValid(p, page)' = isValid(p, page) /\ pt'[p][page].frame = pt[p][page].frame
  <2>1. TAKE p \in Procs, page \in Pages
  <2>2. pt[p][page] \in Entries
    BY <1>7
  <2>3. pt'[p][page] = pt[p][page] \/ pt'[p][page] = [pt[p][page] EXCEPT !.ref = TRUE]
    BY <1>5, <1>6, <1>7
  <2>4. QED
    BY <2>2, <2>3 DEF Entries, isValid
<1>10. uses' \in [Procs -> [Pages -> SUBSET (0 .. m - 1)]]
  <2>1. uses' = [uses EXCEPT ![current][vpage] = @ \cup {ThisSearch}]
    BY DEF Hit
  <2>2. uses \in [Procs -> [Pages -> SUBSET (0 .. m - 1)]]
    BY <1>1 DEF TypeOK
  <2>3. QED
    BY <1>5, <2>1, <2>2
<1>11. TypeOK'
  BY <1>1, <1>2, <1>4, <1>8, <1>10 DEF TypeOK
<1>12. PlaceInv'
  BY <1>1, <1>2, <1>9, NothingMoves
<1>13. QED
  BY <1>1, <1>3, <1>4, <1>11, <1>12 DEF Inv

\* A page fault with frames to spare moves the first frame of the list.
LEMMA AllocateKeepsInv == Inv /\ AllocateFrame => Inv'
<1>. SUFFICES ASSUME Inv, AllocateFrame PROVE Inv'
  OBVIOUS
<1>. USE Sizes
<1>1. TypeOK /\ SearchInv /\ PlaceInv /\ NFF >= NFFMIN
  BY DEF Inv
<1>2. /\ Access /\ Narrow /\ ~ isValid(current, vpage)
      /\ UNCHANGED <<status, currentSearch, current, finishedProcesses, loaded>>
  BY DEF AllocateFrame, Fault
<1>3. SearchInv' /\ CountInv' /\ LoadInv' /\ proc' \in [k : Nat, L : Nat, R : Nat]
  BY <1>2, AccessKeepsRest
<1>4. PICK c \in Procs, v \in Pages : c = current /\ v = vpage
  BY <1>1, <1>2, Reading DEF TypeOK
<1>5. PICK N \in Nat : N = NFF /\ N > NFFMIN
  BY <1>1, ListTypes DEF AllocateFrame, FreeFramesToSpare
<1>6. freeFrames \in Seq(FreeEntries) /\ 1 \in 1 .. Len(freeFrames) /\ N = Len(freeFrames)
  BY <1>1, <1>5 DEF TypeOK, NFF
<1>7. freeFrames' = RemoveAt(freeFrames, 1)
  BY DEF AllocateFrame
<1>8. /\ freeFrames' \in Seq(FreeEntries) /\ NFF' = N - 1
      /\ \A j \in 1 .. N - 1 : freeFrames'[j] = freeFrames[j + 1]
  <2>1. /\ RemoveAt(freeFrames, 1) \in Seq(FreeEntries)
        /\ Len(RemoveAt(freeFrames, 1)) = Len(freeFrames) - 1
        /\ \A j \in 1 .. Len(freeFrames) - 1 :
             RemoveAt(freeFrames, 1)[j] = IF j < 1 THEN freeFrames[j] ELSE freeFrames[j + 1]
    BY <1>6, Removal
  <2>2. NFF' = N - 1
    BY <1>6, <1>7, <2>1 DEF NFF
  <2>3. \A j \in 1 .. N - 1 : freeFrames'[j] = freeFrames[j + 1]
    BY <1>5, <1>6, <1>7, <2>1, <2>2
  <2>4. QED
    BY <1>7, <2>1, <2>2, <2>3
<1>9. PICK taken \in Frames : taken = freeFrames[1].frameNumber
  BY <1>1, <1>5, ListTypes
<1>10. pt \in [Procs -> [Pages -> Entries]]
  BY <1>1 DEF TypeOK
<1>11. makeEntry(taken) \in Entries /\ makeEntry(taken).valid /\ makeEntry(taken).frame = taken
  BY EntryOperations
<1>12. pt' = [pt EXCEPT ![current][vpage] = makeEntry(taken)]
  BY <1>9 DEF AllocateFrame
<1>13. pt' \in [Procs -> [Pages -> Entries]]
  BY <1>4, <1>10, <1>11, <1>12
<1>14. /\ isValid(c, v)' /\ pt'[c][v].frame = taken
       /\ \A p \in Procs, page \in Pages : (p = c /\ page = v) \/ pt'[p][page] = pt[p][page]
  BY <1>4, <1>10, <1>11, <1>12 DEF isValid
<1>15. uses' \in [Procs -> [Pages -> SUBSET (0 .. m - 1)]]
  <2>1. uses' = [uses EXCEPT ![current][vpage] = {ThisSearch}]
    BY DEF AllocateFrame
  <2>2. uses \in [Procs -> [Pages -> SUBSET (0 .. m - 1)]]
    BY <1>1 DEF TypeOK
  <2>3. ThisSearch \in 0 .. m - 1
    BY <1>1, <1>2, Reading
  <2>4. QED
    BY <1>4, <2>1, <2>2, <2>3
<1>16. TypeOK'
  BY <1>1, <1>2, <1>3, <1>8, <1>13, <1>15 DEF TypeOK
<1>17. ASSUME NEW f \in Frames
       PROVE  \/ \E i \in 1 .. NFF' : OnlyInList(f, i)'
              \/ \E p \in Procs, page \in Pages : OnlyInTable(f, p, page)'
  <2>1. \A p \in Procs, page \in Pages :
          isValid(p, page)' <=> (p = c /\ page = v) \/ isValid(p, page)
    BY <1>14 DEF isValid
  <2>2. CASE OnlyInList(f, 1)
    <3>1. f = taken /\ \A j \in 1 .. N - 1 : freeFrames'[j].frameNumber # f
      BY <1>5, <1>8, <1>9, <2>2 DEF OnlyInList
    <3>2. \A q \in Procs, other \in Pages :
            isValid(q, other)' /\ pt'[q][other].frame = f <=> q = c /\ other = v
      BY <1>4, <1>14, <2>1, <2>2, <3>1 DEF OnlyInList
    <3>3. OnlyInTable(f, c, v)'
      BY <1>8, <3>1, <3>2 DEF OnlyInTable
    <3>4. QED
      BY <1>4, <3>3
  <2>3. ASSUME NEW i \in 2 .. N, OnlyInList(f, i)
        PROVE  i - 1 \in 1 .. N - 1 /\ OnlyInList(f, i - 1)'
    <3>1. f # taken
      BY <1>5, <1>9, <2>3 DEF OnlyInList
    <3>2. i - 1 \in 1 .. N - 1 /\ \A j \in 1 .. N - 1 : freeFrames'[j].frameNumber = f <=> j = i - 1
      <4>1. \A j \in 1 .. N - 1 : j + 1 \in 1 .. N /\ freeFrames'[j] = freeFrames[j + 1]
        BY <1>5, <1>8
      <4>2. \A j \in 1 .. N : freeFrames[j].frameNumber = f <=> j = i
        BY <1>5, <2>3 DEF OnlyInList
      <4>3. \A j \in 1 .. N - 1 : j + 1 = i <=> j = i - 1
        BY <1>5
      <4>4. i - 1 \in 1 .. N - 1
        BY <1>5
      <4>5. QED
        BY <4>1, <4>2, <4>3, <4>4
    <3>3. \A p \in Procs, page \in Pages : isValid(p, page)' => pt'[p][page].frame # f
      BY <1>14, <2>1, <2>3, <3>1 DEF OnlyInList
    <3>4. QED
      BY <1>8, <3>2, <3>3 DEF OnlyInList
  <2>4. ASSUME NEW p \in Procs, NEW page \in Pages, OnlyInTable(f, p, page)
        PROVE  OnlyInTable(f, p, page)'
    <3>1. f # taken /\ \A j \in 1 .. N - 1 : freeFrames'[j].frameNumber # f
      <4>1. \A j \in 1 .. N : freeFrames[j].frameNumber # f
        BY <1>5, <2>4 DEF OnlyInTable
      <4>2. 1 \in 1 .. N /\ \A j \in 1 .. N - 1 : j + 1 \in 1 .. N
        BY <1>5
      <4>3. QED
        BY <1>8, <1>9, <4>1, <4>2
    <3>2. ~ (p = c /\ page = v)
      BY <1>2, <1>4, <2>4 DEF OnlyInTable
    <3>3. \A q \in Procs, other \in Pages :
            isValid(q, other)' /\ pt'[q][other].frame = f <=> q = p /\ other = page
      BY <1>14, <2>1, <2>4, <3>1, <3>2 DEF OnlyInTable
    <3>4. QED
      BY <1>8, <3>1, <3>3 DEF OnlyInTable
  <2>5. CASE \E i \in 1 .. NFF : OnlyInList(f, i)
    <3>1. PICK i \in 1 .. NFF : OnlyInList(f, i)
      BY <2>5
    <3>2. i = 1 \/ i \in 2 .. N
      BY <1>5, <3>1
    <3>3. QED
      BY <1>4, <1>8, <2>2, <2>3, <3>1, <3>2
  <2>6. CASE \E p \in Procs, page \in Pages : OnlyInTable(f, p, page)
    BY <2>4, <2>6
  <2>7. QED
    BY <1>1, <2>5, <2>6 DEF PlaceInv
<1>18. PlaceInv'
  BY <1>17 DEF PlaceInv
<1>19. (NFF >= NFFMIN)'
  BY <1>5, <1>8
<1>20. QED
  BY <1>3, <1>16, <1>18, <1>19 DEF Inv

\* A page fault at the minimum: the frame at position i gets the page, the
\* frame of the victim goes to the end of the list.
LEMMA ReplaceKeepsInv == Inv /\ ReplacePage => Inv'
<1>. SUFFICES ASSUME Inv, ReplacePage PROVE Inv'
  OBVIOUS
<1>. USE Sizes
<1>1. TypeOK /\ SearchInv /\ PlaceInv /\ NFF >= NFFMIN
  BY DEF Inv
<1>2. /\ Access /\ Narrow /\ ~ isValid(current, vpage)
      /\ UNCHANGED <<status, currentSearch, current, finishedProcesses, loaded>>
  BY DEF ReplacePage, Fault
<1>3. SearchInv' /\ CountInv' /\ LoadInv' /\ proc' \in [k : Nat, L : Nat, R : Nat]
  BY <1>2, AccessKeepsRest
<1>4. PICK c \in Procs, v \in Pages : c = current /\ v = vpage
  BY <1>1, <1>2, Reading DEF TypeOK
<1>5. PICK N \in Nat : N = NFF /\ N >= 1 /\ N = Len(freeFrames) /\ freeFrames \in Seq(FreeEntries)
  BY <1>1, ListTypes DEF NFF, TypeOK
<1>6. PICK victim \in Pages : victim = findVictimPage(current) /\ isValid(current, victim)
  BY <1>1, <1>4, VictimIsValid DEF ReplacePage
<1>7. PICK i \in 1 .. NFF : i = findSuitableFrame(current, vpage)
  BY <1>1, <1>5, SuitableFrameIsListed
<1>8. Replace(victim, i)
  BY <1>6, <1>7 DEF ReplacePage
<1>9. victim # v
  BY <1>2, <1>4, <1>6
<1>10. PICK taken \in Frames : taken = freeFrames[i].frameNumber
  BY <1>1, ListTypes
<1>11. PICK given \in Frames : given = pt[current][victim].frame
  BY <1>1, <1>4, ListTypes
<1>. DEFINE last == [frameNumber |-> given, lastOwner |-> current, lastPage |-> victim]
<1>12. last \in FreeEntries /\ last.frameNumber = given
  BY <1>4 DEF FreeEntries
<1>13. freeFrames' = Append(RemoveAt(freeFrames, i), last)
  BY <1>8, <1>11 DEF Replace
<1>14. /\ freeFrames' \in Seq(FreeEntries) /\ NFF' = N
       /\ \A j \in 1 .. N : freeFrames'[j] = IF j < i THEN freeFrames[j]
                                               ELSE IF j < N THEN freeFrames[j + 1] ELSE last
  <2>1. /\ RemoveAt(freeFrames, i) \in Seq(FreeEntries) /\ Len(RemoveAt(freeFrames, i)) = N - 1
        /\ \A j \in 1 .. N - 1 :
             RemoveAt(freeFrames, i)[j] = IF j < i THEN freeFrames[j] ELSE freeFrames[j + 1]
    BY <1>5, Removal
  <2>. HIDE DEF last
  <2>2. /\ freeFrames' \in Seq(FreeEntries) /\ Len(freeFrames') = N
        /\ \A j \in 1 .. N - 1 : freeFrames'[j] = RemoveAt(freeFrames, i)[j]
        /\ freeFrames'[N] = last
    BY <1>5, <1>12, <1>13, <2>1, AppendProperties
  <2>3. NFF' = N
    BY <2>2 DEF NFF
  <2>4. ASSUME NEW j \in 1 .. N
        PROVE  freeFrames'[j] = IF j < i THEN freeFrames[j]
                                ELSE IF j < N THEN freeFrames[j + 1] ELSE last
    <3>1. CASE j = N
      BY <1>5, <2>2, <3>1
    <3>2. CASE j \in 1 .. N - 1
      BY <1>5, <2>1, <2>2, <3>2
    <3>3. QED
      BY <1>5, <3>1, <3>2
  <2>5. QED
    BY <2>2, <2>3, <2>4
<1>15. \A j \in 1 .. N : freeFrames'[j].frameNumber = IF j < i THEN freeFrames[j].frameNumber
                                                       ELSE IF j < N THEN freeFrames[j + 1].frameNumber ELSE given
  BY <1>12, <1>14
<1>16. pt \in [Procs -> [Pages -> Entries]]
  BY <1>1 DEF TypeOK
<1>17. /\ makeEntry(taken) \in Entries /\ makeEntry(taken).valid /\ makeEntry(taken).frame = taken
       /\ invalidate(pt[current][victim]) \in Entries /\ ~ invalidate(pt[current][victim]).valid
  BY <1>4, <1>16, EntryOperations
<1>18. pt' = [pt EXCEPT ![current][victim] = invalidate(@), ![current][vpage] = makeEntry(taken)]
  BY <1>8, <1>10 DEF Replace
<1>19. pt' \in [Procs -> [Pages -> Entries]]
  BY <1>4, <1>16, <1>17, <1>18
<1>20. /\ isValid(c, v)' /\ pt'[c][v].frame = taken
       /\ ~ isValid(c, victim)'
       /\ \A p \in Procs, page \in Pages :
            (p = c /\ (page = v \/ page = victim)) \/ pt'[p][page] = pt[p][page]
  BY <1>4, <1>9, <1>16, <1>17, <1>18 DEF isValid
<1>21. uses' \in [Procs -> [Pages -> SUBSET (0 .. m - 1)]]
  <2>1. uses' = [uses EXCEPT ![current][vpage] = {ThisSearch}]
    BY DEF ReplacePage
  <2>2. uses \in [Procs -> [Pages -> SUBSET (0 .. m - 1)]]
    BY <1>1 DEF TypeOK
  <2>3. ThisSearch \in 0 .. m - 1
    BY <1>1, <1>2, Reading
  <2>4. QED
    BY <1>4, <2>1, <2>2, <2>3
<1>22. TypeOK'
  BY <1>1, <1>2, <1>3, <1>14, <1>19, <1>21 DEF TypeOK
<1>. HIDE DEF last
<1>23. ASSUME NEW f \in Frames
       PROVE  \/ \E j \in 1 .. NFF' : OnlyInList(f, j)'
              \/ \E p \in Procs, page \in Pages : OnlyInTable(f, p, page)'
  <2>1. \A p \in Procs, page \in Pages :
          isValid(p, page)' /\ pt'[p][page].frame = f <=>
            \/ p = c /\ page = v /\ f = taken
            \/ ~ (p = c /\ (page = v \/ page = victim)) /\ isValid(p, page) /\ pt[p][page].frame = f
    BY <1>20 DEF isValid
  <2>2. ASSUME NEW at \in 1 .. N, OnlyInList(f, at), at < i
        PROVE  OnlyInList(f, at)'
    <3>1. f # taken /\ f # given
      BY <1>4, <1>5, <1>6, <1>10, <1>11, <2>2 DEF OnlyInList
    <3>2. \A j \in 1 .. N : freeFrames'[j].frameNumber = f <=> j = at
      BY <1>5, <1>15, <2>2, <3>1, SMTT(20) DEF OnlyInList
    <3>3. \A p \in Procs, page \in Pages : isValid(p, page)' => pt'[p][page].frame # f
      BY <2>1, <2>2, <3>1 DEF OnlyInList
    <3>4. QED
      BY <1>14, <3>2, <3>3 DEF OnlyInList
  <2>3. ASSUME OnlyInList(f, i)
        PROVE  OnlyInTable(f, c, v)'
    <3>1. f = taken /\ f # given
      BY <1>4, <1>5, <1>6, <1>10, <1>11, <2>3 DEF OnlyInList
    <3>2. \A j \in 1 .. N : freeFrames'[j].frameNumber # f
      BY <1>5, <1>15, <2>3, <3>1 DEF OnlyInList
    <3>3. \A q \in Procs, other \in Pages :
            isValid(q, other)' /\ pt'[q][other].frame = f <=> q = c /\ other = v
      BY <2>1, <2>3, <3>1 DEF OnlyInList
    <3>4. QED
      BY <1>14, <3>2, <3>3 DEF OnlyInTable
  <2>4. ASSUME NEW at \in 1 .. N, OnlyInList(f, at), at > i
        PROVE  at - 1 \in 1 .. N /\ OnlyInList(f, at - 1)'
    <3>1. f # taken /\ f # given
      BY <1>4, <1>5, <1>6, <1>10, <1>11, <2>4 DEF OnlyInList
    <3>2. at - 1 \in 1 .. N /\ \A j \in 1 .. N : freeFrames'[j].frameNumber = f <=> j = at - 1
      <4>1. \A j \in 1 .. N : freeFrames[j].frameNumber = f <=> j = at
        BY <1>5, <2>4 DEF OnlyInList
      <4>2. at - 1 \in 1 .. N /\ ~ (at - 1 < i) /\ at - 1 < N
        BY <1>5, <2>4
      <4>3. ASSUME NEW j \in 1 .. N
            PROVE  freeFrames'[j].frameNumber = f <=> j = at - 1
        <5>1. CASE j < i
          <6>1. freeFrames'[j].frameNumber = freeFrames[j].frameNumber
            BY <1>15, <5>1
          <6>2. j # at /\ j # at - 1
            BY <1>5, <4>2, <5>1, <2>4
          <6>3. QED
            BY <4>1, <6>1, <6>2
        <5>2. CASE ~ (j < i) /\ j < N
          <6>1. freeFrames'[j].frameNumber = freeFrames[j + 1].frameNumber
            BY <1>15, <5>2
          <6>2. j + 1 \in 1 .. N /\ (j + 1 = at <=> j = at - 1)
            BY <1>5, <5>2
          <6>3. QED
            BY <4>1, <6>1, <6>2
        <5>3. CASE ~ (j < i) /\ ~ (j < N)
          <6>1. freeFrames'[j].frameNumber = given
            BY <1>15, <5>3
          <6>2. j # at - 1
            BY <4>2, <5>3
          <6>3. QED
            BY <3>1, <6>1, <6>2
        <5>4. QED
          BY <5>1, <5>2, <5>3
      <4>4. QED
        BY <4>2, <4>3
    <3>3. \A p \in Procs, page \in Pages : isValid(p, page)' => pt'[p][page].frame # f
      BY <2>1, <2>4, <3>1 DEF OnlyInList
    <3>4. QED
      BY <1>14, <3>2, <3>3 DEF OnlyInList
  <2>5. ASSUME OnlyInTable(f, c, victim)
        PROVE  OnlyInList(f, N)'
    <3>1. f # taken /\ f = given
      BY <1>4, <1>10, <1>11, <2>5 DEF OnlyInTable
    <3>2. \A j \in 1 .. N : freeFrames'[j].frameNumber = f <=> j = N
      BY <1>5, <1>15, <2>5, <3>1 DEF OnlyInTable
    <3>3. \A p \in Procs, page \in Pages : isValid(p, page)' => pt'[p][page].frame # f
      BY <2>1, <2>5, <3>1 DEF OnlyInTable
    <3>4. QED
      BY <1>14, <3>2, <3>3 DEF OnlyInList
  <2>6. ASSUME NEW p \in Procs, NEW page \in Pages, OnlyInTable(f, p, page),
               ~ (p = c /\ page = victim)
        PROVE  OnlyInTable(f, p, page)'
    <3>1. f # taken /\ f # given
      BY <1>4, <1>6, <1>10, <1>11, <2>6 DEF OnlyInTable
    <3>2. \A j \in 1 .. N : freeFrames'[j].frameNumber # f
      BY <1>5, <1>15, <2>6, <3>1 DEF OnlyInTable
    <3>3. ~ (p = c /\ page = v)
      BY <1>2, <1>4, <2>6 DEF OnlyInTable
    <3>4. \A q \in Procs, other \in Pages :
            isValid(q, other)' /\ pt'[q][other].frame = f <=> q = p /\ other = page
      BY <2>1, <2>6, <3>1, <3>3 DEF OnlyInTable
    <3>5. QED
      BY <1>14, <3>2, <3>4 DEF OnlyInTable
  <2>7. CASE \E at \in 1 .. NFF : OnlyInList(f, at)
    <3>1. PICK at \in 1 .. NFF : OnlyInList(f, at)
      BY <2>7
    <3>2. at < i \/ at = i \/ at > i
      BY <1>5, <1>7, <3>1
    <3>3. QED
      BY <1>4, <1>5, <1>14, <2>2, <2>3, <2>4, <3>1, <3>2
  <2>8. CASE \E p \in Procs, page \in Pages : OnlyInTable(f, p, page)
    <3>1. N \in 1 .. NFF'
      BY <1>5, <1>14
    <3>2. QED
      BY <2>5, <2>6, <2>8, <3>1
  <2>9. QED
    BY <1>1, <2>7, <2>8 DEF PlaceInv
<1>24. PlaceInv'
  BY <1>23 DEF PlaceInv
<1>25. (NFF >= NFFMIN)'
  BY <1>1, <1>5, <1>14
<1>26. QED
  BY <1>3, <1>22, <1>24, <1>25 DEF Inv

\* A process that is read takes its essential pages from the front of the list.
LEMMA LoadKeepsInv == Inv /\ allocateEssentialPages => Inv'
<1>. SUFFICES ASSUME Inv, allocateEssentialPages PROVE Inv'
  OBVIOUS
<1>. USE Sizes
<1>1. TypeOK /\ SearchInv /\ CountInv /\ LoadInv /\ PlaceInv
  BY DEF Inv
<1>2. /\ status = "load" /\ loaded < n /\ loaded' = loaded + 1
      /\ status' = IF loaded' = n THEN "turn" ELSE "load"
      /\ UNCHANGED <<currentSearch, current, finishedProcesses, proc, uses>>
  BY DEF allocateEssentialPages
<1>3. PICK p \in Procs : p = loaded
  BY <1>1, <1>2 DEF TypeOK, Procs
<1>4. PICK N \in Nat : N = NFF /\ N = Len(freeFrames) /\ freeFrames \in Seq(FreeEntries)
  BY <1>1, ListTypes DEF NFF, TypeOK
<1>5. N - ESSENTIAL_PAGES >= NFFMIN
  <2>1. loaded \in Nat /\ n - loaded - 1 \in Nat /\ (n - loaded - 1) * ESSENTIAL_PAGES \in Nat
    BY <1>1, <1>2 DEF TypeOK
  <2>2. n * ESSENTIAL_PAGES = loaded * ESSENTIAL_PAGES + ESSENTIAL_PAGES + (n - loaded - 1) * ESSENTIAL_PAGES
    BY <2>1
  <2>3. N = USER_FRAMES - loaded * ESSENTIAL_PAGES
    BY <1>1, <1>2, <1>4 DEF LoadInv
  <2>4. loaded * ESSENTIAL_PAGES \in Nat /\ n * ESSENTIAL_PAGES \in Nat
    BY <2>1
  <2>5. USER_FRAMES - n * ESSENTIAL_PAGES >= NFFMIN
    BY MemoryAssumption
  <2>. HIDE DEF NFF
  <2>6. QED
    BY <2>1, <2>2, <2>3, <2>4, <2>5
<1>6. /\ freeFrames' \in Seq(FreeEntries) /\ NFF' = N - ESSENTIAL_PAGES
      /\ \A j \in 1 .. N - ESSENTIAL_PAGES : freeFrames'[j] = freeFrames[ESSENTIAL_PAGES + j]
  <2>1. freeFrames' = SubSeq(freeFrames, ESSENTIAL_PAGES + 1, N)
    BY <1>4 DEF allocateEssentialPages
  <2>2. /\ SubSeq(freeFrames, ESSENTIAL_PAGES + 1, N) \in Seq(FreeEntries)
        /\ Len(SubSeq(freeFrames, ESSENTIAL_PAGES + 1, N)) = N - ESSENTIAL_PAGES
        /\ \A j \in 1 .. N - ESSENTIAL_PAGES :
             SubSeq(freeFrames, ESSENTIAL_PAGES + 1, N)[j] = freeFrames[ESSENTIAL_PAGES + j]
    BY <1>4, <1>5, SubSeqProperties
  <2>3. QED
    BY <2>1, <2>2 DEF NFF
<1>7. pt \in [Procs -> [Pages -> Entries]]
  BY <1>1 DEF TypeOK
<1>8. \A page \in Essential : /\ page + 1 \in 1 .. N
                              /\ makeEntry(freeFrames[page + 1].frameNumber) \in Entries
                              /\ makeEntry(freeFrames[page + 1].frameNumber).valid
                              /\ makeEntry(freeFrames[page + 1].frameNumber).frame = freeFrames[page + 1].frameNumber
  <2>1. \A page \in Essential : page + 1 \in 1 .. N
    BY <1>5 DEF Essential
  <2>2. \A j \in 1 .. N : freeFrames[j].frameNumber \in Frames
    BY <1>1, <1>4, ListTypes
  <2>3. QED
    BY <2>1, <2>2, EntryOperations
<1>9. pt' = [pt EXCEPT ![p] = [page \in Pages |->
               IF page \in Essential THEN makeEntry(freeFrames[page + 1].frameNumber) ELSE pt[p][page]]]
  BY <1>3 DEF allocateEssentialPages
<1>10. pt' \in [Procs -> [Pages -> Entries]]
  BY <1>7, <1>8, <1>9
<1>11. /\ \A page \in Essential : isValid(p, page)' /\ pt'[p][page].frame = freeFrames[page + 1].frameNumber
       /\ \A page \in Pages : page \in Essential \/ pt'[p][page] = pt[p][page]
       /\ \A q \in Procs, page \in Pages : q # p => pt'[q][page] = pt[q][page]
  BY <1>7, <1>8, <1>9, PagesAreFinite DEF isValid
<1>12. \A page \in Pages : ~ isValid(p, page)
  BY <1>1, <1>2, <1>3 DEF LoadInv, Procs
<1>13. TypeOK'
  <2>1. loaded' \in 0 .. n /\ status' \in {"load", "turn", "search", "failed", "finished"}
    BY <1>1, <1>2 DEF TypeOK
  <2>2. QED
    BY <1>1, <1>2, <1>6, <1>10, <2>1 DEF TypeOK
<1>14. SearchInv' /\ CountInv'
  <2>1. loaded \in 0 .. n
    BY <1>1 DEF TypeOK
  <2>2. SearchInv'
    BY <1>1, <1>2, <2>1 DEF SearchInv
  <2>3. QED
    BY <1>1, <1>2, <2>2 DEF CountInv
<1>15. LoadInv'
  <2>1. loaded \in 0 .. n /\ N = USER_FRAMES - loaded * ESSENTIAL_PAGES
    BY <1>1, <1>2, <1>4 DEF TypeOK, LoadInv
  <2>2. (loaded + 1) * ESSENTIAL_PAGES = loaded * ESSENTIAL_PAGES + ESSENTIAL_PAGES
        /\ loaded * ESSENTIAL_PAGES \in Nat
    BY <2>1
  <2>3. NFF' = USER_FRAMES - loaded' * ESSENTIAL_PAGES
    BY <1>2, <1>6, <2>1, <2>2
  <2>4. \A q \in Procs : q >= loaded + 1 => q # p /\ q >= loaded
    BY <1>3, <2>1 DEF Procs
  <2>5. \A q \in Procs, page \in Pages : q >= loaded' => ~ isValid(q, page)'
    BY <1>1, <1>2, <1>11, <2>4 DEF LoadInv, isValid
  <2>6. QED
    BY <2>3, <2>5 DEF LoadInv
<1>16. ASSUME NEW f \in Frames
       PROVE  \/ \E i \in 1 .. NFF' : OnlyInList(f, i)'
              \/ \E q \in Procs, page \in Pages : OnlyInTable(f, q, page)'
  <2>1. \A q \in Procs, page \in Pages :
          isValid(q, page)' /\ pt'[q][page].frame = f <=>
            \/ q = p /\ page \in Essential /\ freeFrames[page + 1].frameNumber = f
            \/ q # p /\ isValid(q, page) /\ pt[q][page].frame = f
    BY <1>11, <1>12 DEF isValid
  <2>2. ASSUME NEW i \in 1 .. N, OnlyInList(f, i), i <= ESSENTIAL_PAGES
        PROVE  i - 1 \in Essential /\ OnlyInTable(f, p, i - 1)'
    <3>1. i - 1 \in Essential
      BY <1>4, <2>2 DEF Essential
    <3>2. \A j \in 1 .. N - ESSENTIAL_PAGES : freeFrames'[j].frameNumber # f
      <4>1. \A j \in 1 .. N - ESSENTIAL_PAGES : ESSENTIAL_PAGES + j \in 1 .. N /\ ESSENTIAL_PAGES + j # i
        BY <1>4, <2>2
      <4>2. QED
        BY <1>4, <1>6, <2>2, <4>1 DEF OnlyInList
    <3>3. \A page \in Essential : freeFrames[page + 1].frameNumber = f <=> page = i - 1
      <4>1. \A page \in Essential : page + 1 = i <=> page = i - 1
        BY <1>4 DEF Essential
      <4>2. QED
        BY <1>4, <1>8, <2>2, <4>1 DEF OnlyInList
    <3>4. \A q \in Procs, page \in Pages :
            isValid(q, page)' /\ pt'[q][page].frame = f <=> q = p /\ page = i - 1
      BY <2>1, <2>2, <3>1, <3>3 DEF OnlyInList
    <3>5. QED
      BY <1>6, <3>1, <3>2, <3>4 DEF OnlyInTable
  <2>3. ASSUME NEW i \in 1 .. N, OnlyInList(f, i), i > ESSENTIAL_PAGES
        PROVE  i - ESSENTIAL_PAGES \in 1 .. NFF' /\ OnlyInList(f, i - ESSENTIAL_PAGES)'
    <3>1. i - ESSENTIAL_PAGES \in 1 .. N - ESSENTIAL_PAGES
      BY <1>4, <1>5, <2>3
    <3>2. \A j \in 1 .. N - ESSENTIAL_PAGES : freeFrames'[j].frameNumber = f <=> j = i - ESSENTIAL_PAGES
      <4>1. \A j \in 1 .. N - ESSENTIAL_PAGES :
              ESSENTIAL_PAGES + j \in 1 .. N /\ (ESSENTIAL_PAGES + j = i <=> j = i - ESSENTIAL_PAGES)
        BY <1>4, <2>3
      <4>2. QED
        BY <1>4, <1>6, <2>3, <4>1 DEF OnlyInList
    <3>3. \A page \in Essential : freeFrames[page + 1].frameNumber # f
      <4>1. \A page \in Essential : page + 1 # i
        BY <1>4, <2>3 DEF Essential
      <4>2. QED
        BY <1>4, <1>8, <2>3, <4>1 DEF OnlyInList
    <3>4. \A q \in Procs, page \in Pages : isValid(q, page)' => pt'[q][page].frame # f
      BY <2>1, <2>3, <3>3 DEF OnlyInList
    <3>5. QED
      BY <1>6, <3>1, <3>2, <3>4 DEF OnlyInList
  <2>4. ASSUME NEW q \in Procs, NEW page \in Pages, OnlyInTable(f, q, page)
        PROVE  OnlyInTable(f, q, page)'
    <3>1. q # p
      BY <1>12, <2>4 DEF OnlyInTable
    <3>2. \A j \in 1 .. N : freeFrames[j].frameNumber # f
      BY <1>4, <2>4 DEF OnlyInTable
    <3>3. \A j \in 1 .. N - ESSENTIAL_PAGES : ESSENTIAL_PAGES + j \in 1 .. N
      BY <1>4
    <3>4. \A j \in 1 .. N - ESSENTIAL_PAGES : freeFrames'[j].frameNumber # f
      BY <1>6, <3>2, <3>3
    <3>5. \A o \in Procs, other \in Pages :
            isValid(o, other)' /\ pt'[o][other].frame = f <=> o = q /\ other = page
      BY <1>8, <2>1, <2>4, <3>1, <3>2 DEF OnlyInTable
    <3>6. QED
      BY <1>6, <3>4, <3>5 DEF OnlyInTable
  <2>5. CASE \E i \in 1 .. NFF : OnlyInList(f, i)
    <3>1. PICK i \in 1 .. N : OnlyInList(f, i)
      BY <1>4, <2>5
    <3>2. i <= ESSENTIAL_PAGES \/ i > ESSENTIAL_PAGES
      BY <1>4
    <3>3. QED
      BY <2>2, <2>3, <3>1, <3>2, PagesAreFinite
  <2>6. CASE \E q \in Procs, page \in Pages : OnlyInTable(f, q, page)
    BY <2>4, <2>6
  <2>7. QED
    BY <1>1, <2>5, <2>6 DEF PlaceInv
<1>17. PlaceInv'
  BY <1>16 DEF PlaceInv
<1>18. (NFF >= NFFMIN)'
  BY <1>5, <1>6
<1>19. QED
  BY <1>13, <1>14, <1>15, <1>17, <1>18 DEF Inv

\* The program ends, or gives up.
LEMMA StopKeepsInv == Inv /\ (NoVictim \/ Finish) => Inv'
<1>. SUFFICES ASSUME Inv, NoVictim \/ Finish PROVE Inv'
  OBVIOUS
<1>1. TypeOK /\ SearchInv /\ CountInv /\ LoadInv /\ PlaceInv /\ NFF >= NFFMIN
  BY DEF Inv
<1>2. /\ UNCHANGED <<freeFrames, pt, currentSearch, current, finishedProcesses, proc, loaded, uses>>
      /\ status # "load" /\ status' \in {"failed", "finished"}
  BY DEF NoVictim, Finish, Fault, Access
<1>3. TypeOK'
  BY <1>1, <1>2 DEF TypeOK
<1>4. SearchInv' /\ CountInv' /\ LoadInv'
  BY <1>1, <1>2 DEF SearchInv, CountInv, LoadInv
<1>5. PlaceInv'
  BY <1>1, <1>2, NothingMoves DEF isValid
<1>6. (NFF >= NFFMIN)'
  BY <1>1, <1>2 DEF NFF
<1>7. QED
  BY <1>3, <1>4, <1>5, <1>6 DEF Inv

\* The table of a process whose history is shifted holds the same pages.
LEMMA AgingKeepsPages ==
  ASSUME TypeOK, NEW p \in Procs
  PROVE  \A page \in Pages : LET e == updatePageHistory(pt[p])[page]
                             IN  e \in Entries /\ e.valid = isValid(p, page) /\ e.frame = pt[p][page].frame
<1>. DEFINE table == updatePageHistory(pt[p])
<1>1. TAKE page \in Pages
<1>2. pt[p][page] \in Entries
  BY DEF TypeOK
<1>3. table[page] = pt[p][page] \/ table[page] = Aged(pt[p][page])
  BY DEF updatePageHistory
<1>4. table[page] \in Entries /\ table[page].valid = pt[p][page].valid /\ table[page].frame = pt[p][page].frame
  BY <1>2, <1>3, EntryOperations
<1>5. QED
  BY <1>4 DEF isValid

\* The searches of the current process are counted, and the processes that
\* have made their last.
LEMMA EndSearchCounts ==
  ASSUME TypeOK, SearchInv, CountInv, EndSearch
  PROVE  /\ currentSearch' \in [Procs -> 0 .. m] /\ finishedProcesses' \in 0 .. n /\ CountInv'
<1>. USE Sizes
<1>. DEFINE Done == {p \in Procs : currentSearch[p] = m}
<1>1. PICK c \in Procs : c = current
  BY DEF TypeOK
<1>2. currentSearch \in [Procs -> 0 .. m] /\ currentSearch[c] < m
  BY <1>1 DEF TypeOK, SearchInv, EndSearch
<1>3. currentSearch' = [currentSearch EXCEPT ![c] = @ + 1]
  BY <1>1 DEF EndSearch
<1>4. currentSearch' \in [Procs -> 0 .. m]
  BY <1>2, <1>3
<1>5. /\ finishedProcesses' = finishedProcesses + IF currentSearch[c] + 1 >= m THEN 1 ELSE 0
      /\ finishedProcesses = Cardinality(Done)
  BY <1>1 DEF EndSearch, CountInv
<1>6. IsFiniteSet(Procs) /\ Cardinality(Procs) = n
  BY FS_Interval DEF Procs
<1>7. IsFiniteSet(Done) /\ c \notin Done
  BY <1>2, <1>6, FS_Subset
<1>8. Done' = IF currentSearch[c] + 1 >= m THEN Done \cup {c} ELSE Done
  BY <1>2, <1>3
<1>9. Cardinality(Done \cup {c}) = Cardinality(Done) + 1
  BY <1>7, FS_AddElement
<1>10. Cardinality(Done) \in Nat
  BY <1>7, FS_CardinalityType
<1>11. finishedProcesses' = Cardinality(Done')
  <2>1. CASE currentSearch[c] + 1 >= m
    <3>1. Done' = Done \cup {c} /\ finishedProcesses' = Cardinality(Done) + 1
      BY <1>5, <1>8, <2>1
    <3>2. QED
      BY <1>9, <3>1
  <2>2. CASE ~ (currentSearch[c] + 1 >= m)
    <3>1. Done' = Done /\ finishedProcesses' = Cardinality(Done) + 0
      BY <1>5, <1>8, <2>2
    <3>2. QED
      BY <1>10, <3>1
  <2>3. QED
    BY <2>1, <2>2
<1>12. Done' \in SUBSET Procs
  OBVIOUS
<1>13. Cardinality(Done') \in Nat /\ Cardinality(Done') <= n
  BY <1>6, <1>12, FS_Subset, FS_CardinalityType
<1>14. CountInv'
  BY <1>11 DEF CountInv
<1>15. QED
  BY <1>4, <1>11, <1>13, <1>14

\* A search that is not the last shifts the history, and a last search gives
\* every page of its process back.
LEMMA EndSearchKeepsInv == Inv /\ EndSearch => Inv'
<1>. SUFFICES ASSUME Inv, EndSearch PROVE Inv'
  OBVIOUS
<1>. USE Sizes
<1>1. TypeOK /\ SearchInv /\ CountInv /\ LoadInv /\ PlaceInv /\ NFF >= NFFMIN
  BY DEF Inv
<1>2. status = "search" /\ status' = "turn" /\ current' = Following(current) /\ UNCHANGED <<proc, loaded, uses>>
  BY DEF EndSearch
<1>3. PICK c \in Procs : c = current
  BY <1>1 DEF TypeOK
<1>4. /\ currentSearch' \in [Procs -> 0 .. m] /\ finishedProcesses' \in 0 .. n /\ CountInv'
  BY <1>1, EndSearchCounts
<1>5. current' \in Procs
  BY <1>2, <1>3 DEF Following, Procs
<1>6. SearchInv' /\ LoadInv'
  BY <1>1, <1>2 DEF SearchInv, LoadInv, TypeOK
<1>7. pt \in [Procs -> [Pages -> Entries]]
  BY <1>1 DEF TypeOK
<1>8. PICK table : table = updatePageHistory(pt[c])
  OBVIOUS
<1>9. \A page \in Pages : /\ table[page] \in Entries /\ table[page].valid = isValid(c, page)
                          /\ table[page].frame = pt[c][page].frame
  BY <1>1, <1>8, AgingKeepsPages
<1>10. DOMAIN table = Pages /\ table = [page \in Pages |-> table[page]]
  BY <1>8 DEF updatePageHistory
<1>. DEFINE last == currentSearch[c] + 1 >= m
            emptied == [page \in Pages |-> IF table[page].valid THEN invalidate(table[page]) ELSE table[page]]
<1>11. /\ pt' = [pt EXCEPT ![c] = IF last THEN emptied ELSE table]
       /\ freeFrames' = IF last THEN freeProcessFrames(c, table) ELSE freeFrames
  BY <1>3, <1>8 DEF EndSearch
<1>12. PICK N \in Nat : N = NFF /\ N = Len(freeFrames) /\ freeFrames \in Seq(FreeEntries)
  BY <1>1, ListTypes DEF NFF, TypeOK
<1>13. ASSUME ~ last
       PROVE  freeFrames' \in Seq(FreeEntries) /\ NFF' >= NFF /\ pt' \in [Procs -> [Pages -> Entries]] /\ PlaceInv'
  <2>1. freeFrames' = freeFrames /\ pt' = [pt EXCEPT ![c] = table]
    BY <1>11, <1>13
  <2>2. table \in [Pages -> Entries]
    BY <1>9, <1>10
  <2>3. pt' \in [Procs -> [Pages -> Entries]]
    BY <1>7, <2>1, <2>2
  <2>4. \A p \in Procs, page \in Pages :
          isValid(p, page)' = isValid(p, page) /\ pt'[p][page].frame = pt[p][page].frame
    BY <1>7, <1>9, <2>1 DEF isValid
  <2>5. PlaceInv'
    BY <1>1, <2>1, <2>4, NothingMoves
  <2>6. QED
    BY <1>12, <2>1, <2>3, <2>5 DEF NFF
<1>14. ASSUME last
       PROVE  freeFrames' \in Seq(FreeEntries) /\ NFF' >= NFF /\ pt' \in [Procs -> [Pages -> Entries]] /\ PlaceInv'
  <2>. DEFINE Held == {page \in Pages : isValid(c, page)}
  <2>1. pt' = [pt EXCEPT ![c] = emptied] /\ freeFrames' = freeProcessFrames(c, table)
    BY <1>11, <1>14
  <2>2. emptied \in [Pages -> Entries] /\ \A page \in Pages : ~ emptied[page].valid
    <3>1. \A page \in Pages : /\ table[page] \in Entries
                              /\ invalidate(table[page]) \in Entries /\ ~ invalidate(table[page]).valid
      BY <1>9, EntryOperations
    <3>2. QED
      BY <3>1
  <2>. HIDE DEF emptied
  <2>3. pt' \in [Procs -> [Pages -> Entries]]
    BY <1>7, <2>1, <2>2
  <2>4. /\ \A page \in Pages : ~ isValid(c, page)'
        /\ \A p \in Procs : p # c => pt'[p] = pt[p]
    BY <1>7, <2>1, <2>2 DEF isValid
  <2>5. Held = {page \in Pages : table[page].valid}
    BY <1>9
  <2>6. PICK held : held = InOrder(Held)
    OBVIOUS
  <2>7. PICK K \in Nat : K = Cardinality(Held)
    <3>1. Held \in SUBSET Pages
      OBVIOUS
    <3>. HIDE DEF Held
    <3>2. Cardinality(Held) \in Nat
      BY <3>1, PagesAreFinite, FS_Subset, FS_CardinalityType
    <3>3. QED
      BY <3>2
  <2>8. /\ Len(held) = K
        /\ \A i \in 1 .. K : held[i] \in Held
        /\ \A i, j \in 1 .. K : held[i] = held[j] => i = j
        /\ \A x \in Held : \E i \in 1 .. K : held[i] = x
    <3>1. Held \in SUBSET Pages
      OBVIOUS
    <3>. HIDE DEF Held
    <3>2. Held \in SUBSET Nat /\ IsFiniteSet(Held)
      BY <3>1, PagesAreFinite, FS_Subset
    <3>3. /\ Len(InOrder(Held)) = Cardinality(Held)
          /\ \A i \in 1 .. Cardinality(Held) : InOrder(Held)[i] \in Held
          /\ \A i, j \in 1 .. Cardinality(Held) : InOrder(Held)[i] = InOrder(Held)[j] => i = j
          /\ \A x \in Held : \E i \in 1 .. Cardinality(Held) : InOrder(Held)[i] = x
      BY <3>2, InOrderIsAList, SMTT(20)
    <3>4. QED
      BY <2>6, <2>7, <3>3
  <2>. DEFINE tail == [i \in 1 .. K |->
                         [frameNumber |-> table[held[i]].frame, lastOwner |-> c, lastPage |-> held[i]]]
  <2>9. freeFrames' = freeFrames \o tail
    BY <2>1, <2>5, <2>6, <2>8 DEF freeProcessFrames
  <2>10. \A i \in 1 .. K : /\ held[i] \in Pages /\ isValid(c, held[i])
                           /\ table[held[i]].frame = pt[c][held[i]].frame /\ pt[c][held[i]].frame \in Frames
    <3>1. \A page \in Pages : pt[c][page].frame \in Frames
      BY <1>1, ListTypes
    <3>2. QED
      BY <1>9, <2>8, <3>1
  <2>11. /\ tail \in Seq(FreeEntries) /\ Len(tail) = K
         /\ \A i \in 1 .. K : tail[i].frameNumber = pt[c][held[i]].frame
    <3>1. \A i \in 1 .. K : [frameNumber |-> table[held[i]].frame, lastOwner |-> c, lastPage |-> held[i]] \in FreeEntries
      BY <2>10 DEF FreeEntries
    <3>2. tail \in Seq(FreeEntries) /\ Len(tail) = K
      BY <3>1
    <3>3. QED
      BY <2>10, <3>2
  <2>. HIDE DEF tail
  <2>12. /\ freeFrames' \in Seq(FreeEntries) /\ NFF' = N + K
         /\ \A j \in 1 .. N : freeFrames'[j] = freeFrames[j]
         /\ \A i \in 1 .. K : freeFrames'[N + i].frameNumber = pt[c][held[i]].frame
    <3>1. freeFrames \o tail \in Seq(FreeEntries) /\ Len(freeFrames \o tail) = N + K
      BY <1>12, <2>11, ConcatProperties
    <3>2. \A j \in 1 .. N + K : freeFrames'[j] = IF j <= N THEN freeFrames[j] ELSE tail[j - N]
      BY <1>12, <2>9, <2>11, ConcatProperties
    <3>3. \A j \in 1 .. N : freeFrames'[j] = freeFrames[j]
      BY <1>12, <3>2
    <3>4. ASSUME NEW i \in 1 .. K
          PROVE  freeFrames'[N + i].frameNumber = pt[c][held[i]].frame
      <4>1. N + i \in 1 .. N + K /\ ~ (N + i <= N) /\ N + i - N = i
        BY <1>12, <2>7
      <4>2. freeFrames'[N + i] = tail[N + i - N]
        BY <3>2, <4>1
      <4>3. QED
        BY <2>11, <4>1, <4>2
    <3>5. QED
      BY <2>9, <3>1, <3>3, <3>4 DEF NFF
  <2>13. \A j \in 1 .. N + K : j \in 1 .. N \/ \E i \in 1 .. K : j = N + i
    <3>1. TAKE j \in 1 .. N + K
    <3>2. j \in 1 .. N \/ (j - N \in 1 .. K /\ j = N + (j - N))
      BY <1>12, <2>7
    <3>3. QED
      BY <3>2
  <2>14. ASSUME NEW f \in Frames
         PROVE  \/ \E i \in 1 .. NFF' : OnlyInList(f, i)'
                \/ \E p \in Procs, page \in Pages : OnlyInTable(f, p, page)'
    <3>1. \A p \in Procs, page \in Pages :
            isValid(p, page)' /\ pt'[p][page].frame = f <=> p # c /\ isValid(p, page) /\ pt[p][page].frame = f
      BY <2>4 DEF isValid
    <3>2. ASSUME NEW at \in 1 .. N, OnlyInList(f, at)
          PROVE  at \in 1 .. NFF' /\ OnlyInList(f, at)'
      <4>1. \A i \in 1 .. K : pt[c][held[i]].frame # f /\ N + i # at
        BY <1>12, <2>7, <2>10, <3>2 DEF OnlyInList
      <4>2. \A j \in 1 .. N + K : freeFrames'[j].frameNumber = f <=> j = at
        <5>1. TAKE j \in 1 .. N + K
        <5>2. CASE j \in 1 .. N
          BY <1>12, <2>12, <3>2, <5>2 DEF OnlyInList
        <5>3. ASSUME NEW i \in 1 .. K, j = N + i
              PROVE  freeFrames'[j].frameNumber = f <=> j = at
          <6>1. freeFrames'[N + i].frameNumber # f
            BY <2>12, <4>1
          <6>2. QED
            BY <4>1, <5>3, <6>1
        <5>4. QED
          BY <2>13, <5>2, <5>3
      <4>3. \A p \in Procs, page \in Pages : isValid(p, page)' => pt'[p][page].frame # f
        BY <3>1, <3>2 DEF OnlyInList
      <4>4. at \in 1 .. N + K
        BY <1>12, <2>7
      <4>5. QED
        BY <2>12, <4>2, <4>3, <4>4 DEF OnlyInList
    <3>3. ASSUME NEW page \in Pages, OnlyInTable(f, c, page)
          PROVE  \E at \in 1 .. NFF' : OnlyInList(f, at)'
      <4>1. isValid(c, page) /\ pt[c][page].frame = f
        BY <3>3 DEF OnlyInTable
      <4>2. PICK i \in 1 .. K : held[i] = page
        BY <2>8, <4>1
      <4>3. \A j \in 1 .. N : freeFrames[j].frameNumber # f
        BY <1>12, <3>3 DEF OnlyInTable
      <4>4. \A k \in 1 .. K : pt[c][held[k]].frame = f <=> k = i
        <5>1. \A k \in 1 .. K : pt[c][held[k]].frame = f <=> held[k] = page
          BY <2>10, <3>3 DEF OnlyInTable
        <5>2. \A k \in 1 .. K : held[k] = page <=> k = i
          BY <2>8, <4>2
        <5>3. QED
          BY <5>1, <5>2
      <4>5. /\ N + i \in 1 .. N + K
            /\ \A j \in 1 .. N : j # N + i
            /\ \A k \in 1 .. K : N + k = N + i <=> k = i
        BY <1>12, <2>7
      <4>6. \A j \in 1 .. N + K : freeFrames'[j].frameNumber = f <=> j = N + i
        <5>1. TAKE j \in 1 .. N + K
        <5>2. CASE j \in 1 .. N
          BY <2>12, <4>3, <4>5, <5>2
        <5>3. ASSUME NEW k \in 1 .. K, j = N + k
              PROVE  freeFrames'[j].frameNumber = f <=> j = N + i
          <6>1. freeFrames'[N + k].frameNumber = f <=> k = i
            BY <2>12, <4>4
          <6>2. QED
            BY <4>5, <5>3, <6>1
        <5>4. QED
          BY <2>13, <5>2, <5>3
      <4>7. \A p \in Procs, other \in Pages : isValid(p, other)' => pt'[p][other].frame # f
        BY <3>1, <3>3 DEF OnlyInTable
      <4>8. OnlyInList(f, N + i)'
        BY <2>12, <4>6, <4>7 DEF OnlyInList
      <4>9. QED
        BY <2>12, <4>5, <4>8
    <3>4. ASSUME NEW p \in Procs, NEW page \in Pages, OnlyInTable(f, p, page), p # c
          PROVE  OnlyInTable(f, p, page)'
      <4>1. \A i \in 1 .. K : pt[c][held[i]].frame # f
        BY <2>10, <3>4 DEF OnlyInTable
      <4>2. \A j \in 1 .. N + K : freeFrames'[j].frameNumber # f
        <5>1. TAKE j \in 1 .. N + K
        <5>2. CASE j \in 1 .. N
          BY <1>12, <2>12, <3>4, <5>2 DEF OnlyInTable
        <5>3. ASSUME NEW i \in 1 .. K, j = N + i
              PROVE  freeFrames'[j].frameNumber # f
          <6>1. freeFrames'[N + i].frameNumber # f
            BY <2>12, <4>1
          <6>2. QED
            BY <5>3, <6>1
        <5>4. QED
          BY <2>13, <5>2, <5>3
      <4>3. \A q \in Procs, other \in Pages :
              isValid(q, other)' /\ pt'[q][other].frame = f <=> q = p /\ other = page
        BY <3>1, <3>4 DEF OnlyInTable
      <4>4. QED
        BY <2>12, <4>2, <4>3 DEF OnlyInTable
    <3>5. CASE \E at \in 1 .. NFF : OnlyInList(f, at)
      BY <1>12, <3>2, <3>5
    <3>6. CASE \E p \in Procs, page \in Pages : OnlyInTable(f, p, page)
      <4>1. PICK p \in Procs, page \in Pages : OnlyInTable(f, p, page)
        BY <3>6
      <4>2. QED
        BY <3>3, <3>4, <4>1
    <3>7. QED
      BY <1>1, <3>5, <3>6 DEF PlaceInv
  <2>15. PlaceInv'
    BY <2>14 DEF PlaceInv
  <2>16. NFF' >= NFF
    BY <1>12, <2>7, <2>12
  <2>17. QED
    BY <2>3, <2>12, <2>15, <2>16
<1>15. freeFrames' \in Seq(FreeEntries) /\ NFF' >= NFF /\ pt' \in [Procs -> [Pages -> Entries]] /\ PlaceInv'
  BY <1>13, <1>14
<1>16. TypeOK'
  BY <1>1, <1>2, <1>4, <1>5, <1>15 DEF TypeOK
<1>17. (NFF >= NFFMIN)'
  <2>1. NFF' \in Int
    BY <1>15 DEF NFF
  <2>2. QED
    BY <1>1, <1>12, <1>15, <2>1
<1>18. QED
  BY <1>4, <1>6, <1>15, <1>16, <1>17 DEF Inv

-----------------------------------------------------------------------------
(* The theorem.                                                              *)

\* Every reachable state satisfies the inductive invariant.
THEOREM InvAlways == Spec => []Inv
<1>1. Inv /\ [Next]_vars => Inv'
  <2>. SUFFICES ASSUME Inv, [Next]_vars PROVE Inv'
    OBVIOUS
  <2>1. CASE Next
    BY <2>1, LoadKeepsInv, TurnKeepsInv, HitKeepsInv, AllocateKeepsInv, ReplaceKeepsInv,
       StopKeepsInv, EndSearchKeepsInv DEF Next
  <2>2. CASE UNCHANGED vars
    <3>1. /\ UNCHANGED <<status, freeFrames, pt, currentSearch, current, finishedProcesses, proc, loaded, uses>>
          /\ NFF' = NFF
      BY <2>2 DEF vars, NFF
    <3>2. TypeOK' /\ SearchInv' /\ CountInv' /\ LoadInv' /\ (NFF >= NFFMIN)'
      BY <3>1 DEF Inv, TypeOK, SearchInv, CountInv, LoadInv, isValid
    <3>3. PlaceInv'
      BY <3>1, NothingMoves DEF Inv, isValid
    <3>4. QED
      BY <3>2, <3>3 DEF Inv
  <2>3. QED
    BY <2>1, <2>2
<1>2. QED
  BY <1>1, InitInv, PTL DEF Spec

\* The values of the variables of LRU.c are what their types say.
THEOREM TypesAlwaysOK == Spec => []TypeOK
<1>1. Inv => TypeOK
  BY DEF Inv
<1>2. QED
  BY <1>1, InvAlways, PTL

\* A frame in one place is counted once.
LEMMA OnePlaceIsCountedOnce == Inv => FramesConserved
<1>. SUFFICES ASSUME Inv PROVE FramesConserved
  OBVIOUS
<1>1. ASSUME NEW f \in Frames
      PROVE  Cardinality(Listed(f)) + Cardinality(Mapped(f)) = 1
  <2>1. Cardinality({}) = 0
    BY FS_EmptySet
  <2>2. CASE \E i \in 1 .. NFF : OnlyInList(f, i)
    <3>1. PICK i \in 1 .. NFF : OnlyInList(f, i)
      BY <2>2
    <3>2. Listed(f) = {i}
      BY <3>1 DEF OnlyInList, Listed
    <3>3. Mapped(f) = {}
      BY <3>1 DEF OnlyInList, Mapped, isValid
    <3>4. Cardinality(Listed(f)) = 1 /\ Cardinality(Mapped(f)) = 0
      BY <2>1, <3>2, <3>3, FS_Singleton
    <3>5. QED
      BY <3>4
  <2>3. CASE \E p \in Procs, page \in Pages : OnlyInTable(f, p, page)
    <3>1. PICK p \in Procs, page \in Pages : OnlyInTable(f, p, page)
      BY <2>3
    <3>2. Listed(f) = {}
      BY <3>1 DEF OnlyInTable, Listed
    <3>3. Mapped(f) = {<<p, page>>}
      <4>1. \A pp \in Procs \X Pages : pp \in Mapped(f) <=> pp[1] = p /\ pp[2] = page
        BY <3>1 DEF OnlyInTable, Mapped, isValid
      <4>2. Mapped(f) \subseteq Procs \X Pages /\ <<p, page>> \in Procs \X Pages
        BY DEF Mapped
      <4>3. \A pp \in Procs \X Pages : pp = <<pp[1], pp[2]>>
        OBVIOUS
      <4>4. QED
        BY <4>1, <4>2, <4>3
    <3>4. Cardinality(Listed(f)) = 0 /\ Cardinality(Mapped(f)) = 1
      BY <2>1, <3>2, <3>3, FS_Singleton
    <3>5. QED
      BY <3>4
  <2>4. QED
    BY <2>2, <2>3 DEF Inv, PlaceInv
<1>2. QED
  BY <1>1 DEF Inv, FramesConserved

\* Every user frame is once in the list of free frames or under one valid page
\* of one process, through every load, fault, replacement and exit of LRU.c, and
\* NFFMIN frames stay free.
THEOREM FramesAlwaysConserved == Spec => []FramesConserved
<1>1. QED
  BY InvAlways, OnePlaceIsCountedOnce, PTL

-----------------------------------------------------------------------------
(* What the histories know of the searches before.                           *)

\* An array page of process p that is in memory.
InMemory(p, page) == page \in Pages \ Essential /\ isValid(p, page)

\* The page was used by one of the last k searches, or loaded by this one.
UsedWithin(p, page, k) ==
  Earlier(p, page) = {} \/ \E u \in Earlier(p, page) : currentSearch[p] - k <= u

\* Every search since the page was loaded used it, but perhaps the one that runs.
UsedByAll(p, page) ==
  \A u \in uses[p][page], t \in Nat : u <= t /\ t < currentSearch[p] => t \in uses[p][page]

\* The reference bit is the use by the search that runs, the highest bit that is
\* set is the last use before it, and all are set when no search passed the
\* page by.
HistoryOf(p, page) ==
  /\ uses[p][page] # {} /\ \A u \in uses[p][page] : u <= currentSearch[p]
  /\ pt[p][page].ref <=> currentSearch[p] \in uses[p][page]
  /\ \A k \in 1 .. BITS : UsedWithin(p, page, k) <=> pt[p][page].history >= Weight[BITS - k]
  /\ UsedByAll(p, page) => pt[p][page].history = Newest

\* The histories of the array pages in memory tell of their uses.
HistoryInv == \A p \in Procs, page \in Pages : InMemory(p, page) => HistoryOf(p, page)

\* What a step leaves alone keeps its history.
LEMMA SameHistory ==
  ASSUME NEW p \in Procs, NEW page \in Pages, HistoryOf(p, page),
         pt'[p][page] = pt[p][page], uses'[p][page] = uses[p][page],
         currentSearch'[p] = currentSearch[p]
  PROVE  HistoryOf(p, page)'
BY DEF HistoryOf, UsedWithin, UsedByAll, Earlier

\* Searches are numbered from 0.
LEMMA SearchNumbers ==
  ASSUME TypeOK, NEW p \in Procs
  PROVE  currentSearch[p] \in Nat /\ \A page \in Pages : uses[p][page] \in SUBSET Nat
<1>1. currentSearch[p] \in 0 .. m
  BY DEF TypeOK
<1>2. \A page \in Pages : uses[p][page] \in SUBSET (0 .. m - 1)
  BY DEF TypeOK
<1>3. \A S \in SUBSET (0 .. m - 1) : S \in SUBSET Nat
  BY Sizes
<1>4. QED
  BY <1>1, <1>2, <1>3, Sizes

\* A page that the running search loads has all bits set.
LEMMA HistoryOfLoaded ==
  ASSUME TypeOK, NEW p \in Procs, NEW page \in Pages, NEW f \in Frames,
         pt'[p][page] = makeEntry(f), uses'[p][page] = {currentSearch[p]},
         currentSearch'[p] = currentSearch[p]
  PROVE  HistoryOf(p, page)'
<1>1. PICK c \in Nat : c = currentSearch[p]
  BY SearchNumbers
<1>2. /\ uses'[p][page] = {c} /\ currentSearch'[p] = c
      /\ pt'[p][page].ref = TRUE /\ pt'[p][page].history = Newest
  BY <1>1 DEF makeEntry
<1>3. Earlier(p, page)' = {}
  BY <1>1, <1>2 DEF Earlier
<1>4. \A k \in 1 .. BITS : Newest >= Weight[BITS - k]
  <2>1. TAKE k \in 1 .. BITS
  <2>2. BITS - k \in 0 .. BITS - 1 /\ BITS - k \in 0 .. BITS
    BY BitWeights
  <2>3. Weight[BITS - k] \in Nat /\ Weight[BITS - k] <= TopBit
    BY <2>2, BitWeights
  <2>4. QED
    BY <2>3, BitWeights
<1>5. \A k \in 1 .. BITS : UsedWithin(p, page, k)'
  BY <1>3 DEF UsedWithin
<1>6. QED
  BY <1>1, <1>2, <1>4, <1>5 DEF HistoryOf

\* A page that the running search uses keeps its bits and gets the reference bit.
LEMMA HistoryOfUsed ==
  ASSUME TypeOK, NEW p \in Procs, NEW page \in Pages, HistoryOf(p, page),
         pt'[p][page] = [pt[p][page] EXCEPT !.ref = TRUE],
         uses'[p][page] = uses[p][page] \cup {currentSearch[p]},
         currentSearch'[p] = currentSearch[p]
  PROVE  HistoryOf(p, page)'
<1>1. PICK c \in Nat : c = currentSearch[p]
  BY SearchNumbers
<1>2. PICK U \in SUBSET Nat : U = uses[p][page]
  BY SearchNumbers
<1>3. PICK h : h = pt[p][page].history
  OBVIOUS
<1>4. /\ uses'[p][page] = U \cup {c} /\ currentSearch'[p] = c
      /\ pt'[p][page].ref = TRUE /\ pt'[p][page].history = h
  <2>1. pt[p][page] \in Entries
    BY DEF TypeOK
  <2>2. QED
    BY <1>1, <1>2, <1>3, <2>1 DEF Entries
<1>5. Earlier(p, page) = U \cap 0 .. c - 1
  BY <1>1, <1>2 DEF Earlier
<1>6. Earlier(p, page)' = Earlier(p, page)
  <2>1. Earlier(p, page)' = (U \cup {c}) \cap 0 .. c - 1
    BY <1>4 DEF Earlier
  <2>2. c \notin 0 .. c - 1
    BY <1>1
  <2>3. QED
    BY <1>5, <2>1, <2>2
<1>7. \A k \in 1 .. BITS : UsedWithin(p, page, k)' = UsedWithin(p, page, k)
  BY <1>1, <1>4, <1>6 DEF UsedWithin
<1>8. UsedByAll(p, page)' => UsedByAll(p, page)
  <2>1. SUFFICES ASSUME UsedByAll(p, page)', NEW u \in U, NEW t \in Nat, u <= t, t < c
                 PROVE  t \in U
    BY <1>1, <1>2 DEF UsedByAll
  <2>2. t \in U \cup {c}
    BY <1>4, <2>1 DEF UsedByAll
  <2>3. QED
    BY <2>1, <2>2
<1>9. U # {} /\ \A u \in U : u <= c
  BY <1>1, <1>2 DEF HistoryOf
<1>10. \A u \in U \cup {c} : u <= c
  BY <1>9
<1>11. /\ \A k \in 1 .. BITS : UsedWithin(p, page, k) <=> h >= Weight[BITS - k]
       /\ UsedByAll(p, page) => h = Newest
  BY <1>3 DEF HistoryOf
<1>12. QED
  BY <1>4, <1>7, <1>8, <1>9, <1>10, <1>11 DEF HistoryOf

\* The end of a search shifts the history and puts the reference bit on top.
LEMMA HistoryOfAged ==
  ASSUME TypeOK, NEW p \in Procs, NEW page \in Pages, HistoryOf(p, page),
         pt'[p][page] = Aged(pt[p][page]), uses'[p][page] = uses[p][page],
         currentSearch'[p] = currentSearch[p] + 1
  PROVE  HistoryOf(p, page)'
<1>1. PICK c \in Nat : c = currentSearch[p]
  BY SearchNumbers
<1>2. PICK U \in SUBSET Nat : U = uses[p][page]
  BY SearchNumbers
<1>3. PICK h \in Nat, r \in BOOLEAN : h = pt[p][page].history /\ r = pt[p][page].ref /\ h <= Newest
  <2>1. pt[p][page] \in Entries
    BY DEF TypeOK
  <2>2. pt[p][page].history \in 0 .. Newest /\ pt[p][page].ref \in BOOLEAN
    BY <2>1 DEF Entries, History
  <2>3. QED
    BY <2>2, Sizes
<1>4. PICK g : g = h \div 2 + IF r THEN TopBit ELSE 0
  OBVIOUS
<1>5. /\ uses'[p][page] = U /\ currentSearch'[p] = c + 1
      /\ pt'[p][page].ref = FALSE /\ pt'[p][page].history = g
  <2>1. pt[p][page] \in Entries
    BY DEF TypeOK
  <2>2. Aged(pt[p][page]).ref = FALSE /\ Aged(pt[p][page]).history = g
    BY <1>3, <1>4, <2>1 DEF Entries, Aged
  <2>3. QED
    BY <1>1, <1>2, <2>2
<1>6. /\ U # {} /\ \A u \in U : u <= c
      /\ r <=> c \in U
      /\ \A k \in 1 .. BITS : UsedWithin(p, page, k) <=> h >= Weight[BITS - k]
      /\ UsedByAll(p, page) => h = Newest
  BY <1>1, <1>2, <1>3 DEF HistoryOf
<1>7. /\ TopBit \in Nat /\ TopBit >= 1 /\ h <= 2 * TopBit - 1
      /\ r => g = h \div 2 + TopBit
      /\ ~ r => g = h \div 2
      /\ g \in Nat
  BY <1>3, <1>4, BitWeights
<1>8. Earlier(p, page) = U \cap 0 .. c - 1 /\ Earlier(p, page)' = U
  <2>1. Earlier(p, page)' = U \cap 0 .. (c + 1) - 1
    BY <1>5 DEF Earlier
  <2>2. \A u \in U : u \in 0 .. (c + 1) - 1
    BY <1>1, <1>2, <1>6
  <2>3. QED
    BY <1>1, <1>2, <2>1, <2>2 DEF Earlier
<1>9. \A k \in Nat : UsedWithin(p, page, k)' <=> \E u \in U : c + 1 - k <= u
  <2>1. TAKE k \in Nat
  <2>2. ASSUME UsedWithin(p, page, k)' PROVE \E u \in U : c + 1 - k <= u
    <3>1. Earlier(p, page)' # {}
      BY <1>6, <1>8
    <3>2. PICK u \in Earlier(p, page)' : currentSearch'[p] - k <= u
      BY <2>2, <3>1 DEF UsedWithin
    <3>3. u \in U
      BY <1>8, <3>2
    <3>4. c + 1 - k <= u
      BY <1>5, <3>2
    <3>5. QED
      BY <3>3, <3>4
  <2>3. ASSUME NEW u \in U, c + 1 - k <= u PROVE UsedWithin(p, page, k)'
    <3>1. u \in Earlier(p, page)' /\ currentSearch'[p] - k <= u
      BY <1>5, <1>8, <2>3
    <3>2. QED
      BY <3>1 DEF UsedWithin
  <2>4. QED
    BY <2>2, <2>3
<1>10. ASSUME NEW k \in 1 .. BITS
       PROVE  UsedWithin(p, page, k)' <=> g >= Weight[BITS - k]
  <2>1. PICK w \in Nat : w = Weight[BITS - k] /\ w <= TopBit
    <3>1. BITS - k \in 0 .. BITS - 1 /\ BITS - k \in 0 .. BITS
      BY BitWeights
    <3>2. QED
      BY <3>1, BitWeights
  <2>2. CASE r
    <3>1. c \in U /\ c + 1 - k <= c
      BY <1>6, <2>2, BitWeights
    <3>2. UsedWithin(p, page, k)'
      BY <1>9, <3>1
    <3>3. g >= w
      BY <1>7, <2>1, <2>2
    <3>4. QED
      BY <2>1, <3>2, <3>3
  <2>3. CASE ~ r /\ k = 1
    <3>1. \A u \in U : ~ (c + 1 - k <= u)
      <4>1. TAKE u \in U
      <4>2. u \in Nat /\ u <= c /\ u # c
        BY <1>6, <2>3
      <4>3. QED
        BY <2>3, <4>2
    <3>2. ~ UsedWithin(p, page, k)'
      BY <1>9, <3>1
    <3>3. w = TopBit
      BY <2>1, <2>3 DEF TopBit
    <3>4. ~ (g >= w)
      BY <1>7, <2>3, <3>3
    <3>5. QED
      BY <2>1, <3>2, <3>4
  <2>4. CASE ~ r /\ k # 1
    <3>1. PICK j \in 1 .. BITS : j = k - 1
      BY <2>4, BitWeights
    <3>2. UsedWithin(p, page, k)' <=> UsedWithin(p, page, j)
      <4>1. \A u \in U : u \in Nat /\ u < c
        BY <1>6, <2>4
      <4>2. Earlier(p, page) = U
        BY <1>8, <4>1
      <4>3. UsedWithin(p, page, j) <=> \E u \in U : c - j <= u
        BY <1>1, <1>6, <4>2 DEF UsedWithin
      <4>4. c + 1 - k = c - j
        BY <3>1, BitWeights
      <4>5. QED
        BY <1>9, <4>3, <4>4
    <3>3. Weight[BITS - j] = 2 * w
      <4>1. BITS - k \in 0 .. BITS - 1 /\ (BITS - k) + 1 = BITS - j
        BY <3>1, BitWeights
      <4>2. QED
        BY <2>1, <4>1, BitWeights
    <3>4. g >= w <=> h >= 2 * w
      BY <1>7, <2>1, <2>4
    <3>5. QED
      BY <1>6, <2>1, <3>2, <3>3, <3>4
  <2>5. QED
    BY <2>2, <2>3, <2>4
<1>11. UsedByAll(p, page)' => g = Newest
  <2>1. SUFFICES ASSUME UsedByAll(p, page)' PROVE g = Newest
    OBVIOUS
  <2>2. \A u \in U, t \in Nat : u <= t /\ t < c + 1 => t \in U
    BY <1>5, <2>1 DEF UsedByAll
  <2>3. UsedByAll(p, page)
    <3>1. \A u \in U, t \in Nat : u <= t /\ t < c => t \in U
      BY <2>2
    <3>2. QED
      BY <1>1, <1>2, <3>1 DEF UsedByAll
  <2>4. r
    <3>1. PICK u \in U : u <= c
      BY <1>6
    <3>2. c \in U
      BY <2>2, <3>1
    <3>3. QED
      BY <1>6, <3>2
  <2>5. h = 2 * TopBit - 1
    BY <1>6, <2>3, BitWeights
  <2>6. QED
    BY <1>7, <2>4, <2>5, BitWeights
<1>12. /\ \A u \in U : u <= c + 1
       /\ c + 1 \notin U
  <2>1. \A u \in U : u \in Nat /\ u <= c
    BY <1>6
  <2>2. \A u \in U : u <= c + 1 /\ u # c + 1
    BY <2>1
  <2>3. QED
    BY <2>2
<1>13. /\ uses'[p][page] # {} /\ \A u \in uses'[p][page] : u <= currentSearch'[p]
       /\ pt'[p][page].ref <=> currentSearch'[p] \in uses'[p][page]
  BY <1>5, <1>6, <1>12
<1>14. QED
  BY <1>5, <1>10, <1>11, <1>13 DEF HistoryOf

\* The victim is an array page, no page of the same kind has an older history, and
\* its own is older than a new page's.
LEMMA VictimIsOldest ==
  ASSUME TypeOK, NEW p \in Procs, findVictimPage(p) # NONE
  PROVE  /\ findVictimPage(p) \in Pages \ Essential
         /\ pt[p][findVictimPage(p)].history < Newest
         /\ \A other \in Candidates(p) : pt[p][findVictimPage(p)].history <= pt[p][other].history
<1>. DEFINE H == {pt[p][page].history : page \in Candidates(p)}
            lowest == Min(H)
            Low == {page \in Candidates(p) : pt[p][page].history = lowest}
<1>1. Candidates(p) # {} /\ findVictimPage(p) = Min(Low)
  BY DEF findVictimPage, NONE
<1>2. Candidates(p) \subseteq Pages
  BY DEF Candidates
<1>3. H \in SUBSET Nat /\ H # {}
  BY <1>1, <1>2, ListTypes
<1>4. lowest \in H /\ \A h \in H : lowest <= h
  BY <1>3, LeastNumber
<1>5. Low \in SUBSET Nat /\ Low # {}
  BY <1>2, <1>4, PagesAreFinite
<1>6. findVictimPage(p) \in Low
  BY <1>1, <1>5, LeastNumber
<1>7. /\ findVictimPage(p) \in Candidates(p)
      /\ pt[p][findVictimPage(p)].history = lowest
      /\ \A other \in Candidates(p) : lowest <= pt[p][other].history
  BY <1>4, <1>6
<1>8. QED
  BY <1>7 DEF Candidates

\* An access changes the table of the process that runs, and there the page that
\* is read, to what it loads or marks, and perhaps a victim, which goes.
LEMMA AccessKeepsHistory ==
  ASSUME Inv, HistoryInv, Access, NEW v \in Pages, v = vpage, NEW c \in Procs, c = current,
         currentSearch' = currentSearch,
         \/ isValid(c, v) /\ pt'[c][v] = [pt[c][v] EXCEPT !.ref = TRUE]
            /\ uses' = [uses EXCEPT ![c][v] = @ \cup {ThisSearch}]
         \/ (\E f \in Frames : pt'[c][v] = makeEntry(f))
            /\ uses' = [uses EXCEPT ![c][v] = {ThisSearch}],
         \A p \in Procs, page \in Pages : p # c \/ page # v =>
            pt'[p][page] = pt[p][page] \/ ~ isValid(p, page)'
  PROVE  HistoryInv'
<1>1. TypeOK
  BY DEF Inv
<1>2. uses \in [Procs -> [Pages -> SUBSET (0 .. m - 1)]] /\ ThisSearch = currentSearch[c]
  BY <1>1 DEF TypeOK, ThisSearch
<1>3. SUFFICES ASSUME NEW p \in Procs, NEW page \in Pages, InMemory(p, page)' PROVE HistoryOf(p, page)'
  BY DEF HistoryInv
<1>4. page \notin Essential /\ isValid(p, page)'
  BY <1>3 DEF InMemory
<1>5. CASE p # c \/ page # v
  <2>1. pt'[p][page] = pt[p][page]
    BY <1>4, <1>5
  <2>2. uses'[p][page] = uses[p][page]
    BY <1>2, <1>5
  <2>3. InMemory(p, page)
    BY <1>4, <2>1 DEF InMemory, isValid
  <2>4. HistoryOf(p, page)
    BY <2>3 DEF HistoryInv
  <2>5. QED
    BY <2>1, <2>2, <2>4, SameHistory
<1>6. CASE p = c /\ page = v
  <2>1. ASSUME isValid(c, v), pt'[c][v] = [pt[c][v] EXCEPT !.ref = TRUE],
               uses' = [uses EXCEPT ![c][v] = @ \cup {ThisSearch}]
        PROVE  HistoryOf(p, page)'
    <3>1. HistoryOf(p, page)
      BY <1>4, <1>6, <2>1 DEF HistoryInv, InMemory
    <3>2. uses'[p][page] = uses[p][page] \cup {currentSearch[p]}
      BY <1>2, <1>6, <2>1
    <3>3. QED
      BY <1>1, <1>6, <2>1, <3>1, <3>2, HistoryOfUsed
  <2>2. ASSUME NEW f \in Frames, pt'[c][v] = makeEntry(f),
               uses' = [uses EXCEPT ![c][v] = {ThisSearch}]
        PROVE  HistoryOf(p, page)'
    <3>1. uses'[p][page] = {currentSearch[p]}
      BY <1>2, <1>6, <2>2
    <3>2. QED
      BY <1>1, <1>6, <2>2, <3>1, HistoryOfLoaded
  <2>3. QED
    BY <2>1, <2>2
<1>7. QED
  BY <1>5, <1>6

\* Accesses keep the histories telling of the uses.
LEMMA AccessesKeepHistory == Inv /\ HistoryInv /\ (Hit \/ AllocateFrame \/ ReplacePage) => HistoryInv'
<1>. SUFFICES ASSUME Inv, HistoryInv, Hit \/ AllocateFrame \/ ReplacePage PROVE HistoryInv'
  OBVIOUS
<1>1. TypeOK /\ SearchInv /\ NFF >= NFFMIN
  BY DEF Inv
<1>2. Access /\ currentSearch' = currentSearch
  BY DEF Hit, AllocateFrame, ReplacePage, Fault
<1>3. PICK c \in Procs, v \in Pages : c = current /\ v = vpage
  BY <1>1, <1>2, Reading DEF TypeOK
<1>4. pt \in [Procs -> [Pages -> Entries]]
  BY <1>1 DEF TypeOK
<1>5. CASE Hit
  <2>1. /\ pt' = [pt EXCEPT ![c][v].ref = TRUE] /\ isValid(c, v)
        /\ uses' = [uses EXCEPT ![c][v] = @ \cup {ThisSearch}]
    BY <1>3, <1>5 DEF Hit
  <2>2. pt'[c][v] = [pt[c][v] EXCEPT !.ref = TRUE]
    BY <1>4, <2>1
  <2>3. \A p \in Procs, page \in Pages : p # c \/ page # v => pt'[p][page] = pt[p][page]
    BY <1>4, <2>1
  <2>4. \A p \in Procs, page \in Pages : p # c \/ page # v =>
            pt'[p][page] = pt[p][page] \/ ~ isValid(p, page)'
    BY <2>3
  <2>5. QED
    BY <1>2, <1>3, <2>1, <2>2, <2>4, AccessKeepsHistory
<1>6. CASE AllocateFrame
  <2>1. /\ pt' = [pt EXCEPT ![c][v] = makeEntry(freeFrames[1].frameNumber)]
        /\ uses' = [uses EXCEPT ![c][v] = {ThisSearch}]
    BY <1>3, <1>6 DEF AllocateFrame
  <2>2. PICK f \in Frames : f = freeFrames[1].frameNumber
    <3>1. 1 \in 1 .. NFF
      BY <1>1, ListTypes, Sizes
    <3>2. QED
      BY <1>1, <3>1, ListTypes
  <2>3. pt'[c][v] = makeEntry(f)
    BY <1>4, <2>1, <2>2
  <2>4. \A p \in Procs, page \in Pages : p # c \/ page # v => pt'[p][page] = pt[p][page]
    BY <1>4, <2>1
  <2>5. \A p \in Procs, page \in Pages : p # c \/ page # v =>
            pt'[p][page] = pt[p][page] \/ ~ isValid(p, page)'
    BY <2>4
  <2>6. QED
    BY <1>2, <1>3, <2>1, <2>3, <2>5, AccessKeepsHistory
<1>7. CASE ReplacePage
  <2>1. PICK victim : victim = findVictimPage(c)
    OBVIOUS
  <2>2. PICK i : i = findSuitableFrame(c, v)
    OBVIOUS
  <2>3. /\ victim # NONE /\ ~ isValid(c, v) /\ Replace(victim, i)
        /\ uses' = [uses EXCEPT ![c][v] = {ThisSearch}]
    BY <1>3, <1>7, <2>1, <2>2 DEF ReplacePage, Fault
  <2>4. victim \in Pages /\ isValid(c, victim)
    BY <1>1, <2>1, <2>3, VictimIsValid
  <2>5. victim # v
    BY <2>3, <2>4
  <2>6. pt' = [pt EXCEPT ![c][victim] = invalidate(@), ![c][v] = makeEntry(freeFrames[i].frameNumber)]
    BY <1>3, <2>3 DEF Replace
  <2>7. PICK f \in Frames : f = freeFrames[i].frameNumber
    <3>1. i \in 1 .. NFF
      BY <1>1, <1>3, <2>2, SuitableFrameIsListed, Sizes, ListTypes
    <3>2. QED
      BY <1>1, <3>1, ListTypes
  <2>8. pt'[c][v] = makeEntry(f)
    BY <1>4, <2>6, <2>7
  <2>9. pt'[c][victim] = invalidate(pt[c][victim])
    BY <1>4, <2>4, <2>5, <2>6
  <2>10. \A p \in Procs, page \in Pages : p # c \/ page # v =>
            pt'[p][page] = pt[p][page] \/ ~ isValid(p, page)'
    <3>1. ~ isValid(c, victim)'
      <4>1. pt[c][victim] \in Entries
        BY <1>4, <2>4
      <4>2. QED
        BY <2>9, <4>1, EntryOperations DEF isValid
    <3>2. TAKE p \in Procs, page \in Pages
    <3>3. p # c => pt'[p][page] = pt[p][page]
      BY <1>4, <2>6
    <3>4. p = c /\ page # v /\ page # victim => pt'[p][page] = pt[p][page]
      BY <1>4, <2>4, <2>6
    <3>5. QED
      BY <3>1, <3>3, <3>4
  <2>11. QED
    BY <1>2, <1>3, <2>3, <2>8, <2>10, AccessKeepsHistory
<1>8. QED
  BY <1>5, <1>6, <1>7

\* So does the end of a search.
LEMMA EndSearchKeepsHistory == Inv /\ HistoryInv /\ EndSearch => HistoryInv'
<1>. SUFFICES ASSUME Inv, HistoryInv, EndSearch PROVE HistoryInv'
  OBVIOUS
<1>1. TypeOK
  BY DEF Inv
<1>2. PICK c \in Procs : c = current
  BY <1>1 DEF TypeOK
<1>3. PICK table : table = updatePageHistory(pt[c])
  OBVIOUS
<1>4. /\ pt \in [Procs -> [Pages -> Entries]] /\ currentSearch \in [Procs -> 0 .. m]
      /\ \A page \in Pages : table[page] = IF pt[c][page].valid THEN Aged(pt[c][page]) ELSE pt[c][page]
  BY <1>1, <1>3 DEF TypeOK, updatePageHistory
<1>5. /\ uses' = uses
      /\ currentSearch' = [currentSearch EXCEPT ![c] = @ + 1]
  BY <1>2 DEF EndSearch
<1>6. PICK emptied : emptied = [page \in Pages |-> IF table[page].valid THEN invalidate(table[page]) ELSE table[page]]
  OBVIOUS
<1>7. pt' = [pt EXCEPT ![c] = emptied] \/ pt' = [pt EXCEPT ![c] = table]
  BY <1>2, <1>3, <1>6 DEF EndSearch
<1>8. SUFFICES ASSUME NEW p \in Procs, NEW page \in Pages, InMemory(p, page)' PROVE HistoryOf(p, page)'
  BY DEF HistoryInv
<1>9. page \notin Essential /\ pt'[p][page].valid
  BY <1>8 DEF InMemory, isValid
<1>10. CASE p # c
  <2>1. pt'[p][page] = pt[p][page] /\ currentSearch'[p] = currentSearch[p]
    BY <1>4, <1>5, <1>7, <1>10
  <2>2. HistoryOf(p, page)
    BY <1>9, <2>1 DEF HistoryInv, InMemory, isValid
  <2>3. QED
    BY <1>5, <2>1, <2>2, SameHistory
<1>11. CASE p = c
  <2>1. table[page] \in Entries
    <3>1. pt[c][page] \in Entries
      BY <1>4
    <3>2. QED
      BY <1>4, <3>1, EntryOperations
  <2>2. ~ emptied[page].valid
    BY <1>6, <2>1, EntryOperations
  <2>3. pt'[p][page] = table[page]
    <3>1. pt'[p][page] = emptied[page] \/ pt'[p][page] = table[page]
      BY <1>4, <1>7, <1>11
    <3>2. QED
      BY <1>9, <2>2, <3>1
  <2>4. pt[c][page].valid
    BY <1>4, <1>9, <2>3
  <2>5. pt'[p][page] = Aged(pt[p][page])
    BY <1>4, <1>11, <2>3, <2>4
  <2>6. HistoryOf(p, page)
    BY <1>9, <1>11, <2>4 DEF HistoryInv, InMemory, isValid
  <2>7. currentSearch'[p] = currentSearch[p] + 1
    BY <1>4, <1>5, <1>11
  <2>8. QED
    BY <1>1, <1>5, <2>5, <2>6, <2>7, HistoryOfAged
<1>12. QED
  BY <1>10, <1>11

\* And the other steps, which load essential pages only.
LEMMA OthersKeepHistory ==
  Inv /\ HistoryInv /\ (allocateEssentialPages \/ Turn \/ NoVictim \/ Finish \/ UNCHANGED vars) => HistoryInv'
<1>. SUFFICES ASSUME Inv, HistoryInv, allocateEssentialPages \/ Turn \/ NoVictim \/ Finish \/ UNCHANGED vars
              PROVE HistoryInv'
  OBVIOUS
<1>1. TypeOK
  BY DEF Inv
<1>2. uses' = uses /\ currentSearch' = currentSearch
  BY DEF allocateEssentialPages, Turn, NoVictim, Finish, vars
<1>3. \A p \in Procs, page \in Pages : page \notin Essential => pt'[p][page] = pt[p][page]
  <2>1. CASE allocateEssentialPages
    <3>1. PICK f : f = freeFrames
      OBVIOUS
    <3>2. PICK l : l = loaded
      OBVIOUS
    <3>3. pt' = [pt EXCEPT ![l] = [page \in Pages |->
                  IF page \in Essential THEN makeEntry(f[page + 1].frameNumber) ELSE @[page]]]
      BY <2>1, <3>1, <3>2 DEF allocateEssentialPages
    <3>4. pt \in [Procs -> [Pages -> Entries]]
      BY <1>1 DEF TypeOK
    <3>5. QED
      BY <3>3, <3>4
  <2>2. CASE Turn \/ NoVictim \/ Finish \/ UNCHANGED vars
    BY <2>2 DEF Turn, NoVictim, Finish, vars
  <2>3. QED
    BY <2>1, <2>2
<1>4. SUFFICES ASSUME NEW p \in Procs, NEW page \in Pages, InMemory(p, page)' PROVE HistoryOf(p, page)'
  BY DEF HistoryInv
<1>5. page \notin Essential /\ pt'[p][page] = pt[p][page]
  BY <1>3, <1>4 DEF InMemory
<1>6. HistoryOf(p, page)
  BY <1>4, <1>5 DEF InMemory, isValid, HistoryInv
<1>7. QED
  BY <1>2, <1>5, <1>6, SameHistory

\* In every reachable state the histories tell of the uses.
LEMMA HistoryAlways == Spec => [](Inv /\ HistoryInv)
<1>1. Init => HistoryInv
  <2>1. Init => \A p \in Procs, page \in Pages : ~ isValid(p, page)
    BY DEF Init, isValid, Absent
  <2>2. QED
    BY <2>1 DEF HistoryInv, InMemory
<1>2. Inv /\ HistoryInv /\ [Next]_vars => HistoryInv'
  BY AccessesKeepHistory, EndSearchKeepsHistory, OthersKeepHistory DEF Next
<1>3. QED
  BY <1>1, <1>2, InvAlways, PTL DEF Spec

\* What the histories say of two pages in memory, the first older than a new page
\* and no younger than the second or the second as good as new.
LEMMA OlderIsUnusedLonger ==
  ASSUME Inv, HistoryInv, NEW p \in Procs, NEW page \in Pages, NEW other \in Pages,
         InMemory(p, page), InMemory(p, other), pt[p][page].history < Newest,
         pt[p][page].history <= pt[p][other].history
  PROVE  /\ Earlier(p, page) # Min(uses[p][page]) .. currentSearch[p] - 1
         /\ Unused(p, other) <= Unused(p, page) \/ Unused(p, page) > BITS
<1>1. PICK c \in Nat : c = currentSearch[p]
  BY SearchNumbers DEF Inv
<1>2. PICK U \in SUBSET Nat, V \in SUBSET Nat : U = uses[p][page] /\ V = uses[p][other]
  BY SearchNumbers DEF Inv
<1>3. PICK h \in Nat, g \in Nat : /\ h = pt[p][page].history /\ g = pt[p][other].history
                                  /\ h < Newest /\ h <= g
  BY ListTypes DEF Inv
<1>4. /\ U # {} /\ V # {} /\ \A u \in U : u <= c
      /\ \A k \in 1 .. BITS : UsedWithin(p, page, k) <=> h >= Weight[BITS - k]
      /\ \A k \in 1 .. BITS : UsedWithin(p, other, k) <=> g >= Weight[BITS - k]
      /\ ~ UsedByAll(p, page)
  <2>1. HistoryOf(p, page) /\ HistoryOf(p, other)
    BY DEF HistoryInv
  <2>2. h # Newest
    BY <1>3, BitWeights
  <2>3. QED
    BY <1>1, <1>2, <1>3, <2>1, <2>2 DEF HistoryOf
<1>. DEFINE E == U \cap 0 .. c - 1
            F == V \cap 0 .. c - 1
<1>5. E = Earlier(p, page) /\ F = Earlier(p, other)
  BY <1>1, <1>2 DEF Earlier
<1>6. E # Min(U) .. c - 1
  <2>1. SUFFICES ASSUME E = Min(U) .. c - 1 PROVE UsedByAll(p, page)
    BY <1>4
  <2>2. Min(U) \in U /\ \A u \in U : Min(U) <= u
    BY <1>2, <1>4, LeastNumber
  <2>3. \A u \in U, t \in Nat : u <= t /\ t < c => t \in U
    <3>1. TAKE u \in U, t \in Nat
    <3>2. Min(U) \in Nat /\ Min(U) <= u /\ u \in Nat
      BY <2>2
    <3>3. u <= t /\ t < c => t \in E
      BY <1>1, <2>1, <3>2
    <3>4. QED
      BY <3>3
  <2>4. QED
    BY <1>1, <1>2, <2>3 DEF UsedByAll
<1>7. E # {}
  <2>1. SUFFICES ASSUME E = {} PROVE FALSE
    OBVIOUS
  <2>2. UsedByAll(p, page)
    <3>1. \A u \in U : u = c
      BY <1>1, <1>4, <2>1
    <3>2. \A u \in U, t \in Nat : u <= t /\ t < c => t \in U
      BY <1>1, <3>1
    <3>3. QED
      BY <1>1, <1>2, <3>2 DEF UsedByAll
  <2>3. QED
    BY <1>4, <2>2
<1>8. Max(E) \in E /\ \A u \in E : u <= Max(E)
  BY <1>1, <1>7, GreatestOfRange
<1>9. PICK k \in Nat : k = c - Max(E) /\ k >= 1 /\ k = Unused(p, page)
  <2>1. Max(E) \in 0 .. c - 1
    BY <1>8
  <2>2. Unused(p, page) = c - Max(E)
    BY <1>1, <1>5, <1>7 DEF Unused
  <2>3. c - Max(E) \in Nat /\ c - Max(E) >= 1
    BY <1>1, <2>1
  <2>4. QED
    BY <2>2, <2>3
<1>10. CASE k > BITS
  BY <1>1, <1>2, <1>5, <1>6, <1>9, <1>10
<1>11. CASE k <= BITS
  <2>1. k \in 1 .. BITS
    BY <1>9, <1>11, BitWeights
  <2>2. UsedWithin(p, page, k)
    <3>1. Max(E) \in Earlier(p, page) /\ c - k <= Max(E)
      BY <1>1, <1>5, <1>8, <1>9
    <3>2. QED
      BY <1>1, <3>1 DEF UsedWithin
  <2>3. UsedWithin(p, other, k)
    <3>1. Weight[BITS - k] \in Nat
      <4>1. BITS - k \in 0 .. BITS
        BY <2>1, BitWeights
      <4>2. QED
        BY <4>1, BitWeights
    <3>2. h >= Weight[BITS - k]
      BY <1>4, <2>1, <2>2
    <3>3. g >= Weight[BITS - k]
      BY <1>3, <3>1, <3>2
    <3>4. QED
      BY <1>4, <2>1, <3>3
  <2>4. Unused(p, other) <= k
    <3>1. CASE F = {}
      <4>1. Unused(p, other) = 0
        BY <1>5, <3>1 DEF Unused
      <4>2. QED
        BY <4>1
    <3>2. CASE F # {}
      <4>1. Max(F) \in F /\ \A u \in F : u <= Max(F)
        BY <1>1, <3>2, GreatestOfRange
      <4>2. PICK u \in F : c - k <= u
        BY <1>1, <1>5, <2>3, <3>2 DEF UsedWithin
      <4>3. Max(F) \in Nat /\ u \in Nat /\ u <= Max(F)
        BY <4>1, <4>2
      <4>4. Unused(p, other) = c - Max(F)
        BY <1>1, <1>5, <3>2 DEF Unused
      <4>5. QED
        BY <1>1, <1>9, <4>2, <4>3, <4>4
    <3>3. QED
      BY <3>1, <3>2
  <2>5. QED
    BY <1>1, <1>2, <1>5, <1>6, <1>9, <2>4
<1>12. QED
  BY <1>9, <1>10, <1>11, BitWeights

\* The page that LRU.c replaces is no essential page, has sat out a whole search,
\* and was unused at least as long as every other array page of its process, as
\* far back as the bits of a history reach: for any sizes, keys and width.
THEOREM AlwaysEvictsLeastRecentlyUsed == Spec => EvictsLeastRecentlyUsed
<1>. DEFINE Good == \A p \in Procs, page \in Pages : Evicted(p, page) =>
       /\ page \notin Essential
       /\ Earlier(p, page) # Min(uses[p][page]) .. currentSearch[p] - 1
       /\ \A other \in Pages \ Essential :
            isValid(p, other) => Unused(p, other) <= Unused(p, page) \/ Unused(p, page) > BITS
<1>1. ASSUME Inv, HistoryInv, [Next]_vars
      PROVE  Good
  <2>1. SUFFICES ASSUME NEW p \in Procs, NEW page \in Pages, Evicted(p, page)
                 PROVE  /\ page \notin Essential
                        /\ Earlier(p, page) # Min(uses[p][page]) .. currentSearch[p] - 1
                        /\ \A other \in Pages \ Essential :
                             isValid(p, other) => Unused(p, other) <= Unused(p, page) \/ Unused(p, page) > BITS
    OBVIOUS
  <2>2. TypeOK /\ SearchInv /\ NFF >= NFFMIN
    BY <1>1 DEF Inv
  <2>3. isValid(p, page) /\ ~ isValid(p, page)' /\ status' = "search"
    BY <2>1 DEF Evicted
  <2>4. pt \in [Procs -> [Pages -> Entries]]
    BY <2>2 DEF TypeOK
  <2>5. PICK c, v : c = current /\ v = vpage /\ c \in Procs
    BY <2>2 DEF TypeOK
  <2>6. ~ (allocateEssentialPages \/ Turn \/ NoVictim \/ EndSearch \/ Finish \/ UNCHANGED vars)
    <3>1. ~ (Turn \/ NoVictim \/ EndSearch \/ Finish \/ UNCHANGED vars)
      BY <2>3 DEF Turn, NoVictim, EndSearch, Finish, vars, isValid
    <3>2. ~ allocateEssentialPages
      BY <2>3 DEF allocateEssentialPages
    <3>3. QED
      BY <3>1, <3>2
  <2>7. ~ Hit
    <3>1. SUFFICES ASSUME Hit PROVE FALSE
      OBVIOUS
    <3>2. v \in Pages
      BY <2>2, <2>5, <3>1, Reading DEF Hit
    <3>3. pt' = [pt EXCEPT ![c][v].ref = TRUE]
      BY <2>5, <3>1 DEF Hit
    <3>4. pt'[p][page] = pt[p][page] \/ pt'[p][page] = [pt[p][page] EXCEPT !.ref = TRUE]
      BY <2>4, <3>2, <3>3
    <3>5. pt[p][page] \in Entries
      BY <2>4
    <3>6. pt'[p][page].valid = pt[p][page].valid
      BY <3>4, <3>5 DEF Entries
    <3>7. QED
      BY <2>3, <3>6 DEF isValid
  <2>8. ~ AllocateFrame
    <3>1. SUFFICES ASSUME AllocateFrame PROVE FALSE
      OBVIOUS
    <3>2. v \in Pages
      BY <2>2, <2>5, <3>1, Reading DEF AllocateFrame, Fault
    <3>3. PICK f : f = freeFrames[1].frameNumber
      OBVIOUS
    <3>4. pt' = [pt EXCEPT ![c][v] = makeEntry(f)]
      BY <2>5, <3>1, <3>3 DEF AllocateFrame
    <3>5. pt'[p][page] = pt[p][page] \/ pt'[p][page] = makeEntry(f)
      BY <2>4, <3>2, <3>4
    <3>6. QED
      BY <2>3, <3>5 DEF isValid, makeEntry
  <2>9. ReplacePage
    BY <1>1, <2>6, <2>7, <2>8 DEF Next
  <2>10. v \in Pages
    BY <2>2, <2>5, <2>9, Reading DEF ReplacePage, Fault
  <2>11. PICK victim : victim = findVictimPage(c)
    OBVIOUS
  <2>12. PICK i : i = findSuitableFrame(c, v)
    OBVIOUS
  <2>13. victim # NONE /\ Replace(victim, i)
    BY <2>5, <2>9, <2>11, <2>12 DEF ReplacePage
  <2>14. /\ victim \in Pages \ Essential /\ isValid(c, victim) /\ pt[c][victim].history < Newest
         /\ \A other \in Candidates(c) : pt[c][victim].history <= pt[c][other].history
    BY <2>2, <2>5, <2>11, <2>13, VictimIsValid, VictimIsOldest
  <2>15. PICK f : f = freeFrames[i].frameNumber
    OBVIOUS
  <2>16. pt' = [pt EXCEPT ![c][victim] = invalidate(@), ![c][v] = makeEntry(f)]
    BY <2>5, <2>13, <2>15 DEF Replace
  <2>17. p = c /\ page = victim
    <3>1. p # c => pt'[p][page] = pt[p][page]
      BY <2>4, <2>16
    <3>2. p = c /\ page # v /\ page # victim => pt'[p][page] = pt[p][page]
      BY <2>4, <2>14, <2>16
    <3>3. p = c /\ page = v => pt'[p][page] = makeEntry(f)
      BY <2>4, <2>16
    <3>4. QED
      BY <2>3, <3>1, <3>2, <3>3 DEF isValid, makeEntry
  <2>18. page \in Pages \ Essential /\ InMemory(p, page) /\ pt[p][page].history < Newest
    BY <2>14, <2>17 DEF InMemory
  <2>19. \A other \in Pages : InMemory(p, other) => pt[p][page].history <= pt[p][other].history
    <3>1. TAKE other \in Pages
    <3>2. other \in Candidates(c) => pt[p][page].history <= pt[p][other].history
      BY <2>14, <2>17
    <3>3. other \notin Candidates(c) /\ InMemory(p, other) => ~ (pt[p][other].history < Newest)
      BY <2>17 DEF InMemory, Candidates
    <3>4. pt[p][page].history \in Nat /\ pt[p][other].history \in Nat
      BY <2>2, ListTypes
    <3>5. QED
      BY <2>18, <3>2, <3>3, <3>4, BitWeights
  <2>20. Earlier(p, page) # Min(uses[p][page]) .. currentSearch[p] - 1
    <3>1. pt[p][page].history <= pt[p][page].history
      BY <2>18, <2>19
    <3>2. QED
      BY <1>1, <2>18, <3>1, OlderIsUnusedLonger
  <2>21. ASSUME NEW other \in Pages \ Essential, isValid(p, other)
         PROVE  Unused(p, other) <= Unused(p, page) \/ Unused(p, page) > BITS
    <3>1. InMemory(p, other)
      BY <2>21 DEF InMemory
    <3>2. pt[p][page].history <= pt[p][other].history
      BY <2>19, <3>1
    <3>3. QED
      BY <1>1, <2>18, <3>1, <3>2, OlderIsUnusedLonger
  <2>22. QED
    BY <2>18, <2>20, <2>21
<1>2. [](Inv /\ HistoryInv) /\ [][Next]_vars => [][Good]_vars
  <2>1. Inv /\ HistoryInv /\ [Next]_vars => [Good]_vars
    BY <1>1
  <2>2. QED
    BY <2>1, PTL
<1>3. EvictsLeastRecentlyUsed <=> [][Good]_vars
  BY DEF EvictsLeastRecentlyUsed
<1>4. QED
  BY <1>2, <1>3, HistoryAlways, PTL DEF Spec

-----------------------------------------------------------------------------
(* The program of LA9, whose processes leave the memory and come back.  The  *)
(* constants are its own; the variables that mean the same are shared.       *)

CONSTANTS totalProcesses, Inputs, UserFrames, EssentialPages, IntsPerPage

VARIABLES input, readyQ, swappedQ, activeProcesses, completedCount, search

LA9 == INSTANCE DemandPaging WITH
  USER_FRAMES <- UserFrames, ESSENTIAL_PAGES <- EssentialPages, INTS_PER_PAGE <- IntsPerPage

\* Each of the frames is in the list or in one of the tables, once.
Placed(frames, tables) ==
  /\ frames \in Seq(LA9!Frames)
  /\ DOMAIN tables = LA9!Procs
  /\ \A p \in LA9!Procs :
       /\ DOMAIN tables[p] \in SUBSET Nat /\ IsFiniteSet(DOMAIN tables[p])
       /\ \A a \in DOMAIN tables[p] : tables[p][a] \in LA9!Frames
  /\ \A i, j \in 1 .. Len(frames) : frames[i] = frames[j] => i = j
  /\ \A p, q \in LA9!Procs : \A a \in DOMAIN tables[p], b \in DOMAIN tables[q] :
       tables[p][a] = tables[q][b] => p = q /\ a = b
  /\ \A p \in LA9!Procs : \A a \in DOMAIN tables[p] : \A i \in 1 .. Len(frames) : frames[i] # tables[p][a]
  /\ \A f \in LA9!Frames : \/ \E i \in 1 .. Len(frames) : frames[i] = f
                           \/ \E p \in LA9!Procs : \E a \in DOMAIN tables[p] : tables[p][a] = f

\* Only process p's table changes, to one with these pages.
OnlyTable(p, tables, tables2, pages) ==
  /\ DOMAIN tables2 = LA9!Procs
  /\ \A q \in LA9!Procs : q # p => tables2[q] = tables[q]
  /\ DOMAIN tables2[p] = pages

\* Frames from the end of the list go to new pages of a process.
LEMMA FramesTaken ==
  ASSUME NEW frames, NEW tables, Placed(frames, tables), NEW p \in LA9!Procs,
         NEW k \in 0 .. Len(frames), NEW New \in SUBSET Nat, IsFiniteSet(New),
         New \cap DOMAIN tables[p] = {},
         NEW g \in [New -> k + 1 .. Len(frames)],
         \A x, y \in New : g[x] = g[y] => x = y,
         \A i \in k + 1 .. Len(frames) : \E x \in New : g[x] = i,
         NEW tables2, OnlyTable(p, tables, tables2, DOMAIN tables[p] \cup New),
         \A x \in New : tables2[p][x] = frames[g[x]],
         \A x \in DOMAIN tables[p] : tables2[p][x] = tables[p][x]
  PROVE  Placed(SubSeq(frames, 1, k), tables2)
<1>. DEFINE rest == SubSeq(frames, 1, k)
            P == LA9!Procs
            F == LA9!Frames
            Old == DOMAIN tables[p]
            T(z) == DOMAIN tables[z]
            T2(z) == DOMAIN tables2[z]
<1>1. /\ frames \in Seq(F) /\ Len(frames) \in Nat /\ DOMAIN tables = P
      /\ \A q \in P : /\ T(q) \in SUBSET Nat /\ IsFiniteSet(T(q))
                      /\ \A a \in T(q) : tables[q][a] \in F
  <2>1. frames \in Seq(F)
    BY DEF Placed
  <2>2. QED
    BY <2>1 DEF Placed
<1>a. \A i, j \in 1 .. Len(frames) : frames[i] = frames[j] => i = j
  BY DEF Placed
<1>b. \A q, r \in P : \A a \in T(q), b \in T(r) : tables[q][a] = tables[r][b] => q = r /\ a = b
  BY DEF Placed
<1>c. \A q \in P : \A a \in T(q) : \A i \in 1 .. Len(frames) : frames[i] # tables[q][a]
  BY DEF Placed
<1>d. \A f \in F : \/ \E i \in 1 .. Len(frames) : frames[i] = f
                   \/ \E q \in P : \E a \in T(q) : tables[q][a] = f
  BY DEF Placed
<1>2. /\ DOMAIN tables2 = P /\ T2(p) = Old \cup New
      /\ \A q \in P : q # p => tables2[q] = tables[q] /\ T2(q) = T(q)
  BY DEF OnlyTable
<1>3. rest \in Seq(F) /\ Len(rest) = k /\ \A i \in 1 .. k : rest[i] = frames[i] /\ i \in 1 .. Len(frames)
  <2>1. k \in Nat /\ k <= Len(frames)
    BY <1>1
  <2>2. QED
    BY <1>1, <2>1
<1>4. \A x \in New : g[x] \in 1 .. Len(frames) /\ g[x] > k
  BY <1>1
<1>5. \A q \in P : \A a \in T2(q) : \/ a \in T(q) /\ tables2[q][a] = tables[q][a]
                                    \/ q = p /\ a \in New /\ tables2[q][a] = frames[g[a]]
  <2>1. TAKE q \in P
  <2>2. CASE q = p
    BY <1>2, <2>2
  <2>3. CASE q # p
    BY <1>2, <2>3
  <2>4. QED
    BY <2>2, <2>3
<1>6. \A q \in P : T2(q) \in SUBSET Nat /\ IsFiniteSet(T2(q))
  <2>1. IsFiniteSet(Old \cup New)
    BY <1>1, FS_Union
  <2>2. QED
    BY <1>1, <1>2, <2>1
<1>7. \A q \in P : \A a \in T2(q) : tables2[q][a] \in F
  <2>1. \A i \in 1 .. Len(frames) : frames[i] \in F
    BY <1>1
  <2>2. QED
    <3>1. TAKE q \in P
    <3>2. TAKE a \in T2(q)
    <3>3. CASE a \in T(q) /\ tables2[q][a] = tables[q][a]
      BY <1>1, <3>3
    <3>4. CASE q = p /\ a \in New /\ tables2[q][a] = frames[g[a]]
      BY <1>4, <2>1, <3>4
    <3>5. QED
      BY <1>5, <3>3, <3>4
<1>8. \A i, j \in 1 .. Len(rest) : rest[i] = rest[j] => i = j
  BY <1>3, <1>a
<1>9. \A q, r \in P : \A a \in T2(q), b \in T2(r) : tables2[q][a] = tables2[r][b] => q = r /\ a = b
  <2>1. TAKE q, r \in P
  <2>2. TAKE a \in T2(q), b \in T2(r)
  <2>3. CASE a \in T(q) /\ tables2[q][a] = tables[q][a] /\ b \in T(r) /\ tables2[r][b] = tables[r][b]
    <3>1. tables[q][a] = tables[r][b] => q = r /\ a = b
      <4>1. a \in T(q) /\ b \in T(r)
        BY <2>3
      <4>2. \A x \in T(q), y \in T(r) : tables[q][x] = tables[r][y] => q = r /\ x = y
        BY <1>b
      <4>3. QED
        BY <4>1, <4>2
    <3>2. QED
      BY <2>3, <3>1
  <2>4. CASE a \in T(q) /\ tables2[q][a] = tables[q][a] /\ r = p /\ b \in New /\ tables2[r][b] = frames[g[b]]
    <3>1. g[b] \in 1 .. Len(frames)
      BY <1>4, <2>4
    <3>2. frames[g[b]] # tables[q][a]
      <4>1. a \in T(q)
        BY <2>4
      <4>2. \A x \in T(q) : \A i \in 1 .. Len(frames) : frames[i] # tables[q][x]
        BY <1>c
      <4>3. QED
        BY <3>1, <4>1, <4>2
    <3>3. QED
      BY <2>4, <3>2
  <2>5. CASE q = p /\ a \in New /\ tables2[q][a] = frames[g[a]] /\ b \in T(r) /\ tables2[r][b] = tables[r][b]
    BY <1>4, <1>c, <2>5
  <2>6. CASE /\ q = p /\ a \in New /\ tables2[q][a] = frames[g[a]]
             /\ r = p /\ b \in New /\ tables2[r][b] = frames[g[b]]
    BY <1>4, <1>a, <2>6
  <2>7. QED
    BY <1>5, <2>3, <2>4, <2>5, <2>6
<1>10. \A q \in P : \A a \in T2(q) : \A i \in 1 .. Len(rest) : rest[i] # tables2[q][a]
  <2>1. TAKE q \in P
  <2>2. TAKE a \in T2(q)
  <2>3. TAKE i \in 1 .. Len(rest)
  <2>4. i \in 1 .. Len(frames) /\ rest[i] = frames[i] /\ i <= k
    BY <1>3
  <2>5. CASE a \in T(q) /\ tables2[q][a] = tables[q][a]
    BY <1>c, <2>4, <2>5
  <2>6. CASE q = p /\ a \in New /\ tables2[q][a] = frames[g[a]]
    <3>1. g[a] \in 1 .. Len(frames) /\ g[a] > k
      BY <1>4, <2>6
    <3>2. g[a] # i
      BY <2>4, <3>1
    <3>3. QED
      BY <1>a, <2>4, <2>6, <3>1, <3>2
  <2>7. QED
    BY <1>5, <2>5, <2>6
<1>11. \A f \in F : \/ \E i \in 1 .. Len(rest) : rest[i] = f
                    \/ \E q \in P : \E a \in T2(q) : tables2[q][a] = f
  <2>1. TAKE f \in F
  <2>2. ASSUME NEW i \in 1 .. Len(frames), frames[i] = f, i > k
        PROVE  \E a \in T2(p) : tables2[p][a] = f
    <3>1. i \in k + 1 .. Len(frames)
      BY <1>1, <2>2
    <3>2. PICK x \in New : g[x] = i
      BY <3>1
    <3>3. QED
      BY <1>2, <2>2, <3>2
  <2>3. ASSUME NEW i \in 1 .. Len(frames), frames[i] = f, ~ (i > k)
        PROVE  \E j \in 1 .. Len(rest) : rest[j] = f
    <3>1. i \in 1 .. k
      BY <1>1, <2>3
    <3>2. QED
      BY <1>3, <2>3, <3>1
  <2>4. ASSUME NEW q \in P, NEW a \in T(q), tables[q][a] = f
        PROVE  a \in T2(q) /\ tables2[q][a] = f
    <3>1. CASE q = p
      BY <1>2, <2>4, <3>1
    <3>2. CASE q # p
      BY <1>2, <2>4, <3>2
    <3>3. QED
      BY <3>1, <3>2
  <2>5. CASE \E i \in 1 .. Len(frames) : frames[i] = f
    BY <2>2, <2>3, <2>5
  <2>6. CASE \E q \in P : \E a \in T(q) : tables[q][a] = f
    BY <2>4, <2>6
  <2>7. QED
    BY <1>d, <2>5, <2>6
<1>12. QED
  BY <1>2, <1>3, <1>6, <1>7, <1>8, <1>9, <1>10, <1>11 DEF Placed

\* A process gives back the frames of all its pages.
LEMMA FramesReturned ==
  ASSUME NEW frames, NEW tables, Placed(frames, tables), NEW p \in LA9!Procs,
         NEW tables2, OnlyTable(p, tables, tables2, {}),
         NEW N \in Nat, NEW page \in [1 .. N -> DOMAIN tables[p]],
         \A i, j \in 1 .. N : page[i] = page[j] => i = j,
         \A x \in DOMAIN tables[p] : \E i \in 1 .. N : page[i] = x
  PROVE  Placed(frames \o [i \in 1 .. N |-> tables[p][page[i]]], tables2)
<1>. DEFINE given == [i \in 1 .. N |-> tables[p][page[i]]]
            all == frames \o given
            P == LA9!Procs
            F == LA9!Frames
            T(z) == DOMAIN tables[z]
            T2(z) == DOMAIN tables2[z]
            k == Len(frames)
<1>1. /\ frames \in Seq(F) /\ k \in Nat /\ DOMAIN tables = P
      /\ \A q \in P : /\ T(q) \in SUBSET Nat /\ IsFiniteSet(T(q))
                      /\ \A a \in T(q) : tables[q][a] \in F
  <2>1. frames \in Seq(F)
    BY DEF Placed
  <2>2. QED
    BY <2>1 DEF Placed
<1>a. \A i, j \in 1 .. k : frames[i] = frames[j] => i = j
  BY DEF Placed
<1>b. \A q, r \in P : \A a \in T(q), b \in T(r) : tables[q][a] = tables[r][b] => q = r /\ a = b
  BY DEF Placed
<1>c. \A q \in P : \A a \in T(q) : \A i \in 1 .. k : frames[i] # tables[q][a]
  BY DEF Placed
<1>d. \A f \in F : \/ \E i \in 1 .. k : frames[i] = f
                   \/ \E q \in P : \E a \in T(q) : tables[q][a] = f
  BY DEF Placed
<1>2. /\ DOMAIN tables2 = P /\ T2(p) = {}
      /\ \A q \in P : q # p => tables2[q] = tables[q] /\ T2(q) = T(q)
  BY DEF OnlyTable
<1>3. \A i \in 1 .. N : page[i] \in T(p) /\ given[i] = tables[p][page[i]] /\ given[i] \in F
  BY <1>1
<1>4. given \in Seq(F) /\ Len(given) = N
  <2>1. given \in [1 .. N -> F]
    BY <1>3
  <2>2. QED
    BY <2>1
<1>. HIDE DEF given
<1>5. /\ all \in Seq(F) /\ Len(all) = k + N
      /\ \A i \in 1 .. k : all[i] = frames[i] /\ i \in 1 .. Len(all)
      /\ \A i \in 1 .. N : all[k + i] = given[i] /\ k + i \in 1 .. Len(all)
      /\ \A i \in 1 .. Len(all) : i \notin 1 .. k => i - k \in 1 .. N /\ k + (i - k) = i
  <2>. HIDE DEF F
  <2>1. all \in Seq(F) /\ Len(all) = k + N
    BY <1>1, <1>4
  <2>2. \A i \in 1 .. k : all[i] = frames[i]
    BY <1>1, <1>4
  <2>3. \A i \in 1 .. N : all[k + i] = given[i]
    <3>1. TAKE i \in 1 .. N
    <3>2. k + i \in 1 .. Len(frames) + Len(given) /\ ~ (k + i <= Len(frames)) /\ (k + i) - Len(frames) = i
      BY <1>1, <1>4
    <3>3. QED
      BY <1>1, <1>4, <3>2
  <2>4. QED
    BY <1>1, <2>1, <2>2, <2>3
<1>. HIDE DEF all
<1>6. \A i \in 1 .. Len(all) : \/ i \in 1 .. k /\ all[i] = frames[i]
                               \/ i - k \in 1 .. N /\ all[i] = tables[p][page[i - k]]
  <2>1. TAKE i \in 1 .. Len(all)
  <2>2. CASE i \in 1 .. k
    BY <1>5, <2>2
  <2>3. CASE i \notin 1 .. k
    <3>1. i - k \in 1 .. N /\ k + (i - k) = i
      BY <1>5, <2>3
    <3>2. all[k + (i - k)] = given[i - k]
      BY <1>5, <3>1
    <3>3. QED
      BY <1>3, <3>1, <3>2
  <2>4. QED
    BY <2>2, <2>3
<1>7. \A i, j \in 1 .. Len(all) : all[i] = all[j] => i = j
  <2>1. TAKE i, j \in 1 .. Len(all)
  <2>2. HAVE all[i] = all[j]
  <2>3. CASE i \in 1 .. k /\ all[i] = frames[i] /\ j \in 1 .. k /\ all[j] = frames[j]
    BY <1>a, <2>2, <2>3
  <2>4. CASE /\ i \in 1 .. k /\ all[i] = frames[i]
             /\ j - k \in 1 .. N /\ all[j] = tables[p][page[j - k]]
    <3>1. page[j - k] \in T(p)
      BY <1>3, <2>4
    <3>2. frames[i] # tables[p][page[j - k]]
      <4>1. p \in P
        OBVIOUS
      <4>2. \A z \in T(p) : \A x \in 1 .. k : frames[x] # tables[p][z]
        BY <1>c, <4>1
      <4>5. i \in 1 .. k
        BY <2>4
      <4>3. \A x \in 1 .. k : frames[x] # tables[p][page[j - k]]
        BY <4>2, <3>1
      <4>4. QED
        BY <4>3, <4>5
    <3>3. QED
      BY <2>2, <2>4, <3>2
  <2>5. CASE /\ j \in 1 .. k /\ all[j] = frames[j]
             /\ i - k \in 1 .. N /\ all[i] = tables[p][page[i - k]]
    BY <1>3, <1>c, <2>2, <2>5
  <2>6. CASE /\ i - k \in 1 .. N /\ all[i] = tables[p][page[i - k]]
             /\ j - k \in 1 .. N /\ all[j] = tables[p][page[j - k]]
    <3>1. page[i - k] = page[j - k]
      <4>1. page[i - k] \in T(p) /\ page[j - k] \in T(p)
        BY <1>3, <2>6
      <4>2. tables[p][page[i - k]] = tables[p][page[j - k]]
        BY <2>2, <2>6
      <4>3. QED
        <5>1. \A x, y \in T(p) : tables[p][x] = tables[p][y] => x = y
          BY <1>b
        <5>2. QED
          BY <4>1, <4>2, <5>1
    <3>2. i - k = j - k
      BY <2>6, <3>1
    <3>3. i \in Int /\ j \in Int
      OBVIOUS
    <3>4. QED
      BY <1>1, <3>2, <3>3
  <2>7. QED
    BY <1>6, <2>3, <2>4, <2>5, <2>6
<1>8. \A q, r \in P : \A a \in T2(q), b \in T2(r) : tables2[q][a] = tables2[r][b] => q = r /\ a = b
  <2>1. TAKE q, r \in P
  <2>2. TAKE a \in T2(q), b \in T2(r)
  <2>3. q # p /\ r # p
    BY <1>2
  <2>4. QED
    BY <1>2, <1>b, <2>3
<1>9. \A q \in P : \A a \in T2(q) : \A i \in 1 .. Len(all) : all[i] # tables2[q][a]
  <2>1. TAKE q \in P
  <2>2. TAKE a \in T2(q)
  <2>3. TAKE i \in 1 .. Len(all)
  <2>4. q # p /\ a \in T(q) /\ tables2[q][a] = tables[q][a]
    BY <1>2
  <2>5. QED
    <3>1. CASE i \in 1 .. k /\ all[i] = frames[i]
      BY <1>c, <2>4, <3>1
    <3>2. CASE i - k \in 1 .. N /\ all[i] = tables[p][page[i - k]]
      BY <1>3, <1>b, <2>4, <3>2
    <3>3. QED
      BY <1>6, <3>1, <3>2
<1>10. \A f \in F : \/ \E i \in 1 .. Len(all) : all[i] = f
                    \/ \E q \in P : \E a \in T2(q) : tables2[q][a] = f
  <2>1. TAKE f \in F
  <2>2. CASE \E i \in 1 .. k : frames[i] = f
    BY <1>5, <2>2
  <2>3. ASSUME NEW q \in P, NEW a \in T(q), tables[q][a] = f, q = p
        PROVE  \E i \in 1 .. Len(all) : all[i] = f
    <3>1. PICK i \in 1 .. N : page[i] = a
      BY <2>3
    <3>2. all[k + i] = f /\ k + i \in 1 .. Len(all)
      BY <1>3, <1>5, <2>3, <3>1
    <3>3. QED
      BY <3>2
  <2>4. ASSUME NEW q \in P, NEW a \in T(q), tables[q][a] = f, q # p
        PROVE  a \in T2(q) /\ tables2[q][a] = f
    BY <1>2, <2>4
  <2>5. QED
    BY <1>d, <2>2, <2>3, <2>4
<1>11. \A q \in P : /\ T2(q) \in SUBSET Nat /\ IsFiniteSet(T2(q))
                    /\ \A a \in T2(q) : tables2[q][a] \in F
  <2>1. TAKE q \in P
  <2>2. CASE q = p
    BY <1>2, <2>2, FS_EmptySet
  <2>3. CASE q # p
    BY <1>1, <1>2, <2>3
  <2>4. QED
    BY <2>2, <2>3
<1>12. DOMAIN tables2 = P /\ all \in Seq(F)
  BY <1>2, <1>5
<1>13. \A q \in P : \A a \in T2(q) : tables2[q][a] \in F
  BY <1>11
<1>14. Placed(all, tables2)
  BY <1>7, <1>8, <1>9, <1>10, <1>11, <1>12 DEF Placed
<1>15. QED
  BY <1>14 DEF all, given

-----------------------------------------------------------------------------
(* Who is in memory, and with which frames.                                  *)

\* These processes are in memory, with all essential pages, and the others own nothing.
Kept(frames, tables, present, active) ==
  /\ Placed(frames, tables)
  /\ present \in SUBSET LA9!Procs /\ active = Cardinality(present)
  /\ \A p \in present : LA9!Essential \subseteq DOMAIN tables[p]
  /\ \A p \in LA9!Procs \ present : tables[p] = LA9!NoPages

\* What LA9's assumptions say of its sizes.
LEMMA SizesOfLA9 ==
  ASSUME LA9!SizeAssumption, LA9!MemoryAssumption
  PROVE  /\ totalProcesses \in Nat /\ totalProcesses >= 1
         /\ EssentialPages \in Nat /\ EssentialPages >= 1
         /\ UserFrames \in Nat /\ UserFrames >= EssentialPages
         /\ UserFrames >= totalProcesses * EssentialPages
         /\ IsFiniteSet(LA9!Procs) /\ LA9!Procs \subseteq Nat /\ 0 \in LA9!Procs
         /\ IsFiniteSet(LA9!Essential) /\ LA9!Essential \in SUBSET Nat
         /\ Cardinality(LA9!Essential) = EssentialPages
         /\ \A a \in Nat : LA9!Page(a) \in Nat
         /\ \A I \in Inputs : \A p \in LA9!Procs : /\ I[p].s \in Nat /\ I[p].s >= 1
                                                   /\ Len(I[p].keys) \in Nat /\ Len(I[p].keys) >= 1
<1>1. /\ totalProcesses \in Nat \ {0} /\ EssentialPages \in Nat \ {0} /\ IntsPerPage \in Nat \ {0}
      /\ \A I \in Inputs : \A p \in LA9!Procs : LA9!IsProcess(I[p])
  BY DEF LA9!SizeAssumption
<1>2. UserFrames \in Nat /\ UserFrames >= totalProcesses * EssentialPages
  BY DEF LA9!MemoryAssumption
<1>3. UserFrames >= EssentialPages
  <2>1. PICK k \in Nat : totalProcesses = k + 1
    <3>1. totalProcesses - 1 \in Nat /\ totalProcesses = (totalProcesses - 1) + 1
      BY <1>1
    <3>2. QED
      BY <3>1
  <2>2. k * EssentialPages >= 0 /\ k * EssentialPages \in Nat
    BY <1>1
  <2>3. (k + 1) * EssentialPages = k * EssentialPages + EssentialPages
    BY <1>1
  <2>4. QED
    BY <1>1, <1>2, <2>1, <2>2, <2>3
<1>4. IsFiniteSet(LA9!Procs) /\ LA9!Procs \subseteq Nat /\ 0 \in LA9!Procs
  <2>1. IsFiniteSet(0 .. totalProcesses - 1)
    BY <1>1, FS_Interval
  <2>2. QED
    BY <1>1, <2>1 DEF LA9!Procs
<1>5. /\ IsFiniteSet(LA9!Essential) /\ LA9!Essential \in SUBSET Nat
      /\ Cardinality(LA9!Essential) = EssentialPages
  <2>1. /\ IsFiniteSet(0 .. EssentialPages - 1)
        /\ Cardinality(0 .. EssentialPages - 1) = EssentialPages
    BY <1>1, FS_Interval
  <2>2. QED
    BY <1>1, <2>1 DEF LA9!Essential
<1>6. \A a \in Nat : LA9!Page(a) \in Nat
  BY <1>1 DEF LA9!Page
<1>7. \A I \in Inputs : \A p \in LA9!Procs : /\ I[p].s \in Nat /\ I[p].s >= 1
                                             /\ Len(I[p].keys) \in Nat /\ Len(I[p].keys) >= 1
  <2>1. TAKE I \in Inputs
  <2>2. TAKE p \in LA9!Procs
  <2>3. I[p].s \in Nat \ {0} /\ I[p].keys # <<>> /\ I[p].keys \in Seq(0 .. I[p].s - 1)
    BY <1>1 DEF LA9!IsProcess
  <2>4. Len(I[p].keys) \in Nat /\ Len(I[p].keys) # 0
    BY <2>3, EmptySeq
  <2>5. QED
    BY <2>3, <2>4
<1>8. QED
  BY <1>1, <1>2, <1>3, <1>4, <1>5, <1>6, <1>7

\* DemandPaging counts as the modules here do.
LEMMA SameCardinality ==
  ASSUME NEW S
  PROVE  LA9!Cardinality(S) = Cardinality(S)
BY DEF LA9!Cardinality, Cardinality

\* When a process leaves the memory its frames are free, its essential pages' among them.
LEMMA Leaves ==
  ASSUME LA9!SizeAssumption, LA9!MemoryAssumption,
         NEW present, NEW active, Kept(freeFrames, pt, present, active), NEW p \in present
  PROVE  /\ Kept(LA9!freeProcessFrames(p), [pt EXCEPT ![p] = LA9!NoPages], present \ {p}, active - 1)
         /\ Len(LA9!freeProcessFrames(p)) >= EssentialPages
<1>. DEFINE D == DOMAIN pt[p]
            N == Cardinality(D)
            held == [i \in 1 .. N |-> InOrder(D)[i]]
            tables2 == [pt EXCEPT ![p] = LA9!NoPages]
            given == [i \in 1 .. N |-> pt[p][held[i]]]
<1>1. /\ Placed(freeFrames, pt) /\ present \in SUBSET LA9!Procs /\ active = Cardinality(present)
      /\ p \in LA9!Procs /\ LA9!Essential \subseteq D
      /\ \A q \in present : LA9!Essential \subseteq DOMAIN pt[q]
      /\ \A q \in LA9!Procs \ present : pt[q] = LA9!NoPages
  BY DEF Kept
<1>2. /\ D \in SUBSET Nat /\ IsFiniteSet(D) /\ DOMAIN pt = LA9!Procs
      /\ freeFrames \in Seq(LA9!Frames) /\ \A a \in D : pt[p][a] \in LA9!Frames
  BY <1>1 DEF Placed
<1>3. /\ N \in Nat /\ \A i \in 1 .. N : held[i] \in D
      /\ \A i, j \in 1 .. N : held[i] = held[j] => i = j
      /\ \A x \in D : \E i \in 1 .. N : held[i] = x
  <2>. HIDE DEF D
  <2>1. QED
    BY <1>2, InOrderIsAList
<1>4. held \in [1 .. N -> D]
  BY <1>3
<1>5. OnlyTable(p, pt, tables2, {})
  BY <1>1, <1>2 DEF OnlyTable, LA9!NoPages
<1>6. LA9!freeProcessFrames(p) = freeFrames \o given
  <2>1. LA9!FramesOf(p, D) = given
    <3>. HIDE DEF D
    <3>. DEFINE c(i) == CHOOSE page \in D : Cardinality({q \in D : q < page}) = i - 1
    <3>1. \A i \in 1 .. N : held[i] = c(i)
      BY DEF InOrder
    <3>2. LA9!FramesOf(p, D) = [i \in 1 .. N |-> pt[p][c(i)]]
      BY DEF LA9!FramesOf, LA9!Cardinality, Cardinality
    <3>. HIDE DEF c, held, N
    <3>3. QED
      BY <3>1, <3>2
  <2>2. QED
    BY <2>1 DEF LA9!freeProcessFrames
<1>7. Placed(freeFrames \o given, tables2)
  <2>. HIDE DEF D, N, held, tables2
  <2>1. QED
    BY <1>1, <1>3, <1>4, <1>5, FramesReturned DEF D, given
<1>8. Len(freeFrames \o given) >= EssentialPages
  <2>1. EssentialPages <= N /\ EssentialPages \in Nat
    <3>. HIDE DEF D
    <3>1. LA9!Essential \in SUBSET D
      BY <1>1
    <3>2. Cardinality(LA9!Essential) <= Cardinality(D)
      BY <1>2, <3>1, FS_Subset
    <3>3. QED
      BY <3>2, SizesOfLA9
  <2>2. given \in [1 .. N -> LA9!Frames]
    BY <1>2, <1>3
  <2>. HIDE DEF N, given
  <2>3. given \in Seq(LA9!Frames) /\ Len(given) = N
    BY <1>3, <2>2
  <2>4. Len(freeFrames \o given) = Len(freeFrames) + Len(given) /\ Len(freeFrames) \in Nat
    <3>1. freeFrames \in Seq(LA9!Frames)
      BY <1>2
    <3>2. QED
      BY <2>3, <3>1
  <2>5. QED
    BY <1>3, <2>1, <2>3, <2>4
<1>9. active - 1 = Cardinality(present \ {p})
  <2>1. IsFiniteSet(present)
    BY <1>1, FS_Subset, SizesOfLA9
  <2>2. QED
    BY <1>1, <2>1, FS_RemoveElement
<1>10. /\ \A q \in present \ {p} : LA9!Essential \subseteq DOMAIN tables2[q]
       /\ \A q \in LA9!Procs \ (present \ {p}) : tables2[q] = LA9!NoPages
  BY <1>1, <1>2
<1>11. Kept(freeFrames \o given, tables2, present \ {p}, active - 1)
  <2>. HIDE DEF given, tables2
  <2>1. QED
    BY <1>1, <1>7, <1>9, <1>10 DEF Kept
<1>12. QED
  BY <1>6, <1>8, <1>11

\* A process comes in with its essential pages if that many frames are free.
LEMMA Enters ==
  ASSUME LA9!SizeAssumption, LA9!MemoryAssumption,
         NEW frames, NEW tables, NEW present, NEW active, Kept(frames, tables, present, active),
         NEW p \in LA9!Procs \ present, Len(frames) >= EssentialPages
  PROVE  Kept(LA9!Untaken(frames), [tables EXCEPT ![p] = LA9!allocateEssentialPages(@, frames)],
              present \cup {p}, active + 1)
<1>. DEFINE E == LA9!Essential
            tables2 == [tables EXCEPT ![p] = LA9!allocateEssentialPages(@, frames)]
            k == Len(frames) - EssentialPages
            g == [vp \in E |-> Len(frames) - vp]
<1>1. /\ Placed(frames, tables) /\ present \in SUBSET LA9!Procs /\ active = Cardinality(present)
      /\ p \in LA9!Procs /\ tables[p] = LA9!NoPages
      /\ \A q \in present : E \subseteq DOMAIN tables[q]
      /\ \A q \in LA9!Procs \ present : tables[q] = LA9!NoPages
  BY DEF Kept
<1>2. frames \in Seq(LA9!Frames) /\ DOMAIN tables = LA9!Procs /\ Len(frames) \in Nat
  <2>1. frames \in Seq(LA9!Frames) /\ DOMAIN tables = LA9!Procs
    BY <1>1 DEF Placed
  <2>2. QED
    BY <2>1
<1>3. DOMAIN tables[p] = {}
  BY <1>1 DEF LA9!NoPages
<1>4. \A vp \in E : vp \in Nat /\ vp < EssentialPages /\ vp < Len(frames)
  <2>1. EssentialPages \in Nat
    BY SizesOfLA9
  <2>2. E = 0 .. EssentialPages - 1
    BY DEF LA9!Essential
  <2>3. QED
    BY <1>2, <2>1, <2>2
<1>5. tables2[p] = [vp \in E |-> frames[Len(frames) - vp]]
  <2>1. {vp \in E : vp < Len(frames)} = E
    BY <1>4
  <2>2. tables2[p] = LA9!allocateEssentialPages(tables[p], frames)
    BY <1>1, <1>2
  <2>3. LA9!allocateEssentialPages(tables[p], frames)
          = [q \in DOMAIN tables[p] \cup E |-> IF q \in E THEN frames[Len(frames) - q] ELSE tables[p][q]]
    BY <2>1 DEF LA9!allocateEssentialPages
  <2>4. DOMAIN tables[p] \cup E = E
    BY <1>3
  <2>5. QED
    BY <2>2, <2>3, <2>4
<1>6. /\ k \in 0 .. Len(frames) /\ g \in [E -> k + 1 .. Len(frames)]
      /\ \A x, y \in E : g[x] = g[y] => x = y
      /\ \A i \in k + 1 .. Len(frames) : \E x \in E : g[x] = i
  <2>1. k \in 0 .. Len(frames) /\ EssentialPages \in Nat
    BY <1>2, SizesOfLA9
  <2>2. \A x \in E : g[x] \in k + 1 .. Len(frames) /\ g[x] = Len(frames) - x
    BY <1>2, <1>4, <2>1
  <2>3. \A x, y \in E : g[x] = g[y] => x = y
    BY <1>2, <1>4, <2>2
  <2>4. \A i \in k + 1 .. Len(frames) : Len(frames) - i \in E /\ g[Len(frames) - i] = i
    BY <1>2, <2>1 DEF LA9!Essential
  <2>5. g \in [E -> k + 1 .. Len(frames)]
    BY <2>2
  <2>6. QED
    BY <2>1, <2>3, <2>4, <2>5
<1>7. OnlyTable(p, tables, tables2, DOMAIN tables[p] \cup E)
  BY <1>1, <1>2, <1>3, <1>5 DEF OnlyTable
<1>8. \A x \in E : tables2[p][x] = frames[g[x]]
  BY <1>5
<1>9. Placed(SubSeq(frames, 1, k), tables2)
  <2>1. E \in SUBSET Nat /\ IsFiniteSet(E)
    BY SizesOfLA9
  <2>2. E \cap DOMAIN tables[p] = {} /\ \A x \in DOMAIN tables[p] : tables2[p][x] = tables[p][x]
    BY <1>3
  <2>3. Placed(frames, tables) /\ p \in LA9!Procs
    BY <1>1
  <2>. HIDE DEF E, tables2, k, g
  <2>4. k \in 0 .. Len(frames)
    BY <1>6
  <2>5. g \in [E -> k + 1 .. Len(frames)]
    BY <1>6
  <2>6. \A x, y \in E : g[x] = g[y] => x = y
    BY <1>6
  <2>7. \A i \in k + 1 .. Len(frames) : \E x \in E : g[x] = i
    BY <1>6
  <2>8. E \cap DOMAIN tables[p] = {}
    BY <2>2
  <2>9. \A x \in DOMAIN tables[p] : tables2[p][x] = tables[p][x]
    BY <2>2
  <2>10. E \in SUBSET Nat
    BY <2>1
  <2>11. IsFiniteSet(E)
    BY <2>1
  <2>12. Placed(frames, tables)
    BY <2>3
  <2>13. p \in LA9!Procs
    BY <2>3
  <2>14. QED
    BY <1>7, <1>8, <2>4, <2>5, <2>6, <2>7, <2>8, <2>9, <2>10, <2>11, <2>12, <2>13, FramesTaken, Z3T(60)
<1>10. active + 1 = Cardinality(present \cup {p})
  <2>1. IsFiniteSet(present)
    BY <1>1, FS_Subset, SizesOfLA9
  <2>2. QED
    BY <1>1, <2>1, FS_AddElement
<1>11. /\ \A q \in present \cup {p} : E \subseteq DOMAIN tables2[q]
       /\ \A q \in LA9!Procs \ (present \cup {p}) : tables2[q] = LA9!NoPages
  BY <1>1, <1>2, <1>5
<1>12. QED
  <2>1. LA9!Untaken(frames) = SubSeq(frames, 1, k)
    BY DEF LA9!Untaken
  <2>2. present \cup {p} \in SUBSET LA9!Procs
    BY <1>1
  <2>. HIDE DEF tables2, k
  <2>3. Kept(SubSeq(frames, 1, k), tables2, present \cup {p}, active + 1)
    BY <1>9, <1>10, <1>11, <2>2 DEF Kept
  <2>4. QED
    BY <2>1, <2>3 DEF tables2

\* A page that is missing takes the last frame of the list.
LEMMA PageComes ==
  ASSUME NEW present, NEW active, Kept(freeFrames, pt, present, active),
         NEW p \in present, NEW x \in Nat, x \notin DOMAIN pt[p], Len(freeFrames) > 0,
         NEW tables2, OnlyTable(p, pt, tables2, DOMAIN pt[p] \cup {x}),
         tables2[p][x] = freeFrames[Len(freeFrames)],
         \A a \in DOMAIN pt[p] : tables2[p][a] = pt[p][a]
  PROVE  Kept(SubSeq(freeFrames, 1, Len(freeFrames) - 1), tables2, present, active)
<1>. DEFINE k == Len(freeFrames) - 1
            g == [page \in {x} |-> Len(freeFrames)]
<1>1. /\ Placed(freeFrames, pt) /\ present \in SUBSET LA9!Procs /\ p \in LA9!Procs
      /\ active = Cardinality(present)
      /\ \A q \in present : LA9!Essential \subseteq DOMAIN pt[q]
      /\ \A q \in LA9!Procs \ present : pt[q] = LA9!NoPages
  BY DEF Kept
<1>2. DOMAIN pt = LA9!Procs /\ Len(freeFrames) \in Nat
  <2>1. freeFrames \in Seq(LA9!Frames) /\ DOMAIN pt = LA9!Procs
    BY <1>1 DEF Placed
  <2>2. QED
    BY <2>1
<1>3. /\ DOMAIN tables2[p] = DOMAIN pt[p] \cup {x}
      /\ \A q \in LA9!Procs : q # p => tables2[q] = pt[q]
      /\ DOMAIN tables2 = LA9!Procs
  BY DEF OnlyTable
<1>5. /\ k \in 0 .. Len(freeFrames) /\ g \in [{x} -> k + 1 .. Len(freeFrames)]
      /\ \A a, b \in {x} : g[a] = g[b] => a = b
      /\ \A i \in k + 1 .. Len(freeFrames) : \E a \in {x} : g[a] = i
  BY <1>2
<1>6. \A a \in {x} : tables2[p][a] = freeFrames[g[a]]
  OBVIOUS
<1>7. Placed(SubSeq(freeFrames, 1, k), tables2)
  <2>. DEFINE New == {x}
  <2>1. IsFiniteSet(New)
    BY FS_Singleton
  <2>2. New \in SUBSET Nat
    OBVIOUS
  <2>3. New \cap DOMAIN pt[p] = {}
    OBVIOUS
  <2>4. OnlyTable(p, pt, tables2, DOMAIN pt[p] \cup New)
    OBVIOUS
  <2>5. k \in 0 .. Len(freeFrames)
    BY <1>5
  <2>6. g \in [New -> k + 1 .. Len(freeFrames)]
    BY <1>5
  <2>7. \A a, b \in New : g[a] = g[b] => a = b
    BY <1>5, Zenon
  <2>8. \A i \in k + 1 .. Len(freeFrames) : \E a \in New : g[a] = i
    BY <1>5
  <2>9. \A a \in New : tables2[p][a] = freeFrames[g[a]]
    BY <1>6
  <2>10. \A a \in DOMAIN pt[p] : tables2[p][a] = pt[p][a]
    OBVIOUS
  <2>11. Placed(freeFrames, pt)
    BY <1>1
  <2>12. p \in LA9!Procs
    BY <1>1
  <2>. HIDE DEF k, g, New
  <2>13. QED
    BY <2>1, <2>2, <2>3, <2>4, <2>5, <2>6, <2>7, <2>8, <2>9, <2>10, <2>11, <2>12, FramesTaken, Z3T(60)
<1>8. /\ \A q \in present : LA9!Essential \subseteq DOMAIN tables2[q]
      /\ \A q \in LA9!Procs \ present : tables2[q] = LA9!NoPages
  <2>1. \A q \in LA9!Procs : DOMAIN pt[q] \subseteq DOMAIN tables2[q]
    BY <1>3
  <2>2. \A q \in LA9!Procs \ present : tables2[q] = pt[q]
    BY <1>3
  <2>3. QED
    BY <1>1, <2>1, <2>2
<1>9. Kept(SubSeq(freeFrames, 1, k), tables2, present, active)
  <2>. HIDE DEF k
  <2>1. QED
    BY <1>1, <1>7, <1>8 DEF Kept
<1>10. QED
  BY <1>9

\* With nobody in memory all frames are free.
LEMMA AllFree ==
  ASSUME LA9!SizeAssumption, LA9!MemoryAssumption,
         NEW frames, NEW tables, NEW active, Kept(frames, tables, {}, active)
  PROVE  Len(frames) >= EssentialPages
<1>. DEFINE N == Len(frames)
<1>1. frames \in Seq(LA9!Frames) /\ N \in Nat
  <2>1. frames \in Seq(LA9!Frames)
    BY DEF Kept, Placed
  <2>2. QED
    BY <2>1
<1>2. \A f \in LA9!Frames : \E i \in 1 .. N : frames[i] = f
  <2>1. \A p \in LA9!Procs : DOMAIN tables[p] = {}
    BY DEF Kept, LA9!NoPages
  <2>2. QED
    BY <2>1 DEF Kept, Placed
<1>3. frames \in Surjection(1 .. N, LA9!Frames)
  <2>1. frames \in [1 .. N -> LA9!Frames]
    BY <1>1
  <2>2. QED
    BY <1>2, <2>1 DEF Surjection
<1>4. Cardinality(LA9!Frames) <= N
  <2>. HIDE DEF N
  <2>1. IsFiniteSet(1 .. N) /\ Cardinality(1 .. N) = N
    <3>1. N \in Nat
      BY <1>1
    <3>2. QED
      BY <3>1, FS_Interval
  <2>2. QED
    BY <1>3, <2>1, FS_Surjection
<1>5. Cardinality(LA9!Frames) = UserFrames
  <2>1. UserFrames \in Nat
    BY SizesOfLA9
  <2>2. Cardinality(0 .. UserFrames - 1) = UserFrames
    BY <2>1, FS_Interval
  <2>3. QED
    BY <2>2 DEF LA9!Frames
<1>6. QED
  BY <1>1, <1>4, <1>5, SizesOfLA9

-----------------------------------------------------------------------------
(* Who stands in which queue, and the invariant.                             *)

Members(queue) == {queue[i] : i \in 1 .. Len(queue)}

\* Each process is ready, swapped out or the one that runs, in one place only, or has
\* made all its searches.
Standing(ready, swapped, runs, searches, total) ==
  /\ ready \in Seq(LA9!Procs) /\ swapped \in Seq(LA9!Procs) /\ runs \in SUBSET LA9!Procs
  /\ \A i, j \in 1 .. Len(ready) : ready[i] = ready[j] => i = j
  /\ \A i, j \in 1 .. Len(swapped) : swapped[i] = swapped[j] => i = j
  /\ Members(ready) \cap Members(swapped) = {}
  /\ runs \cap (Members(ready) \cup Members(swapped)) = {}
  /\ DOMAIN searches = LA9!Procs
  /\ \A p \in LA9!Procs :
       /\ searches[p] \in Nat /\ searches[p] <= total
       /\ searches[p] = total <=> p \notin Members(ready) \cup Members(swapped) \cup runs

Callers == {"main", "empty", "exit"}
SearchRecords == [proc : Nat, L : Nat, R : Nat, caller : Callers]

\* The inductive invariant of LA9.
PagingInv ==
  /\ status \in {"turn", "search", "end", "undefined"}
  /\ input \in Inputs /\ search \in SearchRecords
  /\ Standing(readyQ, swappedQ, LA9!Running, currentSearch, LA9!searchesPerProcess)
  /\ Kept(freeFrames, pt, Members(readyQ) \cup LA9!Running, activeProcesses)

\* The first of a queue in which each stands once leaves.
LEMMA QueueTail ==
  ASSUME NEW S, NEW queue \in Seq(S), queue # <<>>,
         \A i, j \in 1 .. Len(queue) : queue[i] = queue[j] => i = j
  PROVE  /\ Tail(queue) \in Seq(S) /\ Head(queue) \in Members(queue) /\ Head(queue) \in S
         /\ Members(Tail(queue)) = Members(queue) \ {Head(queue)}
         /\ \A i, j \in 1 .. Len(Tail(queue)) : Tail(queue)[i] = Tail(queue)[j] => i = j
<1>. DEFINE T == Tail(queue)
            k == Len(queue)
<1>1. k \in Nat /\ k >= 1 /\ T \in Seq(S) /\ Len(T) = k - 1 /\ Head(queue) = queue[1]
  <2>1. k \in Nat /\ k # 0
    BY EmptySeq
  <2>2. T \in Seq(S) /\ Len(T) = k - 1 /\ Head(queue) = queue[1]
    OBVIOUS
  <2>3. QED
    BY <2>1, <2>2
<1>2. \A i \in 1 .. k - 1 : T[i] = queue[i + 1] /\ i + 1 \in 1 .. k
  BY <1>1
<1>3. \A i \in 1 .. k : queue[i] \in S
  OBVIOUS
<1>. HIDE DEF T
<1>4. \A i, j \in 1 .. Len(T) : T[i] = T[j] => i = j
  <2>1. TAKE i, j \in 1 .. Len(T)
  <2>2. HAVE T[i] = T[j]
  <2>3. i \in 1 .. k - 1 /\ j \in 1 .. k - 1
    BY <1>1
  <2>4. queue[i + 1] = queue[j + 1]
    BY <1>2, <2>2, <2>3
  <2>5. i + 1 = j + 1
    BY <1>2, <2>3, <2>4
  <2>6. QED
    BY <1>1, <2>3, <2>5
<1>5. Members(T) \subseteq Members(queue) \ {queue[1]}
  <2>1. SUFFICES ASSUME NEW i \in 1 .. k - 1
                 PROVE  T[i] \in Members(queue) /\ T[i] # queue[1]
    BY <1>1 DEF Members
  <2>2. T[i] = queue[i + 1] /\ i + 1 \in 1 .. k /\ 1 \in 1 .. k /\ i + 1 # 1
    BY <1>1, <1>2
  <2>3. QED
    BY <2>2 DEF Members
<1>6. Members(queue) \ {queue[1]} \subseteq Members(T)
  <2>1. SUFFICES ASSUME NEW i \in 1 .. k, queue[i] # queue[1]
                 PROVE  queue[i] \in Members(T)
    BY DEF Members
  <2>2. i # 1
    BY <2>1
  <2>3. i - 1 \in 1 .. k - 1 /\ (i - 1) + 1 = i
    BY <1>1, <2>2
  <2>4. T[i - 1] = queue[i] /\ i - 1 \in 1 .. Len(T)
    BY <1>1, <1>2, <2>3
  <2>5. QED
    BY <2>4 DEF Members
<1>7. Head(queue) \in Members(queue) /\ Head(queue) \in S
  <2>1. 1 \in 1 .. k
    BY <1>1
  <2>2. QED
    BY <1>1, <1>3, <2>1 DEF Members
<1>8. T \in Seq(S) /\ Members(T) = Members(queue) \ {Head(queue)}
  BY <1>1, <1>5, <1>6
<1>9. QED
  BY <1>4, <1>7, <1>8 DEF T

\* One that is not in it joins a queue.
LEMMA QueueJoined ==
  ASSUME NEW S, NEW queue \in Seq(S), NEW x \in S, x \notin Members(queue),
         \A i, j \in 1 .. Len(queue) : queue[i] = queue[j] => i = j
  PROVE  /\ Append(queue, x) \in Seq(S)
         /\ Members(Append(queue, x)) = Members(queue) \cup {x}
         /\ \A i, j \in 1 .. Len(Append(queue, x)) : Append(queue, x)[i] = Append(queue, x)[j] => i = j
<1>. DEFINE A == Append(queue, x)
            k == Len(queue)
<1>1. /\ k \in Nat /\ A \in Seq(S) /\ Len(A) = k + 1 /\ A[k + 1] = x
      /\ \A i \in 1 .. k : A[i] = queue[i]
  OBVIOUS
<1>. HIDE DEF A
<1>2. \A i \in 1 .. k : queue[i] # x
  BY DEF Members
<1>3. \A i \in 1 .. Len(A) : i \in 1 .. k \/ i = k + 1
  BY <1>1
<1>4. \A i, j \in 1 .. Len(A) : A[i] = A[j] => i = j
  <2>1. TAKE i, j \in 1 .. Len(A)
  <2>2. CASE i \in 1 .. k /\ j \in 1 .. k
    BY <1>1, <2>2
  <2>3. CASE i = k + 1 /\ j \in 1 .. k
    BY <1>1, <1>2, <2>3
  <2>4. CASE i \in 1 .. k /\ j = k + 1
    BY <1>1, <1>2, <2>4
  <2>5. QED
    BY <1>3, <2>2, <2>3, <2>4
<1>5. Members(A) \subseteq Members(queue) \cup {x}
  <2>1. SUFFICES ASSUME NEW i \in 1 .. Len(A)
                 PROVE  A[i] \in Members(queue) \cup {x}
    BY DEF Members
  <2>2. CASE i \in 1 .. k
    BY <1>1, <2>2 DEF Members
  <2>3. CASE i = k + 1
    BY <1>1, <2>3
  <2>4. QED
    BY <1>3, <2>2, <2>3
<1>6. Members(queue) \cup {x} \subseteq Members(A)
  <2>1. k + 1 \in 1 .. Len(A) /\ \A i \in 1 .. k : i \in 1 .. Len(A)
    BY <1>1
  <2>2. x \in Members(A)
    BY <1>1, <2>1 DEF Members
  <2>3. \A i \in 1 .. k : queue[i] \in Members(A)
    BY <1>1, <2>1 DEF Members
  <2>4. QED
    BY <2>2, <2>3 DEF Members
<1>7. A \in Seq(S) /\ Members(A) = Members(queue) \cup {x}
  BY <1>1, <1>5, <1>6
<1>8. QED
  BY <1>4, <1>7 DEF A

\* The first of the swapped processes becomes the one that runs.
LEMMA SwappedRuns ==
  ASSUME NEW ready, NEW swapped, NEW searches, NEW total,
         Standing(ready, swapped, {}, searches, total), swapped # <<>>
  PROVE  /\ Standing(ready, Tail(swapped), {Head(swapped)}, searches, total)
         /\ Head(swapped) \in LA9!Procs /\ Head(swapped) \notin Members(ready)
<1>1. /\ swapped \in Seq(LA9!Procs)
      /\ \A i, j \in 1 .. Len(swapped) : swapped[i] = swapped[j] => i = j
  BY DEF Standing
<1>2. PICK q : q = Head(swapped)
  OBVIOUS
<1>3. PICK T : T = Tail(swapped)
  OBVIOUS
<1>4. /\ T \in Seq(LA9!Procs) /\ q \in Members(swapped) /\ q \in LA9!Procs
      /\ Members(T) = Members(swapped) \ {q}
      /\ \A i, j \in 1 .. Len(T) : T[i] = T[j] => i = j
  BY <1>1, <1>2, <1>3, QueueTail
<1>5. /\ ready \in Seq(LA9!Procs) /\ DOMAIN searches = LA9!Procs
      /\ \A i, j \in 1 .. Len(ready) : ready[i] = ready[j] => i = j
      /\ Members(ready) \cap Members(swapped) = {}
      /\ \A p \in LA9!Procs :
           /\ searches[p] \in Nat /\ searches[p] <= total
           /\ searches[p] = total <=> p \notin Members(ready) \cup Members(swapped)
  BY DEF Standing
<1>6. q \notin Members(ready) /\ Members(ready) \cap Members(T) = {} /\ q \notin Members(T)
  BY <1>4, <1>5
<1>7. Members(ready) \cup Members(T) \cup {q} = Members(ready) \cup Members(swapped)
  BY <1>4
<1>8. Standing(ready, T, {q}, searches, total)
  BY <1>4, <1>5, <1>6, <1>7 DEF Standing
<1>9. QED
  BY <1>2, <1>3, <1>4, <1>6, <1>8

\* The first of the ready processes becomes the one that runs.
LEMMA ReadyRuns ==
  ASSUME NEW ready, NEW swapped, NEW searches, NEW total,
         Standing(ready, swapped, {}, searches, total), ready # <<>>
  PROVE  /\ Standing(Tail(ready), swapped, {Head(ready)}, searches, total)
         /\ Members(ready) = Members(Tail(ready)) \cup {Head(ready)}
         /\ Head(ready) \in LA9!Procs
<1>1. /\ ready \in Seq(LA9!Procs)
      /\ \A i, j \in 1 .. Len(ready) : ready[i] = ready[j] => i = j
  BY DEF Standing
<1>2. PICK q : q = Head(ready)
  OBVIOUS
<1>3. PICK T : T = Tail(ready)
  OBVIOUS
<1>4. /\ T \in Seq(LA9!Procs) /\ q \in Members(ready) /\ q \in LA9!Procs
      /\ Members(T) = Members(ready) \ {q}
      /\ \A i, j \in 1 .. Len(T) : T[i] = T[j] => i = j
  BY <1>1, <1>2, <1>3, QueueTail
<1>5. /\ swapped \in Seq(LA9!Procs) /\ DOMAIN searches = LA9!Procs
      /\ \A i, j \in 1 .. Len(swapped) : swapped[i] = swapped[j] => i = j
      /\ Members(ready) \cap Members(swapped) = {}
      /\ \A p \in LA9!Procs :
           /\ searches[p] \in Nat /\ searches[p] <= total
           /\ searches[p] = total <=> p \notin Members(ready) \cup Members(swapped)
  BY DEF Standing
<1>6. q \notin Members(swapped) /\ Members(T) \cap Members(swapped) = {} /\ q \notin Members(T)
  BY <1>4, <1>5
<1>7. /\ Members(T) \cup Members(swapped) \cup {q} = Members(ready) \cup Members(swapped)
      /\ Members(ready) = Members(T) \cup {q}
  BY <1>4
<1>8. Standing(T, swapped, {q}, searches, total)
  BY <1>4, <1>5, <1>6, <1>7 DEF Standing
<1>9. QED
  BY <1>2, <1>3, <1>4, <1>7, <1>8

\* What Standing says of the process that runs, and of what there is without it.
LEMMA TheOneThatRuns ==
  ASSUME NEW ready, NEW swapped, NEW searches, NEW total \in Nat, NEW p,
         Standing(ready, swapped, {p}, searches, total)
  PROVE  /\ p \in LA9!Procs /\ p \notin Members(ready) /\ p \notin Members(swapped)
         /\ searches[p] \in Nat /\ searches[p] + 1 <= total
         /\ ready \in Seq(LA9!Procs) /\ swapped \in Seq(LA9!Procs) /\ DOMAIN searches = LA9!Procs
         /\ \A i, j \in 1 .. Len(ready) : ready[i] = ready[j] => i = j
         /\ \A i, j \in 1 .. Len(swapped) : swapped[i] = swapped[j] => i = j
         /\ Members(ready) \cap Members(swapped) = {}
         /\ \A q \in LA9!Procs :
              /\ searches[q] \in Nat /\ searches[q] <= total
              /\ searches[q] = total <=> q \notin Members(ready) \cup Members(swapped) \cup {p}
<1>1. /\ p \in LA9!Procs /\ p \notin Members(ready) /\ p \notin Members(swapped)
      /\ searches[p] \in Nat /\ searches[p] <= total /\ searches[p] # total
  BY DEF Standing
<1>2. QED
  BY <1>1 DEF Standing

\* The process that runs is swapped out.
LEMMA RunningIsSwapped ==
  ASSUME NEW ready, NEW swapped, NEW searches, NEW total \in Nat, NEW p,
         Standing(ready, swapped, {p}, searches, total)
  PROVE  Standing(ready, Append(swapped, p), {}, searches, total)
<1>1. /\ p \in LA9!Procs /\ p \notin Members(ready) /\ p \notin Members(swapped)
      /\ ready \in Seq(LA9!Procs) /\ swapped \in Seq(LA9!Procs) /\ DOMAIN searches = LA9!Procs
      /\ \A i, j \in 1 .. Len(ready) : ready[i] = ready[j] => i = j
      /\ \A i, j \in 1 .. Len(swapped) : swapped[i] = swapped[j] => i = j
      /\ Members(ready) \cap Members(swapped) = {}
      /\ \A q \in LA9!Procs :
           /\ searches[q] \in Nat /\ searches[q] <= total
           /\ searches[q] = total <=> q \notin Members(ready) \cup Members(swapped) \cup {p}
  BY DEF Standing
<1>2. PICK A : A = Append(swapped, p)
  OBVIOUS
<1>3. /\ A \in Seq(LA9!Procs) /\ Members(A) = Members(swapped) \cup {p}
      /\ \A i, j \in 1 .. Len(A) : A[i] = A[j] => i = j
  <2>1. /\ swapped \in Seq(LA9!Procs) /\ p \in LA9!Procs /\ p \notin Members(swapped)
        /\ \A i, j \in 1 .. Len(swapped) : swapped[i] = swapped[j] => i = j
    BY <1>1
  <2>2. QED
    BY <1>2, <2>1, QueueJoined
<1>4. /\ Members(ready) \cap Members(A) = {}
      /\ Members(ready) \cup Members(A) \cup {} = Members(ready) \cup Members(swapped) \cup {p}
  BY <1>1, <1>3
<1>5. Standing(ready, A, {}, searches, total)
  BY <1>1, <1>3, <1>4 DEF Standing
<1>6. QED
  BY <1>2, <1>5

\* The process that runs has made one search more: it is ready again, or it was the last one.
LEMMA RunningSearched ==
  ASSUME NEW ready, NEW swapped, NEW searches, NEW total \in Nat, NEW p,
         Standing(ready, swapped, {p}, searches, total),
         NEW searches2, searches2 = [searches EXCEPT ![p] = @ + 1]
  PROVE  IF searches[p] + 1 < total
         THEN /\ Standing(Append(ready, p), swapped, {}, searches2, total)
              /\ Members(Append(ready, p)) = Members(ready) \cup {p}
         ELSE Standing(ready, swapped, {}, searches2, total)
<1>1. /\ p \in LA9!Procs /\ p \notin Members(ready) /\ p \notin Members(swapped)
      /\ searches[p] \in Nat /\ searches[p] + 1 <= total
      /\ ready \in Seq(LA9!Procs) /\ swapped \in Seq(LA9!Procs) /\ DOMAIN searches = LA9!Procs
      /\ \A i, j \in 1 .. Len(ready) : ready[i] = ready[j] => i = j
      /\ \A i, j \in 1 .. Len(swapped) : swapped[i] = swapped[j] => i = j
      /\ Members(ready) \cap Members(swapped) = {}
      /\ \A q \in LA9!Procs :
           /\ searches[q] \in Nat /\ searches[q] <= total
           /\ searches[q] = total <=> q \notin Members(ready) \cup Members(swapped) \cup {p}
  BY TheOneThatRuns
<1>2. /\ DOMAIN searches2 = LA9!Procs /\ searches2[p] = searches[p] + 1
      /\ \A q \in LA9!Procs : q # p => searches2[q] = searches[q]
  BY <1>1
<1>3. \A q \in LA9!Procs : searches2[q] \in Nat /\ searches2[q] <= total
  BY <1>1, <1>2
<1>4. CASE searches[p] + 1 < total
  <2>1. PICK A : A = Append(ready, p)
    OBVIOUS
  <2>2. /\ A \in Seq(LA9!Procs) /\ Members(A) = Members(ready) \cup {p}
        /\ \A i, j \in 1 .. Len(A) : A[i] = A[j] => i = j
    <3>1. /\ ready \in Seq(LA9!Procs) /\ p \in LA9!Procs /\ p \notin Members(ready)
          /\ \A i, j \in 1 .. Len(ready) : ready[i] = ready[j] => i = j
      BY <1>1
    <3>2. QED
      BY <2>1, <3>1, QueueJoined
  <2>3. Members(A) \cap Members(swapped) = {}
    BY <1>1, <2>2
  <2>4. \A q \in LA9!Procs : searches2[q] = total <=> q \notin Members(A) \cup Members(swapped) \cup {}
    <3>1. TAKE q \in LA9!Procs
    <3>2. CASE q = p
      BY <1>1, <1>2, <1>4, <2>2, <3>2
    <3>3. CASE q # p
      BY <1>1, <1>2, <2>2, <3>3
    <3>4. QED
      BY <3>2, <3>3
  <2>5. Standing(A, swapped, {}, searches2, total)
    BY <1>1, <1>2, <1>3, <2>2, <2>3, <2>4 DEF Standing
  <2>6. QED
    BY <1>4, <2>1, <2>2, <2>5
<1>5. CASE ~ (searches[p] + 1 < total)
  <2>1. \A q \in LA9!Procs : searches2[q] = total <=> q \notin Members(ready) \cup Members(swapped) \cup {}
    <3>1. TAKE q \in LA9!Procs
    <3>2. CASE q = p
      BY <1>1, <1>2, <1>5, <3>2
    <3>3. CASE q # p
      BY <1>1, <1>2, <3>3
    <3>4. QED
      BY <3>2, <3>3
  <2>2. Standing(ready, swapped, {}, searches2, total)
    BY <1>1, <1>2, <1>3, <2>1 DEF Standing
  <2>3. QED
    BY <1>5, <2>2
<1>6. QED
  BY <1>4, <1>5

\* The number of searches is the same for all, and a number.
LEMMA SearchesOfLA9 ==
  ASSUME LA9!SizeAssumption, LA9!MemoryAssumption, input \in Inputs
  PROVE  /\ LA9!searchesPerProcess \in Nat /\ LA9!searchesPerProcess >= 1
         /\ \A p \in LA9!Procs : input[p].s - 1 \in Nat
<1>1. 0 \in LA9!Procs /\ \A p \in LA9!Procs : /\ input[p].s \in Nat /\ input[p].s >= 1
                                               /\ Len(input[p].keys) \in Nat /\ Len(input[p].keys) >= 1
  BY SizesOfLA9
<1>2. QED
  BY <1>1 DEF LA9!searchesPerProcess

-----------------------------------------------------------------------------
(* Every step of LA9 keeps the invariant.                                    *)

\* A search is a record of its process, range and caller.
LEMMA SearchStarts ==
  ASSUME LA9!SizeAssumption, LA9!MemoryAssumption, input \in Inputs,
         NEW p \in LA9!Procs, NEW caller \in Callers
  PROVE  LA9!Search(p, caller) \in SearchRecords /\ LA9!Search(p, caller).proc = p
<1>1. input[p].s - 1 \in Nat /\ p \in Nat
  BY SearchesOfLA9, SizesOfLA9
<1>2. QED
  BY <1>1 DEF LA9!Search, SearchRecords

\* When nobody runs, the next of the swapped processes comes in, or nobody does.
LEMMA NextComesIn ==
  ASSUME LA9!SizeAssumption, LA9!MemoryAssumption, input \in Inputs, input' = input,
         NEW caller \in Callers, NEW frames, NEW tables, NEW active,
         LA9!swapInNextProcess(caller, frames, tables, active),
         Standing(readyQ', swappedQ, {}, currentSearch', LA9!searchesPerProcess),
         Kept(frames, tables, Members(readyQ'), active),
         Len(frames) >= EssentialPages
  PROVE  PagingInv'
<1>. DEFINE total == LA9!searchesPerProcess
<1>1. LA9!searchesPerProcess' = total
  BY DEF LA9!searchesPerProcess
<1>2. LA9!NoSearch \in SearchRecords
  BY DEF LA9!NoSearch, SearchRecords, Callers
<1>3. CASE swappedQ = <<>>
  <2>1. /\ status' \in {"turn", "end"} /\ search' = LA9!NoSearch
        /\ freeFrames' = frames /\ pt' = tables /\ activeProcesses' = active /\ swappedQ' = swappedQ
    BY <1>3 DEF LA9!swapInNextProcess, LA9!ReturnFalse
  <2>2. LA9!Running' = {}
    BY <2>1 DEF LA9!Running
  <2>3. Standing(readyQ, swappedQ, LA9!Running, currentSearch, LA9!searchesPerProcess)'
    BY <1>1, <2>1, <2>2
  <2>4. Members(readyQ') \cup {} = Members(readyQ')
    OBVIOUS
  <2>5. Kept(freeFrames, pt, Members(readyQ) \cup LA9!Running, activeProcesses)'
    BY <2>1, <2>2, <2>4
  <2>6. QED
    BY <1>2, <2>1, <2>3, <2>5 DEF PagingInv
<1>4. CASE swappedQ # <<>>
  <2>1. PICK q : q = Head(swappedQ)
    OBVIOUS
  <2>2. /\ Standing(readyQ', Tail(swappedQ), {q}, currentSearch', total)
        /\ q \in LA9!Procs /\ q \notin Members(readyQ')
    BY <1>4, <2>1, SwappedRuns
  <2>3. ~ (Len(frames) < EssentialPages)
    <3>1. Len(frames) \in Nat /\ EssentialPages \in Nat
      <4>1. frames \in Seq(LA9!Frames)
        BY DEF Kept, Placed
      <4>2. QED
        BY <4>1, SizesOfLA9
    <3>2. QED
      BY <3>1
  <2>4. /\ swappedQ' = Tail(swappedQ)
        /\ pt' = [tables EXCEPT ![q] = LA9!allocateEssentialPages(@, frames)]
        /\ search' = LA9!Search(q, caller) /\ status' = "search"
        /\ freeFrames' = LA9!Untaken(frames) /\ activeProcesses' = active + 1
    BY <1>4, <2>1, <2>3 DEF LA9!swapInNextProcess
  <2>5. LA9!Search(q, caller) \in SearchRecords /\ LA9!Search(q, caller).proc = q
    BY <2>2, SearchStarts
  <2>6. LA9!Running' = {q}
    BY <2>4, <2>5 DEF LA9!Running, LA9!proc
  <2>7. Standing(readyQ, swappedQ, LA9!Running, currentSearch, LA9!searchesPerProcess)'
    BY <1>1, <2>2, <2>4, <2>6
  <2>8. Kept(freeFrames', pt', Members(readyQ') \cup {q}, activeProcesses')
    <3>1. q \in LA9!Procs \ Members(readyQ')
      BY <2>2
    <3>2. QED
      BY <2>4, <3>1, Enters
  <2>9. QED
    BY <2>4, <2>5, <2>6, <2>7, <2>8 DEF PagingInv
<1>5. QED
  BY <1>3, <1>4

\* All completed: nothing moves.
LEMMA CompletedKeeps == PagingInv /\ LA9!AllCompleted => PagingInv'
<1>1. SUFFICES ASSUME PagingInv, LA9!AllCompleted PROVE PagingInv'
  OBVIOUS
<1>2. /\ status = "turn" /\ status' = "end" /\ freeFrames' = freeFrames /\ pt' = pt /\ input' = input
      /\ currentSearch' = currentSearch /\ readyQ' = readyQ /\ swappedQ' = swappedQ
      /\ activeProcesses' = activeProcesses /\ search' = search
  BY <1>1 DEF LA9!AllCompleted
<1>3. LA9!Running' = LA9!Running /\ LA9!searchesPerProcess' = LA9!searchesPerProcess
  BY <1>2 DEF LA9!Running, LA9!searchesPerProcess
<1>4. QED
  BY <1>1, <1>2, <1>3 DEF PagingInv

\* The ready queue is empty: all frames are free, so whoever comes in gets its essential pages.
LEMMA NobodyReadyKeeps ==
  ASSUME LA9!SizeAssumption, LA9!MemoryAssumption, PagingInv, LA9!NobodyReady
  PROVE  PagingInv'
<1>1. /\ status = "turn" /\ readyQ = <<>> /\ input' = input
      /\ currentSearch' = currentSearch /\ readyQ' = readyQ
      /\ LA9!swapInNextProcess("empty", freeFrames, pt, activeProcesses)
  BY DEF LA9!NobodyReady
<1>2. /\ input \in Inputs /\ LA9!Running = {}
      /\ Standing(readyQ, swappedQ, {}, currentSearch, LA9!searchesPerProcess)
      /\ Kept(freeFrames, pt, Members(readyQ) \cup {}, activeProcesses)
  <2>1. LA9!Running = {}
    BY <1>1 DEF LA9!Running
  <2>2. QED
    BY <2>1 DEF PagingInv
<1>3. Members(readyQ) = {}
  <2>1. Len(<<>>) = 0
    OBVIOUS
  <2>2. QED
    BY <1>1, <2>1 DEF Members
<1>4. Kept(freeFrames, pt, {}, activeProcesses) /\ Kept(freeFrames, pt, Members(readyQ'), activeProcesses)
  BY <1>1, <1>2, <1>3
<1>5. Len(freeFrames) >= EssentialPages
  BY <1>4, AllFree
<1>6. Standing(readyQ', swappedQ, {}, currentSearch', LA9!searchesPerProcess)
  BY <1>1, <1>2
<1>7. "empty" \in Callers
  BY DEF Callers
<1>8. QED
  BY <1>1, <1>2, <1>4, <1>5, <1>6, <1>7, NextComesIn

\* The first of the ready queue makes a search.
LEMMA DispatchKeeps ==
  ASSUME LA9!SizeAssumption, LA9!MemoryAssumption, PagingInv, LA9!Dispatch
  PROVE  PagingInv'
<1>1. PICK p : p = Head(readyQ)
  OBVIOUS
<1>2. /\ status = "turn" /\ readyQ # <<>> /\ input' = input /\ readyQ' = Tail(readyQ)
      /\ search' = LA9!Search(p, "main") /\ status' = "search"
      /\ freeFrames' = freeFrames /\ pt' = pt /\ activeProcesses' = activeProcesses
      /\ currentSearch' = currentSearch /\ swappedQ' = swappedQ
  BY <1>1 DEF LA9!Dispatch
<1>3. LA9!Running = {}
  BY <1>2 DEF LA9!Running
<1>4. /\ input \in Inputs
      /\ Standing(readyQ, swappedQ, {}, currentSearch, LA9!searchesPerProcess)
      /\ Kept(freeFrames, pt, Members(readyQ) \cup {}, activeProcesses)
  BY <1>3 DEF PagingInv
<1>5. /\ Standing(Tail(readyQ), swappedQ, {p}, currentSearch, LA9!searchesPerProcess)
      /\ Members(readyQ) = Members(Tail(readyQ)) \cup {p} /\ p \in LA9!Procs
  BY <1>1, <1>2, <1>4, ReadyRuns
<1>6. LA9!Search(p, "main") \in SearchRecords /\ LA9!Search(p, "main").proc = p
  <2>1. "main" \in Callers
    BY DEF Callers
  <2>2. QED
    BY <1>4, <1>5, <2>1, SearchStarts
<1>7. LA9!Running' = {p} /\ LA9!searchesPerProcess' = LA9!searchesPerProcess
  BY <1>2, <1>6 DEF LA9!Running, LA9!proc, LA9!searchesPerProcess
<1>8. Standing(readyQ, swappedQ, LA9!Running, currentSearch, LA9!searchesPerProcess)'
  BY <1>2, <1>5, <1>7
<1>9. Kept(freeFrames, pt, Members(readyQ) \cup LA9!Running, activeProcesses)'
  <2>1. Members(readyQ') \cup {p} = Members(readyQ) \cup {}
    BY <1>2, <1>5
  <2>2. Kept(freeFrames', pt', Members(readyQ') \cup {p}, activeProcesses')
    BY <1>2, <1>4, <2>1
  <2>3. QED
    BY <1>7, <2>2
<1>10. QED
  BY <1>2, <1>4, <1>6, <1>8, <1>9 DEF PagingInv

\* What the invariant says while a search runs.
LEMMA WhileSearching ==
  ASSUME PagingInv, status = "search"
  PROVE  /\ input \in Inputs /\ LA9!Running = {search.proc}
         /\ search.proc \in Nat /\ search.L \in Nat /\ search.R \in Nat /\ search.caller \in Callers
         /\ search \in SearchRecords
         /\ Standing(readyQ, swappedQ, {search.proc}, currentSearch, LA9!searchesPerProcess)
         /\ Kept(freeFrames, pt, Members(readyQ) \cup {search.proc}, activeProcesses)
         /\ search.proc \in LA9!Procs /\ search.proc \notin Members(readyQ)
<1>1. LA9!Running = {search.proc}
  BY DEF LA9!Running, LA9!proc
<1>2. /\ input \in Inputs /\ search \in SearchRecords
      /\ Standing(readyQ, swappedQ, {search.proc}, currentSearch, LA9!searchesPerProcess)
      /\ Kept(freeFrames, pt, Members(readyQ) \cup {search.proc}, activeProcesses)
  BY <1>1 DEF PagingInv
<1>3. search.proc \in Nat /\ search.L \in Nat /\ search.R \in Nat /\ search.caller \in Callers
  BY <1>2 DEF SearchRecords
<1>4. search.proc \in LA9!Procs /\ search.proc \notin Members(readyQ)
  BY <1>2 DEF Standing
<1>5. QED
  BY <1>1, <1>2, <1>3, <1>4

\* An access narrows the range and changes nothing else of the search; the page is a number.
LEMMA AccessNarrows ==
  ASSUME LA9!SizeAssumption, LA9!MemoryAssumption, PagingInv, LA9!Access
  PROVE  /\ LA9!vpage \in Nat
         /\ LA9!Narrow => search' \in SearchRecords /\ search'.proc = search.proc
<1>1. /\ status = "search" /\ search \in SearchRecords
      /\ search.L \in Nat /\ search.R \in Nat
  <2>1. status = "search"
    BY DEF LA9!Access
  <2>2. QED
    BY <2>1, WhileSearching
<1>2. LA9!M \in Nat
  BY <1>1 DEF LA9!M
<1>3. LA9!vpage \in Nat
  BY <1>2, SizesOfLA9 DEF LA9!vpage
<1>4. \A r \in Nat : /\ [search EXCEPT !.R = r] \in SearchRecords /\ [search EXCEPT !.R = r].proc = search.proc
                     /\ [search EXCEPT !.L = r] \in SearchRecords /\ [search EXCEPT !.L = r].proc = search.proc
  BY <1>1 DEF SearchRecords
<1>5. LA9!Narrow => \E r \in Nat : search' = [search EXCEPT !.R = r] \/ search' = [search EXCEPT !.L = r]
  <2>1. LA9!M + 1 \in Nat
    BY <1>2
  <2>2. QED
    BY <1>2, <2>1 DEF LA9!Narrow
<1>6. ASSUME LA9!Narrow PROVE search' \in SearchRecords /\ search'.proc = search.proc
  <2>1. PICK r \in Nat : search' = [search EXCEPT !.R = r] \/ search' = [search EXCEPT !.L = r]
    BY <1>5, <1>6
  <2>2. CASE search' = [search EXCEPT !.R = r]
    BY <1>4, <2>2
  <2>3. CASE search' = [search EXCEPT !.L = r]
    BY <1>4, <2>3
  <2>4. QED
    BY <2>1, <2>2, <2>3
<1>7. QED
  BY <1>3, <1>6

\* A hit, or a page that is loaded.
LEMMA AccessKeeps ==
  ASSUME LA9!SizeAssumption, LA9!MemoryAssumption, PagingInv, LA9!Hit \/ LA9!allocateFrame
  PROVE  PagingInv'
<1>1. /\ LA9!Access /\ LA9!Narrow /\ status' = status /\ input' = input
      /\ currentSearch' = currentSearch /\ readyQ' = readyQ /\ swappedQ' = swappedQ
      /\ activeProcesses' = activeProcesses
  BY DEF LA9!Hit, LA9!allocateFrame, LA9!Fault
<1>2. PICK p : p = search.proc
  OBVIOUS
<1>3. status = "search"
  BY <1>1 DEF LA9!Access
<1>4. /\ input \in Inputs /\ LA9!Running = {p} /\ p \in LA9!Procs
      /\ Standing(readyQ, swappedQ, {p}, currentSearch, LA9!searchesPerProcess)
      /\ Kept(freeFrames, pt, Members(readyQ) \cup {p}, activeProcesses)
  BY <1>2, <1>3, WhileSearching
<1>5. LA9!vpage \in Nat /\ search' \in SearchRecords /\ search'.proc = p
  BY <1>1, <1>2, AccessNarrows
<1>6. LA9!Running' = {p} /\ LA9!searchesPerProcess' = LA9!searchesPerProcess
  BY <1>1, <1>3, <1>5 DEF LA9!Running, LA9!proc, LA9!searchesPerProcess
<1>7. Standing(readyQ, swappedQ, LA9!Running, currentSearch, LA9!searchesPerProcess)'
  BY <1>1, <1>4, <1>6
<1>8. Kept(freeFrames', pt', Members(readyQ) \cup {p}, activeProcesses)
  <2>1. CASE LA9!Hit
    BY <1>4, <2>1 DEF LA9!Hit
  <2>2. CASE LA9!allocateFrame
    <3>1. PICK x : x = LA9!vpage
      OBVIOUS
    <3>2. /\ x \notin DOMAIN pt[p] /\ Len(freeFrames) > 0
          /\ pt' = [pt EXCEPT ![p] = [page \in DOMAIN @ \cup {x} |->
                                       IF page = x THEN freeFrames[Len(freeFrames)] ELSE @[page]]]
          /\ freeFrames' = SubSeq(freeFrames, 1, Len(freeFrames) - 1)
      BY <1>2, <2>2, <3>1 DEF LA9!allocateFrame, LA9!Fault, LA9!proc, LA9!cntff
    <3>3. p \in Members(readyQ) \cup {p} /\ x \in Nat
      BY <1>5, <3>1
    <3>4. PICK T : T = pt'
      OBVIOUS
    <3>5. DOMAIN pt = LA9!Procs
      BY <1>4 DEF Kept, Placed
    <3>6. /\ T[p] = [page \in DOMAIN pt[p] \cup {x} |->
                      IF page = x THEN freeFrames[Len(freeFrames)] ELSE pt[p][page]]
          /\ \A q \in LA9!Procs : q # p => T[q] = pt[q]
          /\ DOMAIN T = LA9!Procs
      BY <1>4, <3>2, <3>4, <3>5
    <3>7. OnlyTable(p, pt, T, DOMAIN pt[p] \cup {x})
      BY <3>6 DEF OnlyTable
    <3>8. T[p][x] = freeFrames[Len(freeFrames)] /\ \A a \in DOMAIN pt[p] : T[p][a] = pt[p][a]
      BY <3>2, <3>6
    <3>9. x \notin DOMAIN pt[p] /\ Len(freeFrames) > 0
      BY <3>2
    <3>10. Kept(SubSeq(freeFrames, 1, Len(freeFrames) - 1), T, Members(readyQ) \cup {p}, activeProcesses)
      BY <1>4, <3>3, <3>7, <3>8, <3>9, PageComes
    <3>11. QED
      BY <3>2, <3>4, <3>10
  <2>3. QED
    BY <2>1, <2>2
<1>9. Kept(freeFrames, pt, Members(readyQ) \cup LA9!Running, activeProcesses)'
  BY <1>1, <1>6, <1>8
<1>10. QED
  BY <1>1, <1>3, <1>4, <1>5, <1>7, <1>9 DEF PagingInv

\* A process that finds no frame leaves the memory.
LEMMA SwapOutKeeps ==
  ASSUME LA9!SizeAssumption, LA9!MemoryAssumption, PagingInv, LA9!swapOut
  PROVE  PagingInv'
<1>1. PICK p : p = search.proc
  OBVIOUS
<1>2. /\ status = "search"
      /\ freeFrames' = LA9!freeProcessFrames(p) /\ pt' = [pt EXCEPT ![p] = LA9!NoPages]
      /\ activeProcesses' = activeProcesses - 1 /\ swappedQ' = Append(swappedQ, p)
      /\ LA9!ReturnTrue(search.caller, readyQ)
      /\ input' = input /\ currentSearch' = currentSearch /\ readyQ' = readyQ
  BY <1>1 DEF LA9!swapOut, LA9!Fault, LA9!Access, LA9!proc
<1>3. /\ input \in Inputs /\ p \in LA9!Procs /\ p \notin Members(readyQ)
      /\ Standing(readyQ, swappedQ, {p}, currentSearch, LA9!searchesPerProcess)
      /\ Kept(freeFrames, pt, Members(readyQ) \cup {p}, activeProcesses)
  BY <1>1, <1>2, WhileSearching
<1>4. status' \in {"turn", "undefined"} /\ search' = LA9!NoSearch
  BY <1>2 DEF LA9!ReturnTrue
<1>5. LA9!Running' = {} /\ LA9!searchesPerProcess' = LA9!searchesPerProcess
  BY <1>2, <1>4 DEF LA9!Running, LA9!searchesPerProcess
<1>6. Standing(readyQ, Append(swappedQ, p), {}, currentSearch, LA9!searchesPerProcess)
  <2>1. LA9!searchesPerProcess \in Nat
    BY <1>3, SearchesOfLA9
  <2>2. QED
    BY <1>3, <2>1, RunningIsSwapped
<1>7. Kept(freeFrames', pt', Members(readyQ), activeProcesses')
  <2>1. p \in Members(readyQ) \cup {p}
    OBVIOUS
  <2>2. (Members(readyQ) \cup {p}) \ {p} = Members(readyQ)
    BY <1>3
  <2>3. Kept(freeFrames', pt', (Members(readyQ) \cup {p}) \ {p}, activeProcesses')
    BY <1>2, <1>3, <2>1, Leaves
  <2>4. QED
    BY <2>2, <2>3
<1>8. Standing(readyQ, swappedQ, LA9!Running, currentSearch, LA9!searchesPerProcess)'
  BY <1>2, <1>5, <1>6
<1>9. Kept(freeFrames, pt, Members(readyQ) \cup LA9!Running, activeProcesses)'
  <2>1. Members(readyQ') \cup {} = Members(readyQ)
    BY <1>2
  <2>2. QED
    BY <1>5, <1>7, <2>1
<1>10. search' \in SearchRecords
  BY <1>4 DEF LA9!NoSearch, SearchRecords, Callers
<1>11. QED
  BY <1>2, <1>3, <1>4, <1>8, <1>9, <1>10 DEF PagingInv

\* A process that has more searches to make is ready again.
LEMMA MoreSearchesKeeps ==
  ASSUME LA9!SizeAssumption, LA9!MemoryAssumption, PagingInv, LA9!MoreSearches
  PROVE  PagingInv'
<1>1. PICK p : p = search.proc
  OBVIOUS
<1>2. /\ status = "search" /\ currentSearch[p] + 1 < LA9!searchesPerProcess
      /\ currentSearch' = [currentSearch EXCEPT ![p] = @ + 1]
      /\ readyQ' = Append(readyQ, p) /\ LA9!ReturnTrue(search.caller, readyQ')
      /\ freeFrames' = freeFrames /\ pt' = pt /\ input' = input /\ swappedQ' = swappedQ
      /\ activeProcesses' = activeProcesses
  BY <1>1 DEF LA9!MoreSearches, LA9!Found, LA9!proc
<1>3. /\ input \in Inputs
      /\ Standing(readyQ, swappedQ, {p}, currentSearch, LA9!searchesPerProcess)
      /\ Kept(freeFrames, pt, Members(readyQ) \cup {p}, activeProcesses)
  BY <1>1, <1>2, WhileSearching
<1>4. status' \in {"turn", "undefined"} /\ search' = LA9!NoSearch
  BY <1>2 DEF LA9!ReturnTrue
<1>5. LA9!Running' = {} /\ LA9!searchesPerProcess' = LA9!searchesPerProcess
  BY <1>2, <1>4 DEF LA9!Running, LA9!searchesPerProcess
<1>6. /\ Standing(Append(readyQ, p), swappedQ, {}, currentSearch', LA9!searchesPerProcess)
      /\ Members(Append(readyQ, p)) = Members(readyQ) \cup {p}
  <2>1. LA9!searchesPerProcess \in Nat
    BY <1>3, SearchesOfLA9
  <2>2. QED
    BY <1>2, <1>3, <2>1, RunningSearched
<1>7. Standing(readyQ, swappedQ, LA9!Running, currentSearch, LA9!searchesPerProcess)'
  BY <1>2, <1>5, <1>6
<1>8. Kept(freeFrames, pt, Members(readyQ) \cup LA9!Running, activeProcesses)'
  <2>1. Members(readyQ') \cup {} = Members(readyQ) \cup {p}
    BY <1>2, <1>6
  <2>2. QED
    BY <1>2, <1>3, <1>5, <2>1
<1>9. search' \in SearchRecords
  BY <1>4 DEF LA9!NoSearch, SearchRecords, Callers
<1>10. QED
  BY <1>2, <1>3, <1>4, <1>7, <1>8, <1>9 DEF PagingInv

\* A process that made its last search leaves, and another one comes in.
LEMMA TerminateKeeps ==
  ASSUME LA9!SizeAssumption, LA9!MemoryAssumption, PagingInv, LA9!Terminate
  PROVE  PagingInv'
<1>1. PICK p : p = search.proc
  OBVIOUS
<1>2. PICK caller : caller = IF search.caller = "main" THEN "exit" ELSE search.caller
  OBVIOUS
<1>3. PICK frames : frames = LA9!freeProcessFrames(p)
  OBVIOUS
<1>4. PICK tables : tables = [pt EXCEPT ![p] = LA9!NoPages]
  OBVIOUS
<1>5. /\ status = "search" /\ ~ (currentSearch[p] + 1 < LA9!searchesPerProcess)
      /\ currentSearch' = [currentSearch EXCEPT ![p] = @ + 1] /\ input' = input /\ readyQ' = readyQ
      /\ LA9!swapInNextProcess(caller, frames, tables, activeProcesses - 1)
  <2>1. /\ status = "search" /\ currentSearch[p] + 1 >= LA9!searchesPerProcess
        /\ currentSearch' = [currentSearch EXCEPT ![p] = @ + 1] /\ input' = input /\ readyQ' = readyQ
        /\ LA9!swapInNextProcess(caller, frames, tables, activeProcesses - 1)
    BY <1>1, <1>2, <1>3, <1>4 DEF LA9!Terminate, LA9!LastSearch, LA9!Found, LA9!proc
  <2>2. LA9!searchesPerProcess \in Nat /\ currentSearch[p] \in Nat
    <3>1. input \in Inputs /\ p \in LA9!Procs
          /\ Standing(readyQ, swappedQ, {p}, currentSearch, LA9!searchesPerProcess)
      BY <1>1, <2>1, WhileSearching
    <3>2. QED
      BY <3>1, SearchesOfLA9 DEF Standing
  <2>3. QED
    BY <2>1, <2>2
<1>6. /\ input \in Inputs /\ p \in LA9!Procs /\ p \notin Members(readyQ) /\ search.caller \in Callers
      /\ Standing(readyQ, swappedQ, {p}, currentSearch, LA9!searchesPerProcess)
      /\ Kept(freeFrames, pt, Members(readyQ) \cup {p}, activeProcesses)
  BY <1>1, <1>5, WhileSearching
<1>7. caller \in Callers
  BY <1>2, <1>6 DEF Callers
<1>8. Kept(frames, tables, Members(readyQ), activeProcesses - 1) /\ Len(frames) >= EssentialPages
  <2>1. p \in Members(readyQ) \cup {p}
    OBVIOUS
  <2>2. (Members(readyQ) \cup {p}) \ {p} = Members(readyQ)
    BY <1>6
  <2>3. /\ Kept(frames, tables, (Members(readyQ) \cup {p}) \ {p}, activeProcesses - 1)
        /\ Len(frames) >= EssentialPages
    BY <1>3, <1>4, <1>6, <2>1, Leaves
  <2>4. QED
    BY <2>2, <2>3
<1>9. Standing(readyQ', swappedQ, {}, currentSearch', LA9!searchesPerProcess)
  <2>1. LA9!searchesPerProcess \in Nat
    BY <1>6, SearchesOfLA9
  <2>2. Standing(readyQ, swappedQ, {}, currentSearch', LA9!searchesPerProcess)
    BY <1>5, <1>6, <2>1, RunningSearched
  <2>3. QED
    BY <1>5, <2>2
<1>10. Kept(frames, tables, Members(readyQ'), activeProcesses - 1)
  BY <1>5, <1>8
<1>11. QED
  BY <1>5, <1>6, <1>7, <1>8, <1>9, <1>10, NextComesIn

-----------------------------------------------------------------------------
(* How main loads the processes, and what follows from the invariant.        *)

\* Blocks of E numbers each: none shared, and none left out.
LEMMA Blocks ==
  ASSUME NEW E \in Nat, E >= 1, NEW count \in Nat
  PROVE  /\ \A p \in 0 .. count - 1 : p * E \in Nat /\ p * E + E <= count * E
         /\ \A p, q \in 0 .. count - 1 : \A a, b \in 0 .. E - 1 : p * E + a = q * E + b => p = q /\ a = b
         /\ \A x \in 0 .. count * E - 1 : \E p \in 0 .. count - 1 : \E a \in 0 .. E - 1 : x = p * E + a
<1>1. \A p, q \in Nat : p < q => p * E + E <= q * E
  <2>1. TAKE p, q \in Nat
  <2>2. HAVE p < q
  <2>3. PICK d \in Nat : q = p + 1 + d
    <3>1. q - p - 1 \in Nat /\ q = p + 1 + (q - p - 1)
      BY <2>2
    <3>2. QED
      BY <3>1
  <2>4. q * E = p * E + E + d * E
    BY <2>3
  <2>5. d * E \in Nat /\ p * E \in Nat
    OBVIOUS
  <2>6. QED
    BY <2>4, <2>5
<1>2. \A p \in Nat : p * E \in Nat
  OBVIOUS
<1>3. \A p \in 0 .. count - 1 : p * E \in Nat /\ p * E + E <= count * E
  <2>1. \A p \in 0 .. count - 1 : p \in Nat /\ p < count
    OBVIOUS
  <2>2. QED
    BY <1>1, <1>2, <2>1
<1>4. \A p, q \in 0 .. count - 1 : \A a, b \in 0 .. E - 1 : p * E + a = q * E + b => p = q /\ a = b
  <2>1. TAKE p, q \in 0 .. count - 1
  <2>2. TAKE a, b \in 0 .. E - 1
  <2>3. HAVE p * E + a = q * E + b
  <2>4. p \in Nat /\ q \in Nat /\ p * E \in Nat /\ q * E \in Nat
    BY <1>2
  <2>5. CASE p < q
    <3>1. p * E + E <= q * E
      BY <1>1, <2>4, <2>5
    <3>2. QED
      BY <2>3, <2>4, <3>1
  <2>6. CASE q < p
    <3>1. q * E + E <= p * E
      BY <1>1, <2>4, <2>6
    <3>2. QED
      BY <2>3, <2>4, <3>1
  <2>7. CASE p = q
    <3>1. p * E = q * E
      BY <2>7
    <3>2. QED
      BY <2>3, <2>4, <2>7, <3>1
  <2>8. QED
    BY <2>4, <2>5, <2>6, <2>7
<1>5. \A x \in 0 .. count * E - 1 : \E p \in 0 .. count - 1 : \E a \in 0 .. E - 1 : x = p * E + a
  <2>1. TAKE x \in 0 .. count * E - 1
  <2>2. count * E \in Nat /\ x \in Nat /\ x < count * E
    BY <1>2
  <2>3. DEFINE S == {j \in Nat : x < j * E}
  <2>4. count \in S
    BY <2>2
  <2>5. PICK bound \in S : \A j \in S : bound <= j
    BY <2>4, LeastNumber
  <2>6. bound \in Nat /\ x < bound * E /\ bound <= count
    BY <2>4, <2>5
  <2>7. bound # 0
    <3>1. 0 * E = 0
      OBVIOUS
    <3>2. QED
      BY <2>2, <2>6, <3>1
  <2>8. bound - 1 \in Nat /\ bound - 1 \in 0 .. count - 1 /\ ~ (bound <= bound - 1)
    BY <2>6, <2>7
  <2>9. (bound - 1) * E <= x
    <3>1. bound - 1 \notin S
      BY <2>5, <2>8
    <3>2. (bound - 1) * E \in Nat
      BY <1>2, <2>8
    <3>3. QED
      BY <2>2, <2>8, <3>1, <3>2
  <2>10. bound * E = (bound - 1) * E + E
    BY <2>6
  <2>11. PICK y \in Nat : y = (bound - 1) * E
    BY <1>2, <2>8
  <2>12. x - y \in 0 .. E - 1 /\ x = y + (x - y)
    BY <2>2, <2>6, <2>9, <2>10, <2>11
  <2>13. QED
    BY <2>8, <2>11, <2>12
<1>6. QED
  BY <1>3, <1>4, <1>5

\* main loads the processes one after the other from the end of the frames, and all fit.
LEMMA AllLoaded ==
  ASSUME LA9!SizeAssumption, LA9!MemoryAssumption, LA9!Init
  PROVE  /\ Placed(freeFrames, pt)
         /\ \A p \in LA9!Procs : DOMAIN pt[p] = LA9!Essential
<1>. DEFINE count == totalProcesses
            E == EssentialPages
            U == UserFrames
            list(p) == [i \in 1 .. U - p * E |-> i - 1]
            F == LA9!Frames
            value(p, a) == U - p * E - a - 1
<1>1. count \in Nat /\ E \in Nat /\ E >= 1 /\ U \in Nat /\ U >= count * E
  BY SizesOfLA9
<1>2. LA9!Procs = 0 .. count - 1 /\ LA9!Essential = 0 .. E - 1 /\ F = 0 .. U - 1
  BY DEF LA9!Procs, LA9!Essential, LA9!Frames
<1>3. /\ freeFrames = list(count)
      /\ pt = [p \in LA9!Procs |-> LA9!allocateEssentialPages(LA9!NoPages, list(p))]
  BY DEF LA9!Init
<1>. HIDE DEF count, E, U, F
<1>4. /\ \A p \in 0 .. count - 1 : p * E \in Nat /\ p * E + E <= count * E
      /\ \A p, q \in 0 .. count - 1 : \A a, b \in 0 .. E - 1 : p * E + a = q * E + b => p = q /\ a = b
      /\ \A x \in 0 .. count * E - 1 : \E p \in 0 .. count - 1 : \E a \in 0 .. E - 1 : x = p * E + a
  <2>1. count \in Nat
    BY <1>1
  <2>2. E \in Nat
    BY <1>1
  <2>3. E >= 1
    BY <1>1
  <2>4. QED
    BY <2>1, <2>2, <2>3, Blocks, ZenonT(60)
<1>5. count * E \in Nat
  BY <1>1
<1>6. \A p \in 0 .. count - 1 : Len(list(p)) = U - p * E /\ U - p * E \in Nat /\ U - p * E >= E
  <2>1. TAKE p \in 0 .. count - 1
  <2>2. p * E \in Nat /\ p * E + E <= count * E
    BY <1>4
  <2>3. U - p * E \in Nat /\ U - p * E >= E
    BY <1>1, <1>5, <2>2
  <2>4. PICK bound \in Nat : bound = U - p * E
    BY <2>3
  <2>5. Len([i \in 1 .. bound |-> i - 1]) = bound
    OBVIOUS
  <2>6. QED
    BY <2>3, <2>4, <2>5
<1>7. \A p \in LA9!Procs : pt[p] = [a \in LA9!Essential |-> value(p, a)]
  <2>1. TAKE p \in LA9!Procs
  <2>2. PICK fr : fr = list(p)
    OBVIOUS
  <2>3. PICK bound : bound = U - p * E
    OBVIOUS
  <2>4. Len(fr) = bound /\ bound \in Nat /\ bound >= E
    BY <1>2, <1>6, <2>2, <2>3
  <2>5. \A a \in LA9!Essential : a \in Nat /\ a < bound /\ bound - a \in 1 .. bound
    BY <1>1, <1>2, <2>4
  <2>6. {vp \in LA9!Essential : vp < Len(fr)} = LA9!Essential
    BY <2>4, <2>5
  <2>7. LA9!allocateEssentialPages(LA9!NoPages, fr)
          = [a \in DOMAIN LA9!NoPages \cup LA9!Essential |->
               IF a \in LA9!Essential THEN fr[Len(fr) - a] ELSE LA9!NoPages[a]]
    BY <2>6 DEF LA9!allocateEssentialPages
  <2>8. DOMAIN LA9!NoPages \cup LA9!Essential = LA9!Essential
    BY DEF LA9!NoPages
  <2>9. \A a \in LA9!Essential : fr[Len(fr) - a] = value(p, a)
    <3>1. TAKE a \in LA9!Essential
    <3>2. fr[bound - a] = (bound - a) - 1
      BY <2>2, <2>3, <2>5
    <3>3. QED
      BY <2>3, <2>4, <3>2
  <2>10. pt[p] = LA9!allocateEssentialPages(LA9!NoPages, fr)
    BY <1>3, <2>2
  <2>. HIDE DEF value
  <2>11. [a \in DOMAIN LA9!NoPages \cup LA9!Essential |->
               IF a \in LA9!Essential THEN fr[Len(fr) - a] ELSE LA9!NoPages[a]]
          = [a \in LA9!Essential |-> value(p, a)]
    BY <2>8, <2>9
  <2>12. QED
    BY <2>7, <2>10, <2>11
<1>8. \A p \in LA9!Procs : DOMAIN pt[p] = LA9!Essential
  BY <1>7
<1>9. \A p \in LA9!Procs : \A a \in LA9!Essential :
        /\ value(p, a) \in 0 .. U - 1 /\ value(p, a) >= U - count * E
        /\ pt[p][a] = value(p, a)
  <2>1. TAKE p \in LA9!Procs
  <2>a. TAKE a \in LA9!Essential
  <2>2. PICK y \in Nat : y = p * E /\ y + E <= count * E
    BY <1>2, <1>4
  <2>3. value(p, a) = U - y - a - 1
    BY <2>2
  <2>4. pt[p][a] = value(p, a)
    BY <1>7
  <2>. HIDE DEF value
  <2>5. value(p, a) \in 0 .. U - 1 /\ value(p, a) >= U - count * E
    BY <1>1, <1>2, <1>5, <2>2, <2>3
  <2>6. QED
    BY <2>4, <2>5
<1>10. /\ freeFrames \in Seq(F) /\ Len(freeFrames) = U - count * E /\ U - count * E \in Nat
       /\ \A i \in 1 .. Len(freeFrames) : freeFrames[i] = i - 1
  <2>1. PICK bound \in Nat : bound = U - count * E
    BY <1>1, <1>5
  <2>2. freeFrames = [i \in 1 .. bound |-> i - 1]
    BY <1>3, <2>1
  <2>3. bound <= U
    BY <1>1, <1>5, <2>1
  <2>4. \A i \in 1 .. bound : i - 1 \in F
    BY <1>1, <1>2, <2>3
  <2>5. QED
    BY <2>1, <2>2, <2>4
<1>11. DOMAIN pt = LA9!Procs
  BY <1>3
<1>12. \A p \in LA9!Procs :
         /\ DOMAIN pt[p] \in SUBSET Nat /\ IsFiniteSet(DOMAIN pt[p])
         /\ \A a \in DOMAIN pt[p] : pt[p][a] \in F
  <2>1. LA9!Essential \in SUBSET Nat /\ IsFiniteSet(LA9!Essential)
    BY SizesOfLA9
  <2>. HIDE DEF value
  <2>2. \A p \in LA9!Procs : \A a \in LA9!Essential : pt[p][a] \in F
    BY <1>2, <1>9
  <2>3. QED
    BY <1>8, <2>1, <2>2
<1>13. \A i, j \in 1 .. Len(freeFrames) : freeFrames[i] = freeFrames[j] => i = j
  <2>1. TAKE i, j \in 1 .. Len(freeFrames)
  <2>2. freeFrames[i] = i - 1 /\ freeFrames[j] = j - 1 /\ i \in Int /\ j \in Int
    BY <1>10
  <2>3. QED
    BY <2>2
<1>14. \A p, q \in LA9!Procs : \A a \in DOMAIN pt[p], b \in DOMAIN pt[q] :
         pt[p][a] = pt[q][b] => p = q /\ a = b
  <2>1. TAKE p, q \in LA9!Procs
  <2>2. TAKE a \in DOMAIN pt[p], b \in DOMAIN pt[q]
  <2>3. HAVE pt[p][a] = pt[q][b]
  <2>4. p \in 0 .. count - 1 /\ q \in 0 .. count - 1 /\ a \in 0 .. E - 1 /\ b \in 0 .. E - 1
    BY <1>2, <1>8
  <2>5. value(p, a) = value(q, b)
    BY <1>8, <1>9, <2>3
  <2>6. p * E + a = q * E + b
    <3>1. PICK y \in Nat, z \in Nat : y = p * E /\ z = q * E
      BY <1>4, <2>4
    <3>2. U - y - a - 1 = U - z - b - 1
      BY <2>5, <3>1
    <3>3. a \in Int /\ b \in Int
      BY <2>4
    <3>4. y + a = z + b
      BY <1>1, <3>2, <3>3
    <3>5. QED
      BY <3>1, <3>4
  <2>7. QED
    BY <1>4, <2>4, <2>6
<1>15. \A p \in LA9!Procs : \A a \in DOMAIN pt[p] : \A i \in 1 .. Len(freeFrames) : freeFrames[i] # pt[p][a]
  <2>1. TAKE p \in LA9!Procs
  <2>2. TAKE a \in DOMAIN pt[p]
  <2>3. TAKE i \in 1 .. Len(freeFrames)
  <2>a. p \in LA9!Procs /\ a \in LA9!Essential
    BY <1>8
  <2>b. /\ pt[p][a] = value(p, a) /\ value(p, a) >= U - count * E /\ value(p, a) \in 0 .. U - 1
    BY <1>9, <2>a
  <2>4. pt[p][a] >= U - count * E /\ pt[p][a] \in Int
    <3>. HIDE DEF value
    <3>1. QED
      BY <1>1, <2>b
  <2>5. freeFrames[i] < U - count * E /\ freeFrames[i] \in Int
    BY <1>10
  <2>6. QED
    BY <1>10, <2>4, <2>5
<1>16. \A f \in F : \/ \E i \in 1 .. Len(freeFrames) : freeFrames[i] = f
                    \/ \E p \in LA9!Procs : \E a \in DOMAIN pt[p] : pt[p][a] = f
  <2>1. TAKE f \in F
  <2>2. f \in Nat /\ f < U
    BY <1>1, <1>2
  <2>3. CASE f < U - count * E
    <3>1. f + 1 \in 1 .. Len(freeFrames) /\ (f + 1) - 1 = f
      BY <1>10, <2>2, <2>3
    <3>2. QED
      BY <1>10, <3>1
  <2>4. CASE ~ (f < U - count * E)
    <3>1. U - 1 - f \in 0 .. count * E - 1
      BY <1>1, <1>5, <2>2, <2>4
    <3>2. PICK p \in 0 .. count - 1 : \E a \in 0 .. E - 1 : U - 1 - f = p * E + a
      BY <1>4, <3>1
    <3>3. PICK a \in 0 .. E - 1 : U - 1 - f = p * E + a
      BY <3>2
    <3>4. value(p, a) = f
      <4>1. PICK y \in Nat : y = p * E
        BY <1>4
      <4>2. U - 1 - f = y + a /\ a \in Int
        BY <3>3, <4>1
      <4>3. U - y - a - 1 = f
        BY <1>1, <2>2, <4>2
      <4>4. QED
        BY <4>1, <4>3
    <3>6. p \in LA9!Procs /\ a \in LA9!Essential /\ a \in DOMAIN pt[p]
      BY <1>2, <1>8
    <3>5. pt[p][a] = f
      BY <1>9, <3>4, <3>6
    <3>7. QED
      BY <3>5, <3>6
  <2>5. QED
    BY <2>3, <2>4
<1>17. QED
  BY <1>8, <1>10, <1>11, <1>12, <1>13, <1>14, <1>15, <1>16 DEF Placed, F

\* At the start everybody is ready, in memory with the essential pages.
LEMMA LA9Starts ==
  ASSUME LA9!SizeAssumption, LA9!MemoryAssumption, LA9!Init
  PROVE  PagingInv
<1>. DEFINE count == totalProcesses
            P == LA9!Procs
<1>1. /\ status = "turn" /\ input \in Inputs /\ currentSearch = [p \in P |-> 0]
      /\ readyQ = [i \in 1 .. count |-> i - 1] /\ swappedQ = <<>>
      /\ activeProcesses = count /\ search = LA9!NoSearch
  BY DEF LA9!Init
<1>2. LA9!Running = {} /\ LA9!NoSearch \in SearchRecords
  BY <1>1 DEF LA9!Running, LA9!NoSearch, SearchRecords, Callers
<1>3. count \in Nat /\ P = 0 .. count - 1
  BY SizesOfLA9 DEF LA9!Procs
<1>. HIDE DEF count, P
<1>4. /\ readyQ \in Seq(P) /\ Len(readyQ) = count
      /\ \A i \in 1 .. count : readyQ[i] = i - 1
  <2>1. \A i \in 1 .. count : i - 1 \in P
    BY <1>3
  <2>2. QED
    BY <1>1, <1>3, <2>1
<1>5. \A i, j \in 1 .. Len(readyQ) : readyQ[i] = readyQ[j] => i = j
  <2>1. TAKE i, j \in 1 .. Len(readyQ)
  <2>2. readyQ[i] = i - 1 /\ readyQ[j] = j - 1 /\ i \in Int /\ j \in Int
    BY <1>4
  <2>3. QED
    BY <2>2
<1>6. Members(readyQ) = P /\ Members(swappedQ) = {}
  <2>1. \A p \in P : p + 1 \in 1 .. Len(readyQ) /\ readyQ[p + 1] = p
    BY <1>3, <1>4
  <2>2. \A i \in 1 .. Len(readyQ) : readyQ[i] \in P
    BY <1>4
  <2>3. Len(<<>>) = 0
    OBVIOUS
  <2>4. Members(readyQ) = P
    BY <2>1, <2>2 DEF Members
  <2>5. Members(swappedQ) = {}
    BY <1>1, <2>3 DEF Members
  <2>6. QED
    BY <2>4, <2>5
<1>7. Standing(readyQ, swappedQ, {}, currentSearch, LA9!searchesPerProcess)
  <2>1. LA9!searchesPerProcess \in Nat /\ LA9!searchesPerProcess >= 1
    BY <1>1, SearchesOfLA9
  <2>2. DOMAIN currentSearch = P /\ \A p \in P : currentSearch[p] = 0
    BY <1>1
  <2>3. swappedQ \in Seq(P) /\ \A i, j \in 1 .. Len(swappedQ) : swappedQ[i] = swappedQ[j] => i = j
    BY <1>1
  <2>4. \A p \in P : /\ currentSearch[p] \in Nat /\ currentSearch[p] <= LA9!searchesPerProcess
                     /\ currentSearch[p] = LA9!searchesPerProcess
                          <=> p \notin Members(readyQ) \cup Members(swappedQ) \cup {}
    BY <1>6, <2>1, <2>2
  <2>5. QED
    BY <1>4, <1>5, <1>6, <2>2, <2>3, <2>4 DEF Standing, P
<1>8. Kept(freeFrames, pt, P, activeProcesses)
  <2>1. Placed(freeFrames, pt) /\ \A p \in P : DOMAIN pt[p] = LA9!Essential
    BY AllLoaded DEF P
  <2>2. Cardinality(P) = count
    <3>1. 0 \in Int /\ count - 1 \in Int
      BY <1>3
    <3>2. Cardinality(0 .. count - 1) = IF 0 > count - 1 THEN 0 ELSE (count - 1) - 0 + 1
      BY <3>1, FS_Interval
    <3>3. QED
      BY <1>3, <3>2
  <2>3. QED
    BY <1>1, <2>1, <2>2 DEF Kept, P
<1>9. Members(readyQ) \cup {} = P
  BY <1>6
<1>10. QED
  BY <1>1, <1>2, <1>7, <1>8, <1>9 DEF PagingInv

\* Every step keeps the invariant.
LEMMA LA9Goes ==
  ASSUME LA9!SizeAssumption, LA9!MemoryAssumption, PagingInv, [LA9!Next]_LA9!vars
  PROVE  PagingInv'
<1>1. CASE LA9!Next
  BY <1>1, CompletedKeeps, NobodyReadyKeeps, DispatchKeeps, AccessKeeps, SwapOutKeeps,
     MoreSearchesKeeps, TerminateKeeps DEF LA9!Next
<1>2. CASE UNCHANGED LA9!vars
  <2>1. /\ status' = status /\ freeFrames' = freeFrames /\ pt' = pt /\ input' = input
        /\ currentSearch' = currentSearch /\ readyQ' = readyQ /\ swappedQ' = swappedQ
        /\ activeProcesses' = activeProcesses /\ search' = search
    BY <1>2 DEF LA9!vars
  <2>2. LA9!Running' = LA9!Running /\ LA9!searchesPerProcess' = LA9!searchesPerProcess
    BY <2>1 DEF LA9!Running, LA9!proc, LA9!searchesPerProcess
  <2>3. QED
    BY <2>1, <2>2 DEF PagingInv
<1>3. QED
  BY <1>1, <1>2

\* The frame in the list at i, or under a page of one table, is counted once.
LEMMA PlacedOnce ==
  ASSUME Placed(freeFrames, pt), NEW f \in LA9!Frames
  PROVE  Cardinality({i \in DOMAIN freeFrames : freeFrames[i] = f})
           + Cardinality({o \in LA9!Owned : pt[o[1]][o[2]] = f}) = 1
<1>. DEFINE Listing == {i \in DOMAIN freeFrames : freeFrames[i] = f}
            Owning == {o \in LA9!Owned : pt[o[1]][o[2]] = f}
            k == Len(freeFrames)
<1>1. DOMAIN freeFrames = 1 .. k
  <2>1. freeFrames \in Seq(LA9!Frames)
    BY DEF Placed
  <2>2. QED
    BY <2>1
<1>2. \A o : o \in LA9!Owned <=> \E p \in LA9!Procs : \E a \in DOMAIN pt[p] : o = <<p, a>>
  BY DEF LA9!Owned
<1>3. Cardinality({}) = 0
  BY FS_EmptySet
<1>4. CASE \E i \in 1 .. k : freeFrames[i] = f
  <2>1. PICK i \in 1 .. k : freeFrames[i] = f
    BY <1>4
  <2>2. \A j \in 1 .. k : freeFrames[j] = f => j = i
    BY <2>1 DEF Placed
  <2>3. \A p \in LA9!Procs : \A a \in DOMAIN pt[p] : pt[p][a] # f
    BY <2>1 DEF Placed
  <2>4. Listing = {i}
    BY <1>1, <2>1, <2>2
  <2>5. Owning = {}
    BY <1>2, <2>3
  <2>6. Cardinality(Listing) = 1 /\ Cardinality(Owning) = 0
    BY <1>3, <2>4, <2>5, FS_Singleton
  <2>7. QED
    BY <2>6
<1>5. CASE ~ \E i \in 1 .. k : freeFrames[i] = f
  <2>1. \E p \in LA9!Procs : \E a \in DOMAIN pt[p] : pt[p][a] = f
    BY <1>5 DEF Placed
  <2>2. PICK p \in LA9!Procs : \E a \in DOMAIN pt[p] : pt[p][a] = f
    BY <2>1
  <2>3. PICK a \in DOMAIN pt[p] : pt[p][a] = f
    BY <2>2
  <2>4. \A q \in LA9!Procs : \A b \in DOMAIN pt[q] : pt[q][b] = f => q = p /\ b = a
    BY <2>3 DEF Placed
  <2>5. Listing = {}
    BY <1>1, <1>5
  <2>6. Owning = {<<p, a>>}
    <3>1. <<p, a>> \in Owning
      BY <1>2, <2>3
    <3>2. ASSUME NEW o \in Owning PROVE o = <<p, a>>
      <4>1. PICK q \in LA9!Procs : \E b \in DOMAIN pt[q] : o = <<q, b>>
        BY <1>2
      <4>2. PICK b \in DOMAIN pt[q] : o = <<q, b>>
        BY <4>1
      <4>3. pt[q][b] = f
        BY <4>2
      <4>4. QED
        BY <2>4, <4>2, <4>3
    <3>3. QED
      BY <3>1, <3>2
  <2>7. Cardinality(Listing) = 0 /\ Cardinality(Owning) = 1
    BY <1>3, <2>5, <2>6, FS_Singleton
  <2>8. QED
    BY <2>7
<1>6. QED
  BY <1>4, <1>5

\* The invariant says where the frames are.
LEMMA PagingConserves ==
  ASSUME LA9!SizeAssumption, LA9!MemoryAssumption, PagingInv
  PROVE  LA9!FramesConserved
<1>1. /\ Placed(freeFrames, pt) /\ LA9!Running \in SUBSET LA9!Procs
      /\ readyQ \in Seq(LA9!Procs) /\ swappedQ \in Seq(LA9!Procs)
      /\ activeProcesses = Cardinality(Members(readyQ) \cup LA9!Running)
      /\ \A p \in Members(readyQ) \cup LA9!Running : LA9!Essential \subseteq DOMAIN pt[p]
      /\ \A p \in LA9!Procs \ (Members(readyQ) \cup LA9!Running) : pt[p] = LA9!NoPages
      /\ Members(readyQ) \cap Members(swappedQ) = {}
      /\ LA9!Running \cap (Members(readyQ) \cup Members(swappedQ)) = {}
      /\ \A p \in LA9!Procs : currentSearch[p] = LA9!searchesPerProcess
                                => p \notin Members(readyQ) \cup Members(swappedQ) \cup LA9!Running
  BY DEF PagingInv, Kept, Standing
<1>2. LA9!Waiting = Members(readyQ) /\ LA9!Swapped = Members(swappedQ)
  <2>1. DOMAIN readyQ = 1 .. Len(readyQ) /\ DOMAIN swappedQ = 1 .. Len(swappedQ)
    BY <1>1
  <2>2. QED
    BY <2>1 DEF LA9!Waiting, LA9!Swapped, Members
<1>3. Members(swappedQ) \subseteq LA9!Procs
  BY <1>1 DEF Members
<1>4. \A f \in LA9!Frames :
        LA9!Cardinality({i \in DOMAIN freeFrames : freeFrames[i] = f})
          + LA9!Cardinality({o \in LA9!Owned : pt[o[1]][o[2]] = f}) = 1
  BY <1>1, PlacedOnce, SameCardinality
<1>5. \A p \in LA9!Waiting \cup LA9!Running : LA9!Essential \subseteq DOMAIN pt[p]
  BY <1>1, <1>2
<1>6. \A p \in LA9!Swapped \cup LA9!Completed : pt[p] = LA9!NoPages
  <2>1. \A p \in LA9!Completed : p \in LA9!Procs /\ currentSearch[p] = LA9!searchesPerProcess
    BY DEF LA9!Completed
  <2>2. QED
    BY <1>1, <1>2, <1>3, <2>1
<1>7. activeProcesses = LA9!Cardinality(LA9!Waiting \cup LA9!Running)
  BY <1>1, <1>2, SameCardinality
<1>8. QED
  BY <1>4, <1>5, <1>6, <1>7 DEF LA9!FramesConserved

\* Also in demandpaging.cpp every user frame is in the list of free frames or
\* under one page of one process, through faults, swapping and exits; who is ready
\* or runs has its essential pages and is counted, and who is swapped out or has
\* ended owns nothing.
THEOREM FramesAlwaysConservedInLA9 ==
  ASSUME LA9!SizeAssumption, LA9!MemoryAssumption
  PROVE  LA9!Spec => []LA9!FramesConserved
<1>1. LA9!Init => PagingInv
  BY LA9Starts
<1>2. PagingInv /\ [LA9!Next]_LA9!vars => PagingInv'
  BY LA9Goes
<1>3. PagingInv => LA9!FramesConserved
  BY PagingConserves
<1>4. QED
  BY <1>1, <1>2, <1>3, PTL DEF LA9!Spec

=============================================================================
