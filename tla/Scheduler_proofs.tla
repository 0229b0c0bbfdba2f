--------------------------- MODULE Scheduler_proofs ---------------------------
(***************************************************************************)
(* Proofs about Scheduler, for any number of tasks, any input files and    *)
(* any quanta: that the heap is one, what it and the ready queue hold, and *)
(* that the times add up.                                                  *)
(***************************************************************************)
EXTENDS Scheduler, FiniteSetTheorems, WellFoundedInduction, TLAPS

-----------------------------------------------------------------------------
(* Numbers and positions.                                                    *)

\* A set of numbers has a least element.
LEMMA LeastNumber ==
  ASSUME NEW S \in SUBSET Nat, S # {}
  PROVE  Min(S) \in S /\ \A x \in S : Min(S) <= x
<1>1. PICK x \in S : \A y \in S : ~ (<<y, x>> \in OpToRel(<, Nat))
  BY NatLessThanWellFounded, WFMin
<1>2. \A y \in S : x <= y
  <2>1. TAKE y \in S
  <2>2. x \in Nat /\ y \in Nat /\ (y < x => <<y, x>> \in OpToRel(<, Nat))
    BY DEF OpToRel
  <2>3. ~ (y < x)
    BY <1>1, <2>2
  <2>4. x \in Nat /\ y \in Nat
    OBVIOUS
  <2>5. QED
    BY <2>3, <2>4
<1>3. QED
  BY <1>2 DEF Min

\* A set that holds each number when it holds all smaller ones holds all.
LEMMA FromSmaller ==
  ASSUME NEW S, \A k \in Nat : (\A i \in 0 .. k - 1 : i \in S) => k \in S
  PROVE  Nat \subseteq S
<1>. DEFINE T == Nat \ S
<1>1. SUFFICES ASSUME T # {} PROVE FALSE
  OBVIOUS
<1>2. Min(T) \in T /\ \A x \in T : Min(T) <= x
  BY <1>1, LeastNumber
<1>3. PICK k : k = Min(T)
  OBVIOUS
<1>4. k \in Nat /\ k \notin S /\ \A i \in 0 .. k - 1 : i \in S
  BY <1>2, <1>3
<1>5. QED
  BY <1>4

\* A bounded set of numbers has a greatest element.
LEMMA GreatestNumber ==
  ASSUME NEW k \in Nat, NEW S \in SUBSET (1 .. k), S # {}
  PROVE  \E x \in S : \A y \in S : y <= x
<1>. DEFINE T == {k - x : x \in S}
<1>1. T \in SUBSET Nat /\ T # {}
  <2>1. \A x \in S : k - x \in Nat
    OBVIOUS
  <2>2. QED
    BY <2>1
<1>2. PICK y \in T : \A z \in T : y <= z
  BY <1>1, LeastNumber
<1>3. PICK x \in S : y = k - x
  BY <1>2
<1>4. \A z \in S : z <= x
  <2>1. TAKE z \in S
  <2>2. k - z \in T /\ k - x <= k - z
    BY <1>2, <1>3
  <2>3. QED
    BY <2>2
<1>5. QED
  BY <1>4

\* The parent of a position.
LEMMA Halves ==
  ASSUME NEW q \in Nat
  PROVE  /\ q \div 2 \in Nat /\ q \div 2 <= q
         /\ q > 0 => q \div 2 < q
         /\ q > 1 => q \div 2 >= 1
         /\ q = 2 * (q \div 2) \/ q = 2 * (q \div 2) + 1
OBVIOUS

\* The positions that every set has that goes from q up to the root.
Upwards(q, S) == q \in S /\ \A x \in S : x > 1 => x \div 2 \in S
Closure(q) == {a \in 1 .. q : \A S \in SUBSET (1 .. q) : Upwards(q, S) => a \in S}

\* They are q and those from its parent.
LEMMA ClosureSteps ==
  ASSUME NEW q \in Nat, q > 0
  PROVE  Closure(q) = {q} \cup Closure(q \div 2)
<1>. DEFINE p == q \div 2
<1>1. p \in Nat /\ p < q /\ (q > 1 => p >= 1) /\ (q = 1 => p = 0)
  BY Halves
<1>. HIDE DEF p
<1>2. ASSUME q > 1
      PROVE  p \in Closure(p) /\ \A x \in Closure(p) : x > 1 => x \div 2 \in Closure(p)
  <2>1. p \in Closure(p)
    BY <1>1, <1>2 DEF Closure, Upwards
  <2>2. ASSUME NEW x \in Closure(p), x > 1
        PROVE  x \div 2 \in Closure(p)
    <3>1. x \in 1 .. p /\ x \div 2 \in 1 .. p
      <4>1. x \in 1 .. p
        BY DEF Closure
      <4>2. x \div 2 \in Nat /\ x \div 2 < x /\ x \div 2 >= 1
        BY <4>1, <2>2, Halves
      <4>3. QED
        BY <1>1, <4>1, <4>2
    <3>2. ASSUME NEW S \in SUBSET (1 .. p), Upwards(p, S)
          PROVE  x \div 2 \in S
      <4>1. x \in S
        BY <3>2 DEF Closure
      <4>2. QED
        BY <4>1, <3>2, <2>2 DEF Upwards
    <3>3. QED
      BY <3>1, <3>2 DEF Closure
  <2>3. QED
    BY <2>1, <2>2
<1>3. ASSUME NEW a \in Closure(q)
      PROVE  a \in {q} \cup Closure(p)
  <2>1. {q} \cup Closure(p) \in SUBSET (1 .. q)
    BY <1>1 DEF Closure
  <2>2. Upwards(q, {q} \cup Closure(p))
    <3>1. q > 1 => q \div 2 = p
      BY DEF p
    <3>2. ASSUME NEW x \in Closure(p), x > 1
          PROVE  x \div 2 \in Closure(p)
      <4>1. q > 1
        BY <1>1, <3>2 DEF Closure
      <4>2. QED
        BY <1>2, <3>2, <4>1
    <3>3. QED
      BY <1>2, <3>1, <3>2 DEF Upwards
  <2>3. QED
    BY <2>1, <2>2 DEF Closure
<1>4. q \in Closure(q)
  BY DEF Closure, Upwards
<1>5. ASSUME NEW a \in Closure(p)
      PROVE  a \in Closure(q)
  <2>1. a \in 1 .. p /\ a \in 1 .. q
    BY <1>1 DEF Closure
  <2>2. ASSUME NEW S \in SUBSET (1 .. q), Upwards(q, S)
        PROVE  a \in S
    <3>1. p \in S /\ p >= 1
      <4>1. q > 1
        BY <1>1, <2>1
      <4>2. q \in S /\ q \div 2 = p
        BY <2>2 DEF Upwards, p
      <4>3. QED
        BY <1>1, <2>2, <4>1, <4>2 DEF Upwards
    <3>2. Upwards(p, S \cap 1 .. p)
      <4>1. p \in S \cap 1 .. p
        BY <1>1, <3>1
      <4>2. ASSUME NEW x \in S \cap 1 .. p, x > 1
            PROVE  x \div 2 \in S \cap 1 .. p
        <5>1. x \div 2 \in S
          BY <2>2, <4>2 DEF Upwards
        <5>2. x \in Nat /\ x <= p
          BY <1>1
        <5>3. x \div 2 \in Nat /\ x \div 2 < x /\ x \div 2 >= 1
          BY <4>2, <5>2, Halves
        <5>4. QED
          BY <1>1, <5>1, <5>2, <5>3
      <4>3. QED
        BY <4>1, <4>2 DEF Upwards
    <3>3. S \cap 1 .. p \in SUBSET (1 .. p)
      OBVIOUS
    <3>4. QED
      BY <3>2, <3>3 DEF Closure
  <2>3. QED
    BY <2>1, <2>2 DEF Closure
<1>6. QED
  BY <1>3, <1>4, <1>5 DEF p

\* The recursion that defines the way to the root has a solution, and is one.
LEMMA AboveSteps ==
  above[0] = {} /\ \A q \in Nat \ {0} : above[q] = {q} \cup above[q \div 2]
<1>. DEFINE Body(f) == [q \in Nat |-> IF q = 0 THEN {} ELSE {q} \cup f[q \div 2]]
            w == [q \in Nat |-> Closure(q)]
<1>1. w = Body(w)
  <2>1. Closure(0) = {}
    BY DEF Closure
  <2>2. \A q \in Nat : q # 0 => Closure(q) = {q} \cup Closure(q \div 2) /\ q \div 2 \in Nat
    BY ClosureSteps, Halves
  <2>3. \A q \in Nat : w[q] = IF q = 0 THEN {} ELSE {q} \cup w[q \div 2]
    BY <2>1, <2>2
  <2>4. QED
    BY <2>3
<1>. HIDE DEF w
<1>2. above = Body(above)
  BY <1>1 DEF above
<1>3. QED
  BY <1>2

\* The way to the root: its ends, its steps, and that there is nothing between
\* two of them.
Path(l) ==
  /\ above[l] \subseteq 1 .. l
  /\ l > 0 => l \in above[l] /\ 1 \in above[l]
  /\ \A x \in above[l] : x > 1 => x \div 2 \in above[l]
  /\ \A x \in above[l] : x # l => \E c \in above[l] : c > x /\ c \div 2 = x
  /\ \A x, y \in above[l] : y < x => y <= x \div 2

\* Every way to the root is such a path.
LEMMA Paths == \A l \in Nat : Path(l)
<1>. DEFINE S == {l \in Nat : Path(l)}
<1>1. SUFFICES ASSUME NEW l \in Nat, \A i \in 0 .. l - 1 : i \in S
               PROVE  l \in S
  <2>1. (\A k \in Nat : (\A i \in 0 .. k - 1 : i \in S) => k \in S) => Nat \subseteq S
    <3>. HIDE DEF S
    <3>1. QED
      BY FromSmaller
  <2>2. QED
    BY <2>1
<1>2. CASE l = 0
  BY <1>2, AboveSteps DEF Path
<1>3. CASE l # 0
  <2>1. PICK p \in Nat : p = l \div 2 /\ p < l /\ (l > 1 => p >= 1) /\ (l = 1 => p = 0)
    BY <1>3, Halves
  <2>2. above[l] = {l} \cup above[p] /\ above[0] = {}
    BY <1>3, <2>1, AboveSteps
  <2>3. Path(p)
    BY <1>1, <2>1
  <2>4. above[l] \subseteq 1 .. l /\ l \in above[l] /\ 1 \in above[l]
    <3>1. above[p] \subseteq 1 .. p /\ (p > 0 => 1 \in above[p])
      BY <2>3 DEF Path
    <3>2. l = 1 \/ p > 0
      BY <1>3, <2>1
    <3>3. QED
      BY <1>3, <2>1, <2>2, <3>1, <3>2
  <2>5. ASSUME NEW x \in above[l], x > 1
        PROVE  x \div 2 \in above[l]
    <3>1. CASE x = l
      BY <2>1, <2>2, <2>3, <2>5, <3>1 DEF Path
    <3>2. CASE x \in above[p]
      BY <2>2, <2>3, <2>5, <3>2 DEF Path
    <3>3. QED
      BY <2>2, <3>1, <3>2
  <2>6. ASSUME NEW x \in above[l], x # l
        PROVE  \E c \in above[l] : c > x /\ c \div 2 = x
    <3>1. x \in above[p]
      BY <2>2, <2>6
    <3>2. CASE x = p
      BY <2>1, <2>4, <3>2
    <3>3. CASE x # p
      BY <2>2, <2>3, <3>1, <3>3 DEF Path
    <3>4. QED
      BY <3>2, <3>3
  <2>7. ASSUME NEW x \in above[l], NEW y \in above[l], y < x
        PROVE  y <= x \div 2
    <3>1. y \in above[p]
      <4>1. y # l
        BY <2>4, <2>7
      <4>2. QED
        BY <2>2, <4>1
    <3>2. CASE x = l
      BY <2>1, <2>3, <3>1, <3>2 DEF Path
    <3>3. CASE x \in above[p]
      BY <2>3, <2>7, <3>1, <3>3 DEF Path
    <3>4. QED
      BY <2>2, <3>2, <3>3
  <2>8. QED
    BY <2>4, <2>5, <2>6, <2>7 DEF Path
<1>4. QED
  BY <1>2, <1>3

-----------------------------------------------------------------------------
(* Events and their order.                                                   *)

Categories == {EVT_START, EVT_COMPLETE, EVT_UNBLOCK, EVT_PREEMPT}
Events == [timestamp : Nat, task_index : Tasks, category : Categories]

\* Of these events each is another task's, and one at most is about the CPU.
Orderly(E) ==
  /\ E \subseteq Events
  /\ \A a, b \in E : a.task_index = b.task_index => a = b
  /\ \A a, b \in E : a.category \notin Arrivals /\ b.category \notin Arrivals => a = b

\* Then of two of them one is handled first, and the order is transitive.  In
\* general it is not: an end of a burst may come by its ID between a timeout and an
\* arrival that precedes the timeout.
LEMMA EventOrder ==
  ASSUME file \in Files, NEW E, Orderly(E), NEW a \in E, NEW b \in E, NEW c \in E
  PROVE  /\ a # b => (compare_events(a, b) <=> ~ compare_events(b, a))
         /\ ~ compare_events(a, a)
         /\ compare_events(a, b) /\ compare_events(b, c) => compare_events(a, c)
<1>1. /\ a.task_index \in Tasks /\ b.task_index \in Tasks /\ c.task_index \in Tasks
      /\ a.timestamp \in Nat /\ b.timestamp \in Nat /\ c.timestamp \in Nat
      /\ a.category \in Categories /\ b.category \in Categories /\ c.category \in Categories
  BY DEF Orderly, Events
<1>2. PICK i, j, k : /\ i = file.task_id[a.task_index] /\ j = file.task_id[b.task_index]
                     /\ k = file.task_id[c.task_index]
  OBVIOUS
<1>3. /\ file.task_id \in [Tasks -> Nat]
      /\ \A t, u \in Tasks : file.task_id[t] = file.task_id[u] => t = u
  BY FileAssumption
<1>4. /\ i \in Nat /\ j \in Nat /\ k \in Nat
      /\ a # b => i # j
      /\ a # c => i # k
      /\ b # c => j # k
  BY <1>1, <1>2, <1>3 DEF Orderly
<1>5. /\ a.category \in Arrivals \/ b.category \in Arrivals \/ a = b
      /\ a.category \in Arrivals \/ c.category \in Arrivals \/ a = c
      /\ b.category \in Arrivals \/ c.category \in Arrivals \/ b = c
  BY DEF Orderly
<1>6. Arrivals = {"START", "UNBLOCK"} /\ EVT_PREEMPT = "PREEMPT"
  BY DEF Arrivals, EVT_START, EVT_UNBLOCK, EVT_PREEMPT
<1>7. PICK s, t, u : s = a.timestamp /\ t = b.timestamp /\ u = c.timestamp
  OBVIOUS
<1>8. PICK x, y, z : x = a.category /\ y = b.category /\ z = c.category
  OBVIOUS
<1>. DEFINE before(s1, x1, i1, s2, x2, i2) ==
       \/ s1 < s2
       \/ /\ s1 = s2
          /\ IF x1 \in Arrivals /\ x2 = EVT_PREEMPT THEN TRUE
             ELSE IF x2 \in Arrivals /\ x1 = EVT_PREEMPT THEN FALSE ELSE i1 < i2
<1>9. /\ compare_events(a, b) <=> before(s, x, i, t, y, j)
      /\ compare_events(b, a) <=> before(t, y, j, s, x, i)
      /\ compare_events(b, c) <=> before(t, y, j, u, z, k)
      /\ compare_events(a, c) <=> before(s, x, i, u, z, k)
      /\ compare_events(a, a) <=> before(s, x, i, s, x, i)
  BY <1>2, <1>7, <1>8 DEF compare_events
<1>10. s \in Nat /\ t \in Nat /\ u \in Nat
  BY <1>1, <1>7
<1>11. /\ x \in Arrivals \/ y \in Arrivals \/ a = b
       /\ x \in Arrivals \/ z \in Arrivals \/ a = c
       /\ y \in Arrivals \/ z \in Arrivals \/ b = c
  BY <1>5, <1>8
<1>12. /\ a = b => i = j /\ s = t /\ x = y
       /\ a = c => i = k /\ s = u /\ x = z
       /\ b = c => j = k /\ t = u /\ y = z
  BY <1>2, <1>7, <1>8
<1>13. EVT_PREEMPT \notin Arrivals
  BY <1>6
<1>14. a # b => (before(s, x, i, t, y, j) <=> ~ before(t, y, j, s, x, i))
  BY <1>4, <1>10, <1>11, <1>13
<1>15. ~ before(s, x, i, s, x, i)
  BY <1>4, <1>10, <1>13
<1>16. ASSUME before(s, x, i, t, y, j), before(t, y, j, u, z, k)
       PROVE  before(s, x, i, u, z, k)
  <2>1. s <= t /\ t <= u
    BY <1>10, <1>16
  <2>2. CASE s < u
    BY <2>2
  <2>3. CASE s = t /\ t = u
    BY <1>4, <1>11, <1>12, <1>13, <1>16, <2>3
  <2>4. QED
    BY <1>10, <2>1, <2>2, <2>3
<1>17. QED
  BY <1>9, <1>14, <1>15, <1>16

-----------------------------------------------------------------------------
(* The heap.                                                                 *)

\* heap holds the events E, each once, and none comes before its parent.
HeapOf(heap, E) ==
  /\ heap \in Seq(E)
  /\ \A i, j \in 1 .. Len(heap) : heap[i] = heap[j] => i = j
  /\ \A e \in E : \E i \in 1 .. Len(heap) : heap[i] = e
  /\ \A q \in 2 .. Len(heap) : compare_events(heap[q \div 2], heap[q])

\* The first place that a new event passes on its way up to the root.
PlaceOf(heap, e) ==
  Min({a \in above[Len(heap) + 1] :
         \A q \in above[Len(heap) + 1] :
            a <= q /\ q < Len(heap) + 1 => compare_events(e, heap[q])})

\* It is a place on that way, before everything from there on and after its parent.
LEMMA PlaceFound ==
  ASSUME NEW heap, NEW e, Len(heap) \in Nat
  PROVE  LET l == Len(heap) + 1  place == PlaceOf(heap, e)
         IN  /\ place \in above[l]
             /\ \A q \in above[l] : place <= q /\ q < l => compare_events(e, heap[q])
             /\ place > 1 => ~ compare_events(e, heap[place \div 2])
<1>1. PICK l \in Nat : l = Len(heap) + 1 /\ l > 0
  OBVIOUS
<1>2. PICK place : place = PlaceOf(heap, e)
  OBVIOUS
<1>3. Path(l)
  BY Paths
<1>. DEFINE P == {a \in above[l] : \A q \in above[l] : a <= q /\ q < l => compare_events(e, heap[q])}
<1>4. P \in SUBSET Nat /\ l \in P
  BY <1>1, <1>3 DEF Path
<1>5. Min(P) \in P /\ \A x \in P : Min(P) <= x
  <2>. HIDE DEF P
  <2>1. QED
    BY <1>4, LeastNumber
<1>6. place = Min(P)
  BY <1>1, <1>2 DEF PlaceOf
<1>7. place \in above[l] /\ (\A q \in above[l] : place <= q /\ q < l => compare_events(e, heap[q]))
  BY <1>5, <1>6
<1>8. ASSUME place > 1
      PROVE  ~ compare_events(e, heap[place \div 2])
  <2>1. place \in 1 .. l
    BY <1>3, <1>7 DEF Path
  <2>2. PICK p \in Nat : p = place \div 2 /\ p < place
    BY <1>8, <2>1, Halves
  <2>3. p \in above[l] /\ p \notin P
    <3>1. p \in above[l]
      BY <1>3, <1>7, <1>8, <2>2 DEF Path
    <3>2. ~ (place <= p)
      BY <2>1, <2>2
    <3>. HIDE DEF P
    <3>3. QED
      BY <1>5, <1>6, <3>1, <3>2
  <2>4. PICK q \in above[l] : p <= q /\ q < l /\ ~ compare_events(e, heap[q])
    BY <2>3
  <2>5. q \in Nat
    BY <1>3, <2>4 DEF Path
  <2>6. q < place
    BY <1>7, <2>1, <2>4, <2>5
  <2>7. q <= p
    BY <1>3, <1>7, <2>2, <2>4, <2>6 DEF Path
  <2>8. QED
    BY <2>2, <2>4, <2>5, <2>7
<1>9. QED
  BY <1>1, <1>2, <1>7, <1>8

\* An event that is pushed joins the others, and the heap stays one.
LEMMA Pushed ==
  ASSUME file \in Files, NEW heap, NEW E, HeapOf(heap, E), NEW e, e \notin E, Orderly(E \cup {e})
  PROVE  HeapOf(event_queue_push(heap, e), E \cup {e})
<1>1. PICK l \in Nat : l = Len(heap) + 1 /\ Len(heap) = l - 1 /\ l > 0
  BY DEF HeapOf
<1>2. PICK place : place = PlaceOf(heap, e)
  OBVIOUS
<1>3. Path(l)
  BY Paths
<1>4. /\ place \in above[l]
      /\ \A q \in above[l] : place <= q /\ q < l => compare_events(e, heap[q])
      /\ place > 1 => ~ compare_events(e, heap[place \div 2])
  BY <1>1, <1>2, PlaceFound
<1>5. place \in 1 .. l /\ above[l] \subseteq 1 .. l
  BY <1>3, <1>4 DEF Path
<1>. DEFINE from(q) == IF q \in above[l] /\ q > place THEN q \div 2 ELSE q
            new == [q \in 1 .. l |-> IF q = place THEN e ELSE heap[from(q)]]
<1>6. event_queue_push(heap, e) = new
  <2>1. event_queue_push(heap, e) =
          [q \in 1 .. l |-> IF q = place THEN e
                            ELSE IF q \in above[l] /\ q > place THEN heap[q \div 2] ELSE heap[q]]
    BY <1>1, <1>2 DEF event_queue_push, PlaceOf
  <2>2. \A q \in 1 .. l : heap[from(q)] = IF q \in above[l] /\ q > place THEN heap[q \div 2] ELSE heap[q]
    OBVIOUS
  <2>3. QED
    BY <2>1, <2>2
<1>7. \A q \in 1 .. l : q # place => from(q) \in 1 .. Len(heap)
  <2>1. TAKE q \in 1 .. l
  <2>2. CASE q \in above[l] /\ q > place
    BY <1>1, <1>5, <2>2, Halves
  <2>3. CASE ~ (q \in above[l] /\ q > place)
    <3>1. l \in above[l]
      BY <1>1, <1>3 DEF Path
    <3>2. QED
      BY <1>1, <1>5, <2>3, <3>1
  <2>4. QED
    BY <2>2, <2>3
<1>8. \A q, r \in 1 .. l : q # place /\ r # place /\ from(q) = from(r) => q = r
  <2>1. SUFFICES ASSUME NEW q \in 1 .. l, NEW r \in 1 .. l, q # place, r # place,
                        from(q) = from(r), q < r
                 PROVE  FALSE
    OBVIOUS
  <2>2. q \div 2 \in Nat /\ q \div 2 < q /\ r \div 2 \in Nat
    BY Halves
  <2>3. CASE q \in above[l] /\ q > place
    <3>1. r \in above[l] /\ r > place
      BY <1>5, <2>1, <2>2, <2>3
    <3>2. q <= r \div 2 /\ r \div 2 = q \div 2
      BY <1>3, <2>1, <2>3, <3>1 DEF Path
    <3>3. QED
      BY <2>2, <3>2
  <2>4. CASE ~ (q \in above[l] /\ q > place)
    <3>1. r \in above[l] /\ r > place /\ q = r \div 2
      BY <2>1, <2>4
    <3>2. q \in above[l]
      BY <1>3, <1>5, <3>1 DEF Path
    <3>3. place <= q
      BY <1>3, <1>4, <3>1 DEF Path
    <3>4. QED
      BY <1>5, <2>1, <2>4, <3>2, <3>3
  <2>5. QED
    BY <2>3, <2>4
<1>9. \A x \in 1 .. Len(heap) : \E q \in 1 .. l : q # place /\ from(q) = x
  <2>1. TAKE x \in 1 .. Len(heap)
  <2>2. CASE x \in above[l] /\ x >= place
    <3>. x # l
      BY <1>1
    <3>1. PICK c \in above[l] : c > x /\ c \div 2 = x
      BY <1>3, <2>2 DEF Path
    <3>2. c \in 1 .. l /\ c > place
      BY <1>5, <2>2, <3>1
    <3>3. QED
      BY <3>1, <3>2
  <2>3. CASE ~ (x \in above[l] /\ x >= place)
    BY <1>1, <1>4, <1>5, <2>3
  <2>4. QED
    BY <2>2, <2>3
<1>. HIDE DEF from
<1>10. /\ \A q \in 1 .. Len(heap) : heap[q] \in E
       /\ \A i, j \in 1 .. Len(heap) : heap[i] = heap[j] => i = j
       /\ \A x \in E : \E i \in 1 .. Len(heap) : heap[i] = x
       /\ \A q \in 2 .. Len(heap) : compare_events(heap[q \div 2], heap[q])
  BY DEF HeapOf
<1>11. new \in Seq(E \cup {e}) /\ Len(new) = l /\ \A q \in 1 .. l : new[q] = IF q = place THEN e ELSE heap[from(q)]
  <2>1. \A q \in 1 .. l : new[q] \in E \cup {e}
    BY <1>7, <1>10
  <2>2. QED
    BY <1>1, <2>1
<1>. HIDE DEF new
<1>12. \A i, j \in 1 .. l : new[i] = new[j] => i = j
  BY <1>7, <1>8, <1>10, <1>11
<1>13. \A x \in E \cup {e} : \E i \in 1 .. l : new[i] = x
  <2>1. new[place] = e /\ place \in 1 .. l
    BY <1>5, <1>11
  <2>2. ASSUME NEW x \in E PROVE \E i \in 1 .. l : new[i] = x
    BY <1>9, <1>10, <1>11
  <2>3. QED
    BY <2>1, <2>2
<1>14. ASSUME NEW q \in 2 .. l
       PROVE  compare_events(new[q \div 2], new[q])
  <2>1. PICK p \in Nat : p = q \div 2 /\ p < q /\ p >= 1
    BY Halves
  <2>2. p \in 1 .. l /\ q \in 1 .. l /\ p \in 1 .. Len(heap)
    BY <1>1, <2>1
  <2>3. ASSUME NEW r \in 1 .. l, r # place, ~ (r \in above[l] /\ r > place)
        PROVE  new[r] = heap[r] /\ r \in 1 .. Len(heap)
    BY <1>7, <1>11, <2>3 DEF from
  <2>4. ASSUME NEW r \in 1 .. l, r \in above[l], r > place
        PROVE  new[r] = heap[r \div 2]
    BY <1>5, <1>11, <2>4 DEF from
  <2>5. \A a, b, c \in E \cup {e} : compare_events(a, b) /\ compare_events(b, c) => compare_events(a, c)
    BY EventOrder
  <2>6. \A a, b \in E \cup {e} : a # b => (compare_events(a, b) <=> ~ compare_events(b, a))
    BY EventOrder
  <2>7. CASE q \notin above[l]
    <3>1. new[q] = heap[q] /\ q \in 1 .. Len(heap) /\ compare_events(heap[p], heap[q])
      <4>1. q # place
        BY <1>4, <2>7
      <4>2. QED
        BY <1>10, <2>1, <2>2, <2>3, <2>7, <4>1
    <3>2. CASE p = place
      <4>1. new[p] = e /\ compare_events(e, heap[p])
        BY <1>1, <1>4, <1>11, <2>1, <2>2, <3>2
      <4>2. heap[p] \in E \cup {e} /\ heap[q] \in E \cup {e} /\ e \in E \cup {e}
        BY <1>10, <2>2, <3>1
      <4>3. compare_events(e, heap[q])
        BY <2>5, <3>1, <4>1, <4>2
      <4>4. QED
        BY <2>1, <3>1, <4>1, <4>3
    <3>3. CASE p \in above[l] /\ p > place
      <4>1. new[p] = heap[p \div 2] /\ p \div 2 \in 1 .. Len(heap) /\ p \in 2 .. Len(heap)
        <5>1. p > 1 /\ p \div 2 >= 1 /\ p \div 2 < p /\ p \div 2 \in Nat
          BY <1>5, <2>1, <3>3, Halves
        <5>2. QED
          BY <1>1, <2>2, <2>4, <3>3, <5>1
      <4>2. compare_events(heap[p \div 2], heap[p])
        BY <1>10, <4>1
      <4>3. QED
        BY <1>10, <2>1, <2>2, <2>5, <3>1, <4>1, <4>2
    <3>4. CASE p # place /\ ~ (p \in above[l] /\ p > place)
      BY <2>1, <2>2, <2>3, <3>1, <3>4
    <3>5. QED
      BY <3>2, <3>3, <3>4
  <2>8. CASE q \in above[l] /\ q > place
    <3>1. new[q] = heap[p]
      BY <2>1, <2>2, <2>4, <2>8
    <3>2. p \in above[l] /\ place <= p
      BY <1>3, <1>4, <2>1, <2>8 DEF Path
    <3>3. CASE p = place
      <4>1. new[p] = e /\ compare_events(e, heap[p])
        BY <1>1, <1>4, <1>11, <2>2, <3>2, <3>3
      <4>2. QED
        BY <2>1, <3>1, <4>1
    <3>4. CASE p > place
      <4>1. new[p] = heap[p \div 2] /\ p \in 2 .. Len(heap)
        BY <1>1, <1>5, <2>2, <2>4, <3>2, <3>4
      <4>2. QED
        BY <1>10, <2>1, <3>1, <4>1
    <3>5. QED
      BY <1>5, <2>1, <3>2, <3>3, <3>4
  <2>9. CASE q = place
    <3>1. new[q] = e /\ ~ compare_events(e, heap[p])
      BY <1>4, <1>11, <2>1, <2>2, <2>9
    <3>2. new[p] = heap[p]
      BY <1>5, <2>1, <2>2, <2>3, <2>9
    <3>3. heap[p] \in E /\ heap[p] # e
      BY <1>10, <2>2
    <3>4. QED
      BY <2>1, <2>6, <3>1, <3>2, <3>3
  <2>10. CASE q \in above[l] /\ q < place
    <3>1. new[q] = heap[q] /\ new[p] = heap[p] /\ q \in 1 .. Len(heap)
      BY <1>5, <2>1, <2>2, <2>3, <2>10
    <3>2. QED
      BY <1>10, <2>1, <3>1
  <2>11. QED
    BY <1>5, <2>7, <2>8, <2>9, <2>10
<1>15. QED
  BY <1>6, <1>11, <1>12, <1>13, <1>14 DEF HeapOf

\* The first of the children that the last event passes is one.
LEMMA FirstChild ==
  ASSUME file \in Files, NEW heap, NEW E, HeapOf(heap, E), Orderly(E),
         NEW q \in Nat, q > 0, Below(heap, q) # {}
  PROVE  /\ Child(heap, q) \in Below(heap, q)
         /\ Child(heap, q) \div 2 = q /\ Child(heap, q) \in 1 .. Len(heap) - 1 /\ Child(heap, q) > q
         /\ \A d \in Below(heap, q) : d = Child(heap, q) \/ compare_events(heap[Child(heap, q)], heap[d])
<1>. DEFINE B == Below(heap, q)
<1>1. \A c \in B : c \in {2 * q, 2 * q + 1} /\ c < Len(heap)
  BY DEF Below
<1>2. \E c \in B : \A d \in B \ {c} : compare_events(heap[c], heap[d])
  <2>1. CASE \E x \in B : B = {x}
    BY <2>1
  <2>2. CASE \A x \in B : B # {x}
    <3>1. PICK x \in B, y \in B : x # y
      BY <2>2
    <3>2. B = {x, y}
      <4>1. x \in {2 * q, 2 * q + 1} /\ y \in {2 * q, 2 * q + 1}
        BY <1>1
      <4>2. {2 * q, 2 * q + 1} = {x, y}
        BY <3>1, <4>1
      <4>3. QED
        BY <1>1, <3>1, <4>2
    <3>3. x \in 1 .. Len(heap) /\ y \in 1 .. Len(heap)
      <4>1. x \in {2 * q, 2 * q + 1} /\ y \in {2 * q, 2 * q + 1} /\ x < Len(heap) /\ y < Len(heap)
        BY <1>1
      <4>2. Len(heap) \in Nat
        BY DEF HeapOf
      <4>3. QED
        BY <4>1, <4>2
    <3>4. heap[x] \in E /\ heap[y] \in E /\ heap[x] # heap[y]
      <4>1. /\ \A i \in 1 .. Len(heap) : heap[i] \in E
            /\ \A i, j \in 1 .. Len(heap) : heap[i] = heap[j] => i = j
        BY DEF HeapOf
      <4>2. QED
        BY <3>1, <3>3, <4>1
    <3>5. compare_events(heap[x], heap[y]) \/ compare_events(heap[y], heap[x])
      BY <3>4, EventOrder
    <3>6. B \ {x} \subseteq {y} /\ B \ {y} \subseteq {x}
      BY <3>2
    <3>7. QED
      BY <3>1, <3>5, <3>6
  <2>3. QED
    BY <2>1, <2>2
<1>3. PICK c : c = Child(heap, q)
  OBVIOUS
<1>4. c \in B /\ \A d \in B \ {c} : compare_events(heap[c], heap[d])
  BY <1>2, <1>3 DEF Child
<1>5. c \div 2 = q /\ c \in 1 .. Len(heap) - 1 /\ c > q
  <2>1. c \in {2 * q, 2 * q + 1} /\ c < Len(heap) /\ Len(heap) \in Nat
    BY <1>1, <1>4 DEF HeapOf
  <2>2. QED
    BY <2>1
<1>6. QED
  BY <1>3, <1>4, <1>5

\* The places on the way down: the root, and below each the first child that the
\* last event passes, if there is one.
LEMMA SinkingSteps ==
  ASSUME file \in Files, NEW heap, NEW E, HeapOf(heap, E), Orderly(E)
  PROVE  /\ Len(heap) > 1 => 1 \in Sinking(heap)
         /\ \A q \in Sinking(heap) : Below(heap, q) # {} => Child(heap, q) \in Sinking(heap)
         /\ \A q \in Sinking(heap) : q > 1 => /\ q \div 2 \in Sinking(heap)
                                              /\ Below(heap, q \div 2) # {} /\ q = Child(heap, q \div 2)
<1>. DEFINE ok(a) == Below(heap, a \div 2) # {} /\ a = Child(heap, a \div 2)
<1>1. \A q : q \in Sinking(heap) <=> q \in 1 .. Len(heap) - 1 /\ \A a \in above[q] \ {1} : ok(a)
  BY DEF Sinking
<1>. HIDE DEF ok
<1>2. Len(heap) > 1 => 1 \in Sinking(heap)
  <2>1. above[1] \subseteq {1}
    BY Paths DEF Path
  <2>2. QED
    BY <1>1, <2>1 DEF HeapOf
<1>3. ASSUME NEW q \in Sinking(heap), Below(heap, q) # {}
      PROVE  Child(heap, q) \in Sinking(heap)
  <2>1. q \in Nat /\ q > 0 /\ \A a \in above[q] \ {1} : ok(a)
    BY <1>1
  <2>2. PICK c \in 1 .. Len(heap) - 1 : c = Child(heap, q) /\ c \div 2 = q
    BY <1>3, <2>1, FirstChild
  <2>3. above[c] = {c} \cup above[q]
    BY <2>2, AboveSteps
  <2>4. ok(c)
    BY <1>3, <2>2 DEF ok
  <2>5. QED
    BY <1>1, <2>1, <2>2, <2>3, <2>4
<1>4. ASSUME NEW q \in Sinking(heap), q > 1
      PROVE  /\ q \div 2 \in Sinking(heap)
             /\ Below(heap, q \div 2) # {} /\ q = Child(heap, q \div 2)
  <2>1. q \in 1 .. Len(heap) - 1 /\ \A a \in above[q] \ {1} : ok(a)
    BY <1>1
  <2>2. PICK p \in Nat : p = q \div 2 /\ p >= 1 /\ p < q
    BY <1>4, <2>1, Halves
  <2>3. above[q] = {q} \cup above[p]
    BY <1>4, <2>1, <2>2, AboveSteps
  <2>4. ok(q)
    BY <1>4, <2>1, <2>3
  <2>5. p \in Sinking(heap)
    <3>1. p \in 1 .. Len(heap) - 1
      BY <2>1, <2>2
    <3>2. QED
      BY <1>1, <2>1, <2>3, <3>1
  <2>6. QED
    BY <2>2, <2>4, <2>5 DEF ok
<1>5. QED
  BY <1>2, <1>3, <1>4

\* What is handled next is at the root.
LEMMA RootIsFirst ==
  ASSUME file \in Files, NEW heap, NEW E, HeapOf(heap, E), Orderly(E),
         NEW e \in E
  PROVE  e = heap[1] \/ compare_events(heap[1], e)
<1>1. PICK m \in Nat : m = Len(heap)
  BY DEF HeapOf
<1>. DEFINE S == {i \in Nat : i \in 2 .. m => compare_events(heap[1], heap[i])}
<1>2. ASSUME NEW k \in Nat, \A i \in 0 .. k - 1 : i \in S
      PROVE  k \in S
  <2>1. SUFFICES ASSUME k \in 2 .. m PROVE compare_events(heap[1], heap[k])
    OBVIOUS
  <2>2. PICK p \in Nat : p = k \div 2 /\ p >= 1 /\ p < k
    BY <2>1, Halves
  <2>3. compare_events(heap[p], heap[k])
    BY <1>1, <2>1, <2>2 DEF HeapOf
  <2>4. CASE p = 1
    BY <2>3, <2>4
  <2>5. CASE p > 1
    <3>1. p \in S /\ p \in 2 .. m
      BY <1>2, <2>1, <2>2, <2>5
    <3>2. compare_events(heap[1], heap[p])
      BY <3>1
    <3>3. heap[1] \in E /\ heap[p] \in E /\ heap[k] \in E
      BY <1>1, <2>1, <3>1 DEF HeapOf
    <3>4. QED
      BY <2>3, <3>2, <3>3, EventOrder
  <2>6. QED
    BY <2>2, <2>4, <2>5
<1>3. Nat \subseteq S
  <2>1. \A k \in Nat : (\A i \in 0 .. k - 1 : i \in S) => k \in S
    BY <1>2
  <2>. HIDE DEF S
  <2>2. QED
    BY <2>1, FromSmaller
<1>4. PICK i \in 1 .. m : heap[i] = e
  BY <1>1 DEF HeapOf
<1>5. CASE i = 1
  BY <1>4, <1>5
<1>6. CASE i > 1
  BY <1>3, <1>4, <1>6
<1>7. QED
  BY <1>5, <1>6

\* The event at the root is taken out, and the heap stays one.
LEMMA Popped ==
  ASSUME file \in Files, NEW heap, NEW E, HeapOf(heap, E), Orderly(E), heap # <<>>
  PROVE  HeapOf(event_queue_pop(heap), E \ {heap[1]})
<1>1. PICK m \in Nat : m = Len(heap) /\ m >= 1
  BY DEF HeapOf
<1>2. /\ \A q \in 1 .. m : heap[q] \in E
      /\ \A i, j \in 1 .. m : heap[i] = heap[j] => i = j
      /\ \A x \in E : \E i \in 1 .. m : heap[i] = x
      /\ \A q \in 2 .. m : compare_events(heap[q \div 2], heap[q])
  BY <1>1 DEF HeapOf
<1>. DEFINE S == Sinking(heap)
            B(q) == Below(heap, q)
            C(q) == Child(heap, q)
<1>3. S \subseteq 1 .. m - 1
  BY <1>1 DEF Sinking
<1>4. /\ m > 1 => 1 \in S
      /\ \A q \in S : B(q) # {} => C(q) \in S
      /\ \A q \in S : q > 1 => q \div 2 \in S /\ B(q \div 2) # {} /\ q = C(q \div 2)
  BY <1>1, SinkingSteps
<1>5. \A q \in S : B(q) # {} =>
        /\ C(q) \in B(q) /\ C(q) \div 2 = q /\ C(q) \in 1 .. m - 1 /\ C(q) > q
        /\ \A d \in B(q) : d = C(q) \/ compare_events(heap[C(q)], heap[d])
  BY <1>1, <1>3, FirstChild
<1>6. \A q \in 1 .. m - 1 : \A d : d \in B(q) <=> d \in {2 * q, 2 * q + 1} /\ d < m /\ compare_events(heap[d], heap[m])
  BY <1>1 DEF Below
<1>. DEFINE from(q) == IF q \notin S THEN q ELSE IF B(q) = {} THEN m ELSE C(q)
            new == [q \in 1 .. m - 1 |-> heap[from(q)]]
            g == [q \in 1 .. m - 1 |-> from(q)]
<1>7. event_queue_pop(heap) = new
  <2>1. event_queue_pop(heap) =
          [q \in 1 .. m - 1 |-> IF q \notin S THEN heap[q] ELSE IF B(q) = {} THEN heap[m] ELSE heap[C(q)]]
    BY <1>1 DEF event_queue_pop
  <2>2. \A q \in 1 .. m - 1 : heap[from(q)] = IF q \notin S THEN heap[q] ELSE IF B(q) = {} THEN heap[m] ELSE heap[C(q)]
    OBVIOUS
  <2>3. QED
    BY <2>1, <2>2
<1>. HIDE DEF S, B, C
<1>8. \A q \in 1 .. m - 1 : from(q) \in 2 .. m
  <2>1. TAKE q \in 1 .. m - 1
  <2>2. CASE q \notin S
    BY <1>4, <2>2
  <2>3. CASE q \in S /\ B(q) = {}
    BY <2>3
  <2>4. CASE q \in S /\ B(q) # {}
    BY <1>5, <2>4
  <2>5. QED
    BY <2>2, <2>3, <2>4
<1>9. \A x \in 2 .. m : \E q \in 1 .. m - 1 : from(q) = x
  <2>1. TAKE x \in 2 .. m
  <2>2. CASE x \notin S /\ x < m
    BY <2>2
  <2>3. CASE x \in S
    <3>1. PICK p : p = x \div 2
      OBVIOUS
    <3>2. p \in S /\ B(p) # {} /\ x = C(p)
      BY <1>4, <2>3, <3>1
    <3>3. QED
      BY <1>3, <3>2
  <2>4. CASE x = m
    <3>1. 1 \in S /\ S \in SUBSET (1 .. m - 1) /\ m - 1 \in Nat
      BY <1>3, <1>4, <2>4
    <3>2. PICK z \in S : \A y \in S : y <= z
      BY <3>1, GreatestNumber
    <3>3. B(z) = {}
      <4>1. SUFFICES ASSUME B(z) # {} PROVE FALSE
        OBVIOUS
      <4>2. PICK y : y = C(z)
        OBVIOUS
      <4>3. y \in S /\ y > z /\ y \in 1 .. m - 1 /\ z \in 1 .. m - 1
        BY <1>3, <1>4, <1>5, <4>1, <4>2
      <4>4. QED
        BY <3>2, <4>3
    <3>4. QED
      BY <1>3, <2>4, <3>2, <3>3
  <2>5. QED
    BY <2>2, <2>3, <2>4
<1>. HIDE DEF from
<1>10. \A q, r \in 1 .. m - 1 : from(q) = from(r) => q = r
  <2>1. g \in Surjection(1 .. m - 1, 2 .. m)
    BY <1>8, <1>9 DEF Surjection
  <2>2. /\ IsFiniteSet(1 .. m - 1) /\ Cardinality(1 .. m - 1) = m - 1
        /\ IsFiniteSet(2 .. m) /\ Cardinality(2 .. m) = m - 1
    <3>1. 1 \in Int /\ 2 \in Int /\ m \in Int /\ m - 1 \in Int
      BY <1>1
    <3>2. /\ IsFiniteSet(1 .. m - 1)
          /\ Cardinality(1 .. m - 1) = IF 1 > m - 1 THEN 0 ELSE m - 1 - 1 + 1
      BY <3>1, FS_Interval
    <3>3. IsFiniteSet(2 .. m) /\ Cardinality(2 .. m) = IF 2 > m THEN 0 ELSE m - 2 + 1
      BY <3>1, FS_Interval
    <3>4. (1 > m - 1 => m - 1 = 0) /\ m - 1 - 1 + 1 = m - 1 /\ m - 2 + 1 = m - 1 /\ (2 > m => m - 1 = 0)
      BY <1>1
    <3>5. QED
      BY <3>2, <3>3, <3>4
  <2>3. g \in Injection(1 .. m - 1, 2 .. m)
    <3>. HIDE DEF g
    <3>1. QED
      BY <2>1, <2>2, FS_SurjSameCardinalityImpliesInj
  <2>4. QED
    BY <2>3 DEF Injection, IsInjective
<1>11. new \in Seq(E \ {heap[1]}) /\ Len(new) = m - 1 /\ \A q \in 1 .. m - 1 : new[q] = heap[from(q)]
  <2>1. \A q \in 1 .. m - 1 : new[q] \in E \ {heap[1]}
    <3>1. TAKE q \in 1 .. m - 1
    <3>2. PICK x \in 2 .. m : x = from(q)
      BY <1>8
    <3>3. heap[x] \in E /\ heap[x] # heap[1]
      BY <1>1, <1>2
    <3>4. QED
      BY <3>2, <3>3
  <2>2. QED
    BY <1>1, <2>1
<1>. HIDE DEF new, g
<1>12. \A i, j \in 1 .. m - 1 : new[i] = new[j] => i = j
  <2>1. TAKE i, j \in 1 .. m - 1
  <2>2. PICK x \in 2 .. m, y \in 2 .. m : x = from(i) /\ y = from(j)
    BY <1>8
  <2>3. heap[x] = heap[y] => x = y
    BY <1>2
  <2>4. QED
    BY <1>10, <1>11, <2>2, <2>3
<1>13. \A x \in E \ {heap[1]} : \E i \in 1 .. m - 1 : new[i] = x
  <2>1. TAKE x \in E \ {heap[1]}
  <2>2. PICK j \in 1 .. m : heap[j] = x
    BY <1>2
  <2>3. j \in 2 .. m
    BY <2>1, <2>2
  <2>4. QED
    BY <1>9, <1>11, <2>2, <2>3
<1>14. ASSUME NEW q \in 2 .. m - 1
       PROVE  compare_events(new[q \div 2], new[q])
  <2>1. PICK p \in Nat : p = q \div 2 /\ p < q /\ p >= 1 /\ q \in {2 * p, 2 * p + 1}
    BY Halves
  <2>2. p \in 1 .. m - 1 /\ q \in 1 .. m - 1 /\ q \in 2 .. m /\ m \in 1 .. m /\ q # m
    BY <1>1, <2>1
  <2>3. compare_events(heap[p], heap[q])
    BY <1>2, <2>1, <2>2
  <2>4. heap[q] \in E /\ heap[m] \in E /\ heap[q] # heap[m]
    BY <1>2, <2>2
  <2>5. compare_events(heap[q], heap[m]) \/ compare_events(heap[m], heap[q])
    BY <2>4, EventOrder
  <2>6. q \in B(p) <=> compare_events(heap[q], heap[m])
    <3>1. q < m /\ q \in {2 * p, 2 * p + 1} /\ p \in 1 .. m - 1
      BY <1>1, <2>1, <2>2
    <3>2. q \in B(p) <=> q \in {2 * p, 2 * p + 1} /\ q < m /\ compare_events(heap[q], heap[m])
      BY <1>6, <3>1
    <3>3. QED
      BY <3>1, <3>2
  <2>7. q \in S => p \in S /\ B(p) # {} /\ q = C(p)
    BY <1>4, <2>1
  <2>8. q \notin S => new[q] = heap[q]
    BY <1>11, <2>2 DEF from
  <2>9. CASE p \notin S
    <3>1. new[p] = heap[p]
      BY <1>11, <2>2, <2>9 DEF from
    <3>2. QED
      BY <2>1, <2>3, <2>7, <2>8, <2>9, <3>1
  <2>10. CASE p \in S /\ B(p) = {}
    <3>1. new[p] = heap[m]
      BY <1>11, <2>2, <2>10 DEF from
    <3>2. QED
      BY <2>1, <2>5, <2>6, <2>7, <2>8, <2>10, <3>1
  <2>11. CASE p \in S /\ B(p) # {}
    <3>1. PICK c : c = C(p)
      OBVIOUS
    <3>2. new[p] = heap[c]
      BY <1>11, <2>2, <2>11, <3>1 DEF from
    <3>3. /\ c \in B(p) /\ c \in 1 .. m - 1 /\ c \in S
          /\ \A d \in B(p) : d = c \/ compare_events(heap[c], heap[d])
      BY <1>4, <1>5, <2>11, <3>1
    <3>4. compare_events(heap[c], heap[m]) /\ heap[c] \in E
      <4>1. c \in 1 .. m
        BY <1>1, <3>3
      <4>2. QED
        BY <1>2, <1>6, <2>2, <3>3, <4>1
    <3>5. CASE q = c /\ B(q) = {}
      <4>1. new[q] = heap[m]
        BY <1>11, <2>2, <3>3, <3>5 DEF from
      <4>2. QED
        BY <2>1, <3>2, <3>4, <4>1
    <3>6. CASE q = c /\ B(q) # {}
      <4>1. PICK d : d = C(q)
        OBVIOUS
      <4>2. new[q] = heap[d] /\ d \div 2 = q /\ d \in 1 .. m - 1 /\ d > q
        BY <1>5, <1>11, <2>2, <3>3, <3>6, <4>1 DEF from
      <4>3. d \in 2 .. m
        BY <2>2, <4>2
      <4>4. compare_events(heap[q], heap[d])
        BY <1>2, <4>2, <4>3
      <4>5. QED
        BY <2>1, <3>2, <3>6, <4>2, <4>4
    <3>7. CASE q # c
      <4>1. new[q] = heap[q]
        BY <2>7, <2>8, <3>1, <3>7
      <4>2. CASE q \in B(p)
        BY <2>1, <3>2, <3>3, <3>7, <4>1, <4>2
      <4>3. CASE q \notin B(p)
        <5>1. compare_events(heap[m], heap[q])
          BY <2>5, <2>6, <4>3
        <5>2. compare_events(heap[c], heap[q])
          BY <2>4, <3>4, <5>1, EventOrder
        <5>3. QED
          BY <2>1, <3>2, <4>1, <5>2
      <4>4. QED
        BY <4>2, <4>3
    <3>8. QED
      BY <3>5, <3>6, <3>7
  <2>12. QED
    BY <2>9, <2>10, <2>11
<1>15. QED
  BY <1>7, <1>11, <1>12, <1>13, <1>14 DEF HeapOf

-----------------------------------------------------------------------------
(* The arrivals.                                                             *)

\* The arrival of task t.
Arrival(t) == [timestamp |-> file.start_time[t], task_index |-> t, category |-> EVT_START]

\* The heaps of the arrivals of the first k tasks.
Loading(h, k) ==
  h = [i \in 0 .. k |-> IF i = 0 THEN <<>> ELSE event_queue_push(h[i - 1], Arrival(i - 1))]

\* The loop over the tasks has a result.
LEMMA LoadingEnds == \A k \in Nat : \E h : Loading(h, k)
<1>. DEFINE S == {k \in Nat : \E h : Loading(h, k)}
<1>1. ASSUME NEW k \in Nat, \A i \in 0 .. k - 1 : i \in S
      PROVE  k \in S
  <2>1. CASE k = 0
    <3>1. Loading([i \in 0 .. 0 |-> <<>>], 0)
      BY DEF Loading
    <3>2. QED
      BY <2>1, <3>1
  <2>2. CASE k > 0
    <3>1. PICK h : Loading(h, k - 1)
      BY <1>1, <2>2
    <3>. DEFINE g == [i \in 0 .. k |-> IF i = k THEN event_queue_push(h[k - 1], Arrival(k - 1)) ELSE h[i]]
    <3>2. \A i \in 0 .. k - 1 : g[i] = h[i]
      OBVIOUS
    <3>3. \A i \in 0 .. k - 1 : h[i] = IF i = 0 THEN <<>> ELSE event_queue_push(h[i - 1], Arrival(i - 1))
      BY <3>1 DEF Loading
    <3>4. ASSUME NEW i \in 0 .. k
          PROVE  g[i] = IF i = 0 THEN <<>> ELSE event_queue_push(g[i - 1], Arrival(i - 1))
      <4>1. CASE i = k
        <5>1. k - 1 \in 0 .. k - 1
          BY <2>2
        <5>2. g[k] = event_queue_push(h[k - 1], Arrival(k - 1)) /\ g[k - 1] = h[k - 1]
          BY <3>2, <5>1
        <5>. HIDE DEF g
        <5>3. QED
          BY <2>2, <4>1, <5>2
      <4>2. CASE i # k
        <5>1. i \in 0 .. k - 1 /\ (i # 0 => i - 1 \in 0 .. k - 1)
          BY <4>2
        <5>. HIDE DEF g
        <5>2. QED
          BY <3>2, <3>3, <5>1
      <4>3. QED
        BY <4>1, <4>2
    <3>5. Loading(g, k)
      <4>1. g = [i \in 0 .. k |-> g[i]]
        OBVIOUS
      <4>. HIDE DEF g
      <4>2. QED
        BY <3>4, <4>1 DEF Loading
    <3>6. QED
      BY <3>5
  <2>3. QED
    BY <2>1, <2>2
<1>2. Nat \subseteq S
  <2>1. \A k \in Nat : (\A i \in 0 .. k - 1 : i \in S) => k \in S
    BY <1>1
  <2>. HIDE DEF S
  <2>2. QED
    BY <2>1, FromSmaller
<1>3. QED
  BY <1>2

\* The arrivals are events of different tasks.
LEMMA ArrivalsAreOrderly ==
  ASSUME file \in Files, NEW T, T \subseteq Tasks
  PROVE  Orderly({Arrival(t) : t \in T})
<1>1. \A t \in T : Arrival(t) \in Events
  BY FileAssumption DEF Arrival, Events, Categories
<1>2. \A t \in T : Arrival(t).task_index = t /\ Arrival(t).category \in Arrivals
  BY DEF Arrival, Arrivals
<1>3. QED
  BY <1>1, <1>2 DEF Orderly

\* The heap of the start of a run holds the arrival of every task.
LEMMA AllArrive ==
  ASSUME file \in Files
  PROVE  HeapOf(arrivals, {Arrival(t) : t \in Tasks})
<1>1. n \in Nat
  BY SizeAssumption
<1>2. PICK h : Loading(h, n) /\ arrivals = h[n]
  <2>. DEFINE Body(f) == [k \in 0 .. n |-> IF k = 0 THEN <<>> ELSE event_queue_push(f[k - 1], Arrival(k - 1))]
              heap == CHOOSE f : f = Body(f)
  <2>1. arrivals = heap[n]
    BY DEF arrivals, Arrival
  <2>2. \E f : f = Body(f)
    BY <1>1, LoadingEnds DEF Loading
  <2>3. Loading(heap, n)
    <3>1. heap = Body(heap)
      BY <2>2
    <3>. HIDE DEF heap
    <3>2. QED
      BY <3>1 DEF Loading
  <2>4. QED
    BY <2>1, <2>3
<1>. DEFINE A(k) == {Arrival(t) : t \in 0 .. k - 1}
            S == {k \in Nat : k <= n => HeapOf(h[k], A(k))}
<1>3. ASSUME NEW k \in Nat, \A i \in 0 .. k - 1 : i \in S
      PROVE  k \in S
  <2>1. SUFFICES ASSUME k <= n PROVE HeapOf(h[k], A(k))
    OBVIOUS
  <2>2. CASE k = 0
    <3>1. h[0] = <<>> /\ A(0) = {}
      BY <1>1, <1>2 DEF Loading
    <3>2. QED
      BY <2>2, <3>1 DEF HeapOf
  <2>3. CASE k > 0
    <3>1. PICK j \in Nat : j = k - 1 /\ k = j + 1 /\ j \in Tasks /\ 0 .. k - 1 = (0 .. j - 1) \cup {j}
      BY <1>1, <2>1, <2>3 DEF Tasks
    <3>2. HeapOf(h[j], A(j))
      <4>1. j \in S /\ j <= n
        <5>1. j \in 0 .. k - 1 /\ j <= n
          BY <1>1, <2>1, <3>1
        <5>. HIDE DEF S
        <5>2. QED
          BY <1>3, <5>1
      <4>2. QED
        BY <4>1
    <3>3. h[k] = event_queue_push(h[j], Arrival(j))
      <4>1. k \in 0 .. n /\ k # 0 /\ k - 1 = j
        BY <1>1, <2>1, <2>3, <3>1
      <4>2. QED
        BY <1>2, <4>1 DEF Loading
    <3>4. Arrival(j) \notin A(j)
      <4>1. \A t \in 0 .. j - 1 : Arrival(t).task_index # Arrival(j).task_index
        BY <3>1 DEF Arrival
      <4>2. QED
        BY <4>1
    <3>5. A(k) = A(j) \cup {Arrival(j)}
      BY <3>1
    <3>6. Orderly(A(k))
      <4>1. 0 .. k - 1 \subseteq Tasks
        BY <1>1, <2>1 DEF Tasks
      <4>2. QED
        BY <4>1, ArrivalsAreOrderly
    <3>. HIDE DEF A
    <3>7. QED
      BY <3>2, <3>3, <3>4, <3>5, <3>6, Pushed
  <2>4. QED
    BY <2>2, <2>3
<1>4. Nat \subseteq S
  <2>1. \A k \in Nat : (\A i \in 0 .. k - 1 : i \in S) => k \in S
    BY <1>3
  <2>. HIDE DEF S
  <2>2. QED
    BY <2>1, FromSmaller
<1>5. QED
  BY <1>1, <1>2, <1>4 DEF Tasks

-----------------------------------------------------------------------------
(* Sums.                                                                     *)

\* f holds the sums of the first numbers of s, up to k of them.
Sums(f, s, k) ==
  /\ f \in [0 .. k -> Int] /\ f[0] = 0
  /\ \A i \in 1 .. k : f[i] = f[i - 1] + s[i]

\* There is such an f.
LEMMA SumsExist ==
  ASSUME NEW m \in Nat, NEW s \in [1 .. m -> Int]
  PROVE  \E f : Sums(f, s, m)
<1>. DEFINE S == {k \in Nat : k <= m => \E f : Sums(f, s, k)}
<1>1. ASSUME NEW k \in Nat, \A i \in 0 .. k - 1 : i \in S
      PROVE  k \in S
  <2>1. SUFFICES ASSUME k <= m PROVE \E f : Sums(f, s, k)
    OBVIOUS
  <2>2. CASE k = 0
    <3>1. Sums([i \in 0 .. 0 |-> 0], s, 0)
      BY DEF Sums
    <3>2. QED
      BY <2>2, <3>1
  <2>3. CASE k > 0
    <3>1. PICK j \in Nat : j = k - 1 /\ k = j + 1 /\ j <= m /\ k \in 1 .. m
      BY <2>1, <2>3
    <3>2. PICK f : Sums(f, s, j)
      BY <1>1, <3>1
    <3>3. f[j] \in Int /\ s[k] \in Int
      BY <3>1, <3>2 DEF Sums
    <3>. DEFINE g == [i \in 0 .. k |-> IF i = k THEN f[j] + s[k] ELSE f[i]]
    <3>4. \A i \in 0 .. j : g[i] = f[i] /\ f[i] \in Int
      BY <3>1, <3>2 DEF Sums
    <3>5. g[k] = f[j] + s[k] /\ g \in [0 .. k -> Int]
      <4>1. g[k] = f[j] + s[k]
        OBVIOUS
      <4>2. \A i \in 0 .. k : g[i] \in Int
        <5>1. TAKE i \in 0 .. k
        <5>2. i = k \/ i \in 0 .. j
          BY <3>1
        <5>. HIDE DEF g
        <5>3. QED
          BY <3>3, <3>4, <4>1, <5>2
      <4>3. g = [i \in 0 .. k |-> g[i]]
        OBVIOUS
      <4>. HIDE DEF g
      <4>4. QED
        BY <4>1, <4>2, <4>3
    <3>. HIDE DEF g
    <3>6. ASSUME NEW i \in 1 .. k
          PROVE  g[i] = g[i - 1] + s[i]
      <4>1. CASE i = k
        BY <3>1, <3>4, <3>5, <4>1
      <4>2. CASE i # k
        <5>1. i \in 1 .. j /\ i \in 0 .. j /\ i - 1 \in 0 .. j
          BY <3>1, <4>2
        <5>2. QED
          BY <3>2, <3>4, <5>1 DEF Sums
      <4>3. QED
        BY <4>1, <4>2
    <3>7. g[0] = 0
      BY <3>1, <3>2, <3>4 DEF Sums
    <3>8. QED
      BY <3>5, <3>6, <3>7 DEF Sums
  <2>4. QED
    BY <2>2, <2>3
<1>2. Nat \subseteq S
  <2>1. \A k \in Nat : (\A i \in 0 .. k - 1 : i \in S) => k \in S
    BY <1>1
  <2>. HIDE DEF S
  <2>2. QED
    BY <2>1, FromSmaller
<1>3. QED
  BY <1>2

\* And it has the sums that SumTo computes.
LEMMA SumsAreSums ==
  ASSUME NEW m \in Nat, NEW s, NEW f, Sums(f, s, m), NEW k \in 0 .. m
  PROVE  SumTo(s, k) = f[k]
<1>. DEFINE Body(g) == [i \in 0 .. k |-> IF i = 0 THEN 0 ELSE g[i - 1] + s[i]]
            sum == CHOOSE g : g = Body(g)
<1>1. SumTo(s, k) = sum[k]
  BY DEF SumTo
<1>2. \E g : g = Body(g)
  <2>. DEFINE h == [i \in 0 .. k |-> f[i]]
  <2>1. \A i \in 0 .. k : h[i] = IF i = 0 THEN 0 ELSE h[i - 1] + s[i]
    <3>1. TAKE i \in 0 .. k
    <3>2. h[i] = f[i] /\ (i # 0 => h[i - 1] = f[i - 1] /\ i \in 1 .. m)
      OBVIOUS
    <3>. HIDE DEF h
    <3>3. QED
      BY <3>2 DEF Sums
  <2>2. h = [i \in 0 .. k |-> h[i]]
    OBVIOUS
  <2>. HIDE DEF h
  <2>3. QED
    BY <2>1, <2>2
<1>3. sum = Body(sum)
  BY <1>2
<1>. HIDE DEF sum
<1>. DEFINE S == {i \in Nat : i <= k => sum[i] = f[i]}
<1>4. ASSUME NEW i \in Nat, \A j \in 0 .. i - 1 : j \in S
      PROVE  i \in S
  <2>1. SUFFICES ASSUME i <= k PROVE sum[i] = f[i]
    OBVIOUS
  <2>2. sum[i] = IF i = 0 THEN 0 ELSE sum[i - 1] + s[i]
    BY <1>3, <2>1
  <2>3. CASE i = 0
    BY <2>2, <2>3 DEF Sums
  <2>4. CASE i > 0
    <3>1. sum[i - 1] = f[i - 1] /\ i \in 1 .. m
      <4>1. i - 1 \in S /\ i - 1 <= k
        BY <1>4, <2>1, <2>4
      <4>2. QED
        BY <2>1, <2>4, <4>1
    <3>2. QED
      BY <2>2, <2>4, <3>1 DEF Sums
  <2>5. QED
    BY <2>3, <2>4
<1>5. Nat \subseteq S
  <2>1. \A i \in Nat : (\A j \in 0 .. i - 1 : j \in S) => i \in S
    BY <1>4
  <2>. HIDE DEF S
  <2>2. QED
    BY <2>1, FromSmaller
<1>6. QED
  BY <1>1, <1>5

\* The sum of the first k + 1 numbers is that of the first k and the next.
LEMMA SumSteps ==
  ASSUME NEW m \in Nat, NEW s \in [1 .. m -> Int]
  PROVE  /\ SumTo(s, 0) = 0
         /\ \A k \in 0 .. m : SumTo(s, k) \in Int
         /\ \A k \in 0 .. m - 1 : SumTo(s, k + 1) = SumTo(s, k) + s[k + 1]
<1>1. PICK f : Sums(f, s, m)
  BY SumsExist
<1>2. \A k \in 0 .. m : SumTo(s, k) = f[k] /\ f[k] \in Int
  <2>1. \A k \in 0 .. m : SumTo(s, k) = f[k]
    BY <1>1, SumsAreSums, ZenonT(40)
  <2>2. \A k \in 0 .. m : f[k] \in Int
    BY <1>1 DEF Sums
  <2>3. QED
    BY <2>1, <2>2
<1>3. \A k \in 0 .. m - 1 : k + 1 \in 1 .. m /\ k \in 0 .. m /\ k + 1 \in 0 .. m /\ (k + 1) - 1 = k
  OBVIOUS
<1>4. \A k \in 0 .. m - 1 : f[k + 1] = f[k] + s[k + 1]
  <2>1. TAKE k \in 0 .. m - 1
  <2>2. f[k + 1] = f[(k + 1) - 1] + s[k + 1]
    BY <1>1, <1>3 DEF Sums
  <2>3. QED
    BY <1>3, <2>2
<1>5. QED
  BY <1>1, <1>2, <1>3, <1>4 DEF Sums

\* When one number grows by d, and no other changes, the sum grows by d.
LEMMA OneGrows ==
  ASSUME NEW m \in Nat, NEW s \in [1 .. m -> Int], NEW r \in [1 .. m -> Int], NEW d \in Int,
         NEW x \in 1 .. m, r[x] = s[x] + d, \A i \in 1 .. m : i # x => r[i] = s[i]
  PROVE  SumTo(r, m) = SumTo(s, m) + d
<1>. DEFINE S == {k \in Nat : k <= m => SumTo(r, k) = SumTo(s, k) + IF x <= k THEN d ELSE 0}
<1>1. ASSUME NEW k \in Nat, \A i \in 0 .. k - 1 : i \in S
      PROVE  k \in S
  <2>1. SUFFICES ASSUME k <= m PROVE SumTo(r, k) = SumTo(s, k) + IF x <= k THEN d ELSE 0
    OBVIOUS
  <2>2. CASE k = 0
    <3>1. SumTo(r, 0) = 0 /\ SumTo(s, 0) = 0
      BY SumSteps
    <3>2. QED
      BY <2>2, <3>1
  <2>3. CASE k > 0
    <3>1. PICK j \in Nat : j = k - 1 /\ k = j + 1 /\ j \in 0 .. m - 1 /\ j \in 0 .. m /\ k \in 1 .. m
      BY <2>1, <2>3
    <3>2. SumTo(r, j) = SumTo(s, j) + IF x <= j THEN d ELSE 0
      BY <1>1, <3>1
    <3>3. SumTo(r, k) = SumTo(r, j) + r[k] /\ SumTo(s, k) = SumTo(s, j) + s[k]
      BY <3>1, SumSteps
    <3>4. PICK a \in Int, b \in Int, c \in Int, e \in Int :
            a = SumTo(r, j) /\ b = SumTo(s, j) /\ c = r[k] /\ e = s[k]
      BY <3>1, SumSteps
    <3>5. CASE x = k
      <4>1. c = e + d /\ a = b
        BY <3>1, <3>2, <3>4, <3>5
      <4>2. QED
        BY <3>3, <3>4, <3>5, <4>1
    <3>6. CASE x # k
      <4>1. c = e /\ (x <= j <=> x <= k) /\ a = b + IF x <= j THEN d ELSE 0
        BY <3>1, <3>2, <3>4, <3>6
      <4>2. QED
        BY <3>3, <3>4, <4>1
    <3>7. QED
      BY <3>5, <3>6
  <2>4. QED
    BY <2>2, <2>3
<1>2. Nat \subseteq S
  <2>1. \A k \in Nat : (\A i \in 0 .. k - 1 : i \in S) => k \in S
    BY <1>1
  <2>. HIDE DEF S
  <2>2. QED
    BY <2>1, FromSmaller
<1>3. QED
  BY <1>2

-----------------------------------------------------------------------------
(* The invariant.                                                            *)

Kinds == {"INIT", "QUEUED", "ACTIVE", "BLOCKED", "DONE"}

\* Where the tasks are: the events E, the ready queue, the CPU and the states of the
\* tasks agree, nothing that is pending lies in the past, and a timeout is pending
\* just for a burst that is longer than the quantum.
Placed(E, ready, cpu, state, left, index, now) ==
  /\ E \subseteq Events /\ now \in Nat
  /\ ready \in Seq(Tasks) /\ cpu \in Tasks \cup {NOTASK}
  /\ state \in [Tasks -> Kinds] /\ left \in [Tasks -> Nat \ {0}] /\ index \in [Tasks -> Nat]
  /\ \A a, b \in E : a.task_index = b.task_index => a = b
  /\ \A e \in E : /\ state[e.task_index] \in Awaits(e.category)
                  /\ e.timestamp >= now
                  /\ e.category = EVT_PREEMPT => left[e.task_index] > quantum
                  /\ e.category = EVT_COMPLETE => left[e.task_index] <= quantum
  /\ \A t \in Tasks : state[t] \notin {"QUEUED", "DONE"} => \E e \in E : e.task_index = t
  /\ \A i, j \in 1 .. Len(ready) : ready[i] = ready[j] => i = j
  /\ \A t \in Tasks : state[t] = "QUEUED" <=> \E i \in 1 .. Len(ready) : ready[i] = t
  /\ \A t \in Tasks : cpu = t <=> state[t] = "ACTIVE"
  /\ \A t \in Tasks : IF state[t] = "DONE" THEN index[t] = burst_count(t) ELSE index[t] < burst_count(t)

\* The times of the bursts that task t has ended, and that of its present one.
Past(t, index) == SumTo(file.compute_times[t], index[t]) + SumTo(file.wait_times[t], index[t])
Burst(t, index) == file.compute_times[t][index[t] + 1]

\* The account of each task: from its arrival to the next thing that happens to it is
\* the time of its bursts and that in the ready queue.
Accounted(E, state, left, index, now, wait, report) ==
  /\ wait \in [Tasks -> Int] /\ report \in [Tasks -> Int]
  /\ \A e \in E :
       LET t == e.task_index
       IN  CASE e.category = EVT_START ->
                  index[t] = 0 /\ left[t] = Burst(t, index) /\ wait[t] = 0 /\ e.timestamp = file.start_time[t]
             [] e.category = EVT_UNBLOCK ->
                  e.timestamp - file.start_time[t] = wait[t] + Past(t, index)
             [] OTHER ->
                  e.timestamp - file.start_time[t]
                    = wait[t] + Past(t, index) + Burst(t, index) - left[t] + Smaller(quantum, left[t])
  /\ \A t \in Tasks :
       /\ state[t] = "QUEUED" => now - file.start_time[t] = wait[t] + Past(t, index) + Burst(t, index) - left[t]
       /\ state[t] = "DONE" => report[t] = wait[t]

\* The CPU time that a task has had.
EventAbout(E, t) == CHOOSE e \in E : e.task_index = t
Had(E, state, left, index, now, t) ==
  SumTo(file.compute_times[t], index[t])
  + CASE state[t] = "QUEUED" -> Burst(t, index) - left[t]
      [] state[t] = "ACTIVE" -> Burst(t, index) - left[t] + Smaller(quantum, left[t])
                                - (EventAbout(E, t).timestamp - now)
      [] OTHER               -> 0

\* The account of the CPU.
Balanced(E, state, left, index, now, idle) ==
  /\ idle \in Int
  /\ now - idle = SumTo([i \in 1 .. n |-> Had(E, state, left, index, now, i - 1)], n)

Pending == {event_queue[i] : i \in 1 .. Len(event_queue)}

IInv ==
  /\ file \in Files /\ round \in Nat \ {0} /\ running \in BOOLEAN
  /\ ~ running => event_queue = <<>>
  /\ running =>
       /\ round \in DOMAIN Quanta
       /\ HeapOf(event_queue, Pending)
       /\ Placed(Pending, ready_queue, running_task, status, time_left, burst_index, system_time)
       /\ Accounted(Pending, status, time_left, burst_index, system_time, waited, queue_time)
       /\ Balanced(Pending, status, time_left, burst_index, system_time, idle_periods)
       /\ running_task = NOTASK => ready_queue = <<>>

\* What proc.txt says of a task.
LEMMA FileFacts ==
  ASSUME file \in Files, NEW t \in Tasks
  PROVE  /\ burst_count(t) \in Nat \ {0}
         /\ file.compute_times[t] \in [1 .. burst_count(t) -> Int]
         /\ file.wait_times[t] \in [1 .. burst_count(t) - 1 -> Int]
         /\ \A k \in 1 .. burst_count(t) : file.compute_times[t][k] \in Nat \ {0}
         /\ \A k \in 1 .. burst_count(t) - 1 : file.wait_times[t][k] \in Nat \ {0}
         /\ file.start_time[t] \in Nat
<1>1. PICK c \in Seq(Nat \ {0}), w \in Seq(Nat \ {0}) :
        c = file.compute_times[t] /\ w = file.wait_times[t] /\ c # <<>> /\ Len(w) = Len(c) - 1
  BY FileAssumption DEF Bursts
<1>2. burst_count(t) = Len(c)
  BY <1>1 DEF burst_count
<1>3. Len(c) \in Nat \ {0} /\ c \in [1 .. Len(c) -> Nat \ {0}] /\ w \in [1 .. Len(c) - 1 -> Nat \ {0}]
  <2>1. Len(c) \in Nat /\ Len(c) # 0
    BY <1>1
  <2>2. c \in [1 .. Len(c) -> Nat \ {0}]
    OBVIOUS
  <2>3. w \in [1 .. Len(w) -> Nat \ {0}]
    OBVIOUS
  <2>4. QED
    BY <1>1, <2>1, <2>2, <2>3
<1>4. file.start_time[t] \in Nat
  BY FileAssumption
<1>5. /\ \A k \in 1 .. Len(c) : c[k] \in Nat \ {0}
      /\ \A k \in 1 .. Len(c) - 1 : w[k] \in Nat \ {0}
  BY <1>3
<1>6. c \in [1 .. Len(c) -> Int] /\ w \in [1 .. Len(c) - 1 -> Int]
  BY <1>3, <1>5
<1>7. QED
  BY <1>1, <1>2, <1>3, <1>4, <1>5, <1>6

\* The times of a task's bursts, one after the other.
LEMMA BurstsPass ==
  ASSUME file \in Files, NEW t \in Tasks, NEW k \in Nat, k < burst_count(t)
  PROVE  /\ SumTo(file.compute_times[t], 0) = 0 /\ SumTo(file.wait_times[t], 0) = 0
         /\ SumTo(file.compute_times[t], k) \in Int /\ SumTo(file.compute_times[t], k + 1) \in Int
         /\ SumTo(file.wait_times[t], k) \in Int
         /\ file.compute_times[t][k + 1] \in Nat \ {0}
         /\ SumTo(file.compute_times[t], k + 1) = SumTo(file.compute_times[t], k) + file.compute_times[t][k + 1]
         /\ k + 1 < burst_count(t) =>
              /\ file.wait_times[t][k + 1] \in Nat \ {0}
              /\ SumTo(file.wait_times[t], k + 1) = SumTo(file.wait_times[t], k) + file.wait_times[t][k + 1]
<1>1. PICK m \in Nat \ {0} : m = burst_count(t)
  BY FileFacts
<1>2. PICK c \in [1 .. m -> Int], w \in [1 .. m - 1 -> Int] : c = file.compute_times[t] /\ w = file.wait_times[t]
  BY <1>1, FileFacts
<1>3. /\ k \in 0 .. m - 1 /\ k \in 0 .. m /\ k + 1 \in 0 .. m /\ k + 1 \in 1 .. m /\ m - 1 \in Nat
      /\ k + 1 < m => k \in 0 .. (m - 1) - 1 /\ k + 1 \in 1 .. m - 1
  BY <1>1
<1>4. /\ SumTo(c, 0) = 0 /\ SumTo(c, k) \in Int /\ SumTo(c, k + 1) \in Int
      /\ SumTo(c, k + 1) = SumTo(c, k) + c[k + 1]
  BY <1>3, SumSteps
<1>5. /\ SumTo(w, 0) = 0 /\ SumTo(w, k) \in Int
      /\ k + 1 < m => SumTo(w, k + 1) = SumTo(w, k) + w[k + 1]
  BY <1>3, SumSteps
<1>6. c[k + 1] \in Nat \ {0} /\ (k + 1 < m => w[k + 1] \in Nat \ {0})
  BY <1>1, <1>2, <1>3, FileFacts
<1>7. QED
  BY <1>1, <1>2, <1>4, <1>5, <1>6

\* The quantum of a run is positive, and a slice is no longer than it.
LEMMA QuantumFacts ==
  ASSUME round \in DOMAIN Quanta
  PROVE  /\ quantum \in Nat \ {0}
         /\ \A k \in Nat \ {0} : /\ Smaller(quantum, k) \in Nat \ {0}
                                 /\ k <= quantum => Smaller(quantum, k) = k
                                 /\ k > quantum => Smaller(quantum, k) = quantum
<1>1. quantum \in Nat \ {0}
  BY SizeAssumption DEF quantum
<1>2. PICK q \in Nat \ {0} : q = quantum
  BY <1>1
<1>3. QED
  BY <1>2 DEF Smaller

\* The categories are four, and tell what a task waits for.
LEMMA CategoryFacts ==
  /\ Awaits(EVT_START) = {"INIT"} /\ Awaits(EVT_UNBLOCK) = {"BLOCKED"}
  /\ Awaits(EVT_COMPLETE) = {"ACTIVE"} /\ Awaits(EVT_PREEMPT) = {"ACTIVE"}
  /\ EVT_START # EVT_UNBLOCK /\ EVT_START # EVT_COMPLETE /\ EVT_START # EVT_PREEMPT
  /\ EVT_UNBLOCK # EVT_COMPLETE /\ EVT_UNBLOCK # EVT_PREEMPT /\ EVT_COMPLETE # EVT_PREEMPT
  /\ Arrivals = {EVT_START, EVT_UNBLOCK}
BY DEF Awaits, EVT_START, EVT_UNBLOCK, EVT_COMPLETE, EVT_PREEMPT, Arrivals

\* As one task at most is active, one event at most is about the CPU.
LEMMA PlacedAreOrderly ==
  ASSUME NEW E, NEW ready, NEW cpu, NEW state, NEW left, NEW index, NEW now,
         Placed(E, ready, cpu, state, left, index, now)
  PROVE  Orderly(E)
<1>1. E \subseteq Events /\ \A a, b \in E : a.task_index = b.task_index => a = b
  BY DEF Placed
<1>2. ASSUME NEW a \in E, a.category \notin Arrivals
      PROVE  cpu = a.task_index
  <2>1. a.category \in Categories /\ a.task_index \in Tasks
    BY <1>1 DEF Events
  <2>2. Awaits(a.category) = {"ACTIVE"}
    BY <1>2, <2>1, CategoryFacts DEF Categories
  <2>3. state[a.task_index] \in Awaits(a.category)
    BY DEF Placed
  <2>4. \A t \in Tasks : cpu = t <=> state[t] = "ACTIVE"
    BY DEF Placed
  <2>5. QED
    BY <2>1, <2>2, <2>3, <2>4
<1>3. QED
  BY <1>1, <1>2 DEF Orderly

\* The event about a task is the only one.
LEMMA TheEvent ==
  ASSUME NEW E, NEW ready, NEW cpu, NEW state, NEW left, NEW index, NEW now,
         Placed(E, ready, cpu, state, left, index, now), NEW e \in E
  PROVE  EventAbout(E, e.task_index) = e
<1>1. \A a, b \in E : a.task_index = b.task_index => a = b
  BY DEF Placed
<1>2. \A x : x = e.task_index => EventAbout(E, x) \in E /\ EventAbout(E, x).task_index = x
  BY DEF EventAbout
<1>3. QED
  BY <1>1, <1>2

\* The CPU time that a task has had is a number.
LEMMA HadIsNumber ==
  ASSUME file \in Files, round \in DOMAIN Quanta,
         NEW E, NEW ready, NEW cpu, NEW state, NEW left, NEW index, NEW now,
         Placed(E, ready, cpu, state, left, index, now), NEW t \in Tasks
  PROVE  Had(E, state, left, index, now, t) \in Int
<1>1. /\ left[t] \in Nat \ {0} /\ index[t] \in Nat /\ now \in Nat /\ state[t] \in Kinds
      /\ IF state[t] = "DONE" THEN index[t] = burst_count(t) ELSE index[t] < burst_count(t)
  BY DEF Placed
<1>2. SumTo(file.compute_times[t], index[t]) \in Int
  <2>1. CASE state[t] = "DONE"
    <3>1. burst_count(t) \in Nat \ {0} /\ file.compute_times[t] \in [1 .. burst_count(t) -> Int]
      BY FileFacts
    <3>2. burst_count(t) \in 0 .. burst_count(t) /\ burst_count(t) \in Nat
      BY <3>1
    <3>3. SumTo(file.compute_times[t], burst_count(t)) \in Int
      BY <3>1, <3>2, SumSteps
    <3>4. QED
      BY <1>1, <2>1, <3>3
  <2>2. CASE state[t] # "DONE"
    BY <1>1, <2>2, BurstsPass
  <2>3. QED
    BY <2>1, <2>2
<1>3. state[t] # "DONE" => Burst(t, index) \in Int
  BY <1>1, BurstsPass DEF Burst
<1>4. Smaller(quantum, left[t]) \in Int
  BY <1>1, QuantumFacts
<1>5. state[t] = "ACTIVE" => EventAbout(E, t).timestamp \in Int
  <2>1. SUFFICES ASSUME state[t] = "ACTIVE" PROVE EventAbout(E, t).timestamp \in Int
    OBVIOUS
  <2>2. PICK e \in E : e.task_index = t
    BY <2>1 DEF Placed
  <2>3. EventAbout(E, t) = e
    BY <2>2, TheEvent
  <2>4. e.timestamp \in Nat
    BY DEF Placed, Events
  <2>5. QED
    BY <2>3, <2>4
<1>6. CASE state[t] = "QUEUED"
  BY <1>1, <1>2, <1>3, <1>6 DEF Had
<1>7. CASE state[t] = "ACTIVE"
  BY <1>1, <1>2, <1>3, <1>4, <1>5, <1>7 DEF Had
<1>8. CASE state[t] \notin {"QUEUED", "ACTIVE"}
  BY <1>2, <1>8 DEF Had
<1>9. QED
  BY <1>6, <1>7, <1>8

-----------------------------------------------------------------------------
(* The clock.                                                                *)

\* It moves to the first event, and nothing that is pending falls behind.
LEMMA ClockMoves ==
  ASSUME NEW E, NEW ready, NEW cpu, NEW state, NEW left, NEW index, NEW now, NEW later \in Nat,
         Placed(E, ready, cpu, state, left, index, now),
         \A e \in E : e.timestamp >= later
  PROVE  Placed(E, ready, cpu, state, left, index, later)
BY DEF Placed

\* The tasks that are ready wait meanwhile.
LEMMA WaitsAreCounted ==
  ASSUME file \in Files, round \in DOMAIN Quanta,
         NEW E, NEW ready, NEW cpu, NEW state, NEW left, NEW index, NEW now, NEW later \in Nat,
         Placed(E, ready, cpu, state, left, index, now),
         NEW wait, NEW report, Accounted(E, state, left, index, now, wait, report)
  PROVE  Accounted(E, state, left, index, later,
                   [t \in Tasks |-> wait[t] + IF Contains(ready, t) THEN later - now ELSE 0], report)
<1>. DEFINE wait2 == [t \in Tasks |-> wait[t] + IF Contains(ready, t) THEN later - now ELSE 0]
<1>1. now \in Nat /\ wait \in [Tasks -> Int] /\ report \in [Tasks -> Int]
  BY DEF Placed, Accounted
<1>2. \A t \in Tasks : Contains(ready, t) <=> state[t] = "QUEUED"
  <2>1. \A t \in Tasks : state[t] = "QUEUED" <=> \E i \in 1 .. Len(ready) : ready[i] = t
    BY DEF Placed
  <2>2. \A t \in Tasks : Contains(ready, t) <=> \E i \in 1 .. Len(ready) : ready[i] = t
    BY DEF Contains, Placed
  <2>3. QED
    BY <2>1, <2>2
<1>3. \A t \in Tasks : state[t] # "QUEUED" => wait2[t] = wait[t]
  BY <1>1, <1>2
<1>4. \A t \in Tasks : state[t] = "QUEUED" => wait2[t] = wait[t] + (later - now)
  BY <1>1, <1>2
<1>5. wait2 \in [Tasks -> Int]
  BY <1>1
<1>. HIDE DEF wait2
<1>6. ASSUME NEW e \in E
      PROVE  e.task_index \in Tasks /\ state[e.task_index] # "QUEUED"
  <2>1. e.task_index \in Tasks /\ e.category \in Categories /\ state[e.task_index] \in Awaits(e.category)
    BY DEF Placed, Events
  <2>2. QED
    BY <2>1, CategoryFacts DEF Categories
<1>7. \A e \in E : wait2[e.task_index] = wait[e.task_index]
  BY <1>3, <1>6
<1>8. ASSUME NEW t \in Tasks, state[t] = "QUEUED"
      PROVE  later - file.start_time[t] = wait2[t] + Past(t, index) + Burst(t, index) - left[t]
  <2>1. now - file.start_time[t] = wait[t] + Past(t, index) + Burst(t, index) - left[t]
    BY <1>8 DEF Accounted
  <2>2. /\ index[t] \in Nat /\ left[t] \in Nat \ {0}
        /\ IF state[t] = "DONE" THEN index[t] = burst_count(t) ELSE index[t] < burst_count(t)
    BY DEF Placed
  <2>3. Past(t, index) \in Int /\ Burst(t, index) \in Int
    BY <1>8, <2>2, BurstsPass DEF Past, Burst
  <2>4. PICK p \in Int, b \in Int, s \in Int, w \in Int, w2 \in Int, l \in Int :
          /\ p = Past(t, index) /\ b = Burst(t, index) /\ s = file.start_time[t]
          /\ w = wait[t] /\ w2 = wait2[t] /\ l = left[t]
    <3>1. wait[t] \in Int /\ wait2[t] \in Int /\ left[t] \in Int
      BY <1>1, <1>5, <2>2
    <3>2. file.start_time[t] \in Int
      BY FileFacts
    <3>3. QED
      BY <2>3, <3>1, <3>2
  <2>5. w2 = w + (later - now)
    BY <1>4, <1>8, <2>4
  <2>6. now - s = w + p + b - l
    BY <2>1, <2>4
  <2>7. later - s = w2 + p + b - l
    BY <1>1, <2>5, <2>6
  <2>8. QED
    BY <2>4, <2>7
<1>9. ASSUME NEW t \in Tasks, state[t] = "DONE"
      PROVE  report[t] = wait2[t]
  BY <1>3, <1>9 DEF Accounted
<1>10. \A e \in E :
       LET t == e.task_index
       IN  CASE e.category = EVT_START ->
                  index[t] = 0 /\ left[t] = Burst(t, index) /\ wait2[t] = 0 /\ e.timestamp = file.start_time[t]
             [] e.category = EVT_UNBLOCK ->
                  e.timestamp - file.start_time[t] = wait2[t] + Past(t, index)
             [] OTHER ->
                  e.timestamp - file.start_time[t]
                    = wait2[t] + Past(t, index) + Burst(t, index) - left[t] + Smaller(quantum, left[t])
  BY <1>7 DEF Accounted
<1>11. Accounted(E, state, left, index, later, wait2, report)
  BY <1>1, <1>5, <1>8, <1>9, <1>10 DEF Accounted
<1>12. QED
  BY <1>11 DEF wait2

\* And the CPU is idle, or one task has the time.
LEMMA IdleTimeIsCounted ==
  ASSUME file \in Files, round \in DOMAIN Quanta,
         NEW E, NEW ready, NEW cpu, NEW state, NEW left, NEW index, NEW now, NEW later \in Nat,
         Placed(E, ready, cpu, state, left, index, now),
         NEW idle, Balanced(E, state, left, index, now, idle)
  PROVE  Balanced(E, state, left, index, later, idle + IF cpu = NOTASK THEN later - now ELSE 0)
<1>. DEFINE s == [i \in 1 .. n |-> Had(E, state, left, index, now, i - 1)]
            r == [i \in 1 .. n |-> Had(E, state, left, index, later, i - 1)]
            idle2 == idle + IF cpu = NOTASK THEN later - now ELSE 0
<1>1. now \in Nat /\ idle \in Int /\ now - idle = SumTo(s, n) /\ cpu \in Tasks \cup {NOTASK} /\ n \in Nat
  BY SizeAssumption DEF Placed, Balanced
<1>2. \A t \in Tasks : cpu = t <=> state[t] = "ACTIVE"
  BY DEF Placed
<1>3. \A t \in Tasks : state[t] # "ACTIVE" => Had(E, state, left, index, later, t) = Had(E, state, left, index, now, t)
  BY DEF Had
<1>4. \A i \in 1 .. n : i - 1 \in Tasks /\ Had(E, state, left, index, now, i - 1) \in Int
  <2>1. TAKE i \in 1 .. n
  <2>2. i - 1 \in Tasks
    BY <1>1 DEF Tasks
  <2>3. QED
    BY <2>2, HadIsNumber
<1>5. s \in [1 .. n -> Int]
  BY <1>4
<1>6. NOTASK \notin Tasks
  BY <1>1 DEF NOTASK, Tasks
<1>7. CASE cpu = NOTASK
  <2>1. \A i \in 1 .. n : Had(E, state, left, index, later, i - 1) = Had(E, state, left, index, now, i - 1)
    BY <1>2, <1>3, <1>4, <1>6, <1>7
  <2>2. r = s
    BY <2>1
  <2>3. idle2 = idle + (later - now)
    BY <1>7
  <2>4. PICK total : total = SumTo(s, n)
    OBVIOUS
  <2>5. later - idle2 = total
    BY <1>1, <2>3, <2>4
  <2>6. idle2 \in Int
    BY <1>1, <2>3
  <2>. HIDE DEF idle2
  <2>7. Balanced(E, state, left, index, later, idle2)
    BY <2>2, <2>4, <2>5, <2>6 DEF Balanced
  <2>8. QED
    BY <2>7 DEF idle2
<1>8. CASE cpu # NOTASK
  <2>1. cpu \in Tasks /\ state[cpu] = "ACTIVE" /\ \A t \in Tasks : t # cpu => state[t] # "ACTIVE"
    BY <1>1, <1>2, <1>8
  <2>2. Had(E, state, left, index, later, cpu) = Had(E, state, left, index, now, cpu) + (later - now)
    <3>1. PICK e \in E : e.task_index = cpu
      BY <2>1 DEF Placed
    <3>2. EventAbout(E, cpu) = e
      BY <3>1, TheEvent
    <3>3. /\ left[cpu] \in Nat \ {0} /\ index[cpu] \in Nat /\ e.timestamp \in Nat
          /\ IF state[cpu] = "DONE" THEN index[cpu] = burst_count(cpu) ELSE index[cpu] < burst_count(cpu)
      BY <2>1 DEF Placed, Events
    <3>4. PICK a \in Int, b \in Int, l \in Int, m \in Int, w \in Int :
            /\ a = SumTo(file.compute_times[cpu], index[cpu]) /\ b = Burst(cpu, index) /\ l = left[cpu]
            /\ m = Smaller(quantum, left[cpu]) /\ w = e.timestamp
      <4>1. SumTo(file.compute_times[cpu], index[cpu]) \in Int /\ Burst(cpu, index) \in Int
        BY <2>1, <3>3, BurstsPass DEF Burst
      <4>2. Smaller(quantum, left[cpu]) \in Int /\ left[cpu] \in Int /\ e.timestamp \in Int
        BY <3>3, QuantumFacts
      <4>3. QED
        BY <4>1, <4>2
    <3>5. \A x : Had(E, state, left, index, x, cpu) = a + (b - l + m - (w - x))
      BY <2>1, <3>2, <3>4 DEF Had
    <3>6. a + (b - l + m - (w - later)) = a + (b - l + m - (w - now)) + (later - now)
      BY <1>1
    <3>7. QED
      BY <3>5, <3>6
  <2>3. PICK x \in 1 .. n : x - 1 = cpu /\ x = cpu + 1
    BY <1>1, <2>1 DEF Tasks
  <2>4. \A i \in 1 .. n : i # x => i - 1 # cpu
    BY <1>1, <2>3
  <2>5. r[x] = s[x] + (later - now) /\ \A i \in 1 .. n : i # x => r[i] = s[i]
    BY <1>3, <1>4, <2>1, <2>2, <2>3, <2>4
  <2>6. \A i \in 1 .. n : r[i] \in Int
    <3>1. \A i \in 1 .. n : s[i] \in Int
      BY <1>5
    <3>. HIDE DEF r, s
    <3>2. QED
      BY <1>1, <2>5, <3>1
  <2>7. r \in [1 .. n -> Int]
    BY <2>6
  <2>. HIDE DEF r, s
  <2>8. SumTo(r, n) = SumTo(s, n) + (later - now)
    <3>1. later - now \in Int
      BY <1>1
    <3>2. QED
      BY <1>1, <1>5, <2>3, <2>5, <2>7, <3>1, OneGrows
  <2>9. idle2 = idle
    BY <1>1, <1>8
  <2>10. PICK total : total = SumTo(s, n)
    OBVIOUS
  <2>11. later - idle = total + (later - now)
    BY <1>1, <2>10
  <2>12. QED
    BY <1>1, <1>8, <2>8, <2>10, <2>11 DEF Balanced, r
<1>9. QED
  BY <1>7, <1>8

-----------------------------------------------------------------------------
(* The handlers.                                                             *)

\* A task about which nothing changes has had the same CPU time.
LEMMA HadKept ==
  ASSUME NEW E, NEW ready, NEW cpu, NEW state, NEW left, NEW index, NEW now,
         Placed(E, ready, cpu, state, left, index, now),
         NEW F, NEW ready2, NEW cpu2, NEW state2, NEW left2, NEW index2,
         Placed(F, ready2, cpu2, state2, left2, index2, now),
         NEW t \in Tasks, state2[t] = state[t], left2[t] = left[t], index2[t] = index[t],
         state[t] = "ACTIVE" => \E e \in E \cap F : e.task_index = t
  PROVE  Had(F, state2, left2, index2, now, t) = Had(E, state, left, index, now, t)
<1>1. Burst(t, index2) = Burst(t, index)
  BY DEF Burst
<1>2. state[t] = "ACTIVE" => EventAbout(E, t) = EventAbout(F, t)
  BY TheEvent
<1>3. QED
  BY <1>1, <1>2 DEF Had

\* What is known of the task of an event.
LEMMA TaskOfEvent ==
  ASSUME NEW E, NEW ready, NEW cpu, NEW state, NEW left, NEW index, NEW now,
         Placed(E, ready, cpu, state, left, index, now), NEW e \in E
  PROVE  LET t == e.task_index
         IN  /\ t \in Tasks /\ e \in Events /\ state[t] \in {"INIT", "BLOCKED", "ACTIVE"}
             /\ index[t] \in Nat /\ index[t] < burst_count(t) /\ left[t] \in Nat \ {0}
             /\ cpu = t <=> state[t] = "ACTIVE"
             /\ \A x \in E : x.task_index = t => x = e
<1>1. /\ e \in Events /\ state[e.task_index] \in Awaits(e.category)
      /\ \A x \in E : x.task_index = e.task_index => x = e
  BY DEF Placed
<1>2. e.task_index \in Tasks /\ e.category \in Categories
  BY <1>1 DEF Events
<1>3. state[e.task_index] \in {"INIT", "BLOCKED", "ACTIVE"}
  BY <1>1, <1>2, CategoryFacts DEF Categories
<1>4. QED
  BY <1>1, <1>2, <1>3 DEF Placed

\* A task that has something pending is not in the ready queue.
LEMMA NotYetReady ==
  ASSUME NEW E, NEW ready, NEW cpu, NEW state, NEW left, NEW index, NEW now,
         Placed(E, ready, cpu, state, left, index, now), NEW t \in Tasks, state[t] # "QUEUED"
  PROVE  LET longer == Append(ready, t)
         IN  /\ longer \in Seq(Tasks)
             /\ \A i, j \in 1 .. Len(longer) : longer[i] = longer[j] => i = j
             /\ \A u \in Tasks : (\E i \in 1 .. Len(longer) : longer[i] = u) <=> state[u] = "QUEUED" \/ u = t
<1>1. PICK k \in Nat : k = Len(ready)
  BY DEF Placed
<1>2. /\ ready \in Seq(Tasks)
      /\ \A i, j \in 1 .. k : ready[i] = ready[j] => i = j
      /\ \A u \in Tasks : state[u] = "QUEUED" <=> \E i \in 1 .. k : ready[i] = u
  BY <1>1 DEF Placed
<1>3. PICK longer : longer = Append(ready, t)
  OBVIOUS
<1>4. /\ longer \in Seq(Tasks) /\ Len(longer) = k + 1
      /\ longer[k + 1] = t /\ \A i \in 1 .. k : longer[i] = ready[i]
  BY <1>1, <1>2, <1>3
<1>5. \A i \in 1 .. k : ready[i] # t
  BY <1>2
<1>6. \A i \in 1 .. k + 1 : i \in 1 .. k \/ i = k + 1
  OBVIOUS
<1>7. \A i, j \in 1 .. k + 1 : longer[i] = longer[j] => i = j
  BY <1>2, <1>4, <1>5, <1>6
<1>8. \A u \in Tasks : (\E i \in 1 .. k + 1 : longer[i] = u) <=> state[u] = "QUEUED" \/ u = t
  <2>1. TAKE u \in Tasks
  <2>2. k + 1 \in 1 .. k + 1 /\ \A i \in 1 .. k : i \in 1 .. k + 1
    OBVIOUS
  <2>3. QED
    BY <1>2, <1>4, <1>6, <2>2
<1>9. QED
  BY <1>3, <1>4, <1>7, <1>8

\* f with another value at t.
Changed(f, t, value) == [f EXCEPT ![t] = value]

\* The CPU, once t has left it.
Freed(cpu, state, t) == IF state[t] = "ACTIVE" THEN NOTASK ELSE cpu

\* Of its present burst task t has l to come.
ToCome(E, state, left, index, now, wait, t, l) ==
  /\ now - file.start_time[t] = wait[t] + Past(t, index) + Burst(t, index) - l
  /\ Had(E, state, left, index, now, t) = SumTo(file.compute_times[t], index[t]) + (Burst(t, index) - l)

\* All tasks have had the same CPU time in both situations.
SameHad(E, state, left, index, F, state2, left2, index2, now) ==
  \A u \in Tasks : Had(F, state2, left2, index2, now, u) = Had(E, state, left, index, now, u)

\* A task joins the ready queue with what is to come of its burst.
LEMMA Joins ==
  ASSUME file \in Files,
         NEW E, NEW ready, NEW cpu, NEW state, NEW left, NEW index, NEW now,
         Placed(E, ready, cpu, state, left, index, now),
         NEW wait, NEW report, Accounted(E, state, left, index, now, wait, report),
         NEW e \in E, NEW l \in Nat \ {0},
         ToCome(E, state, left, index, now, wait, e.task_index, l)
  PROVE  LET t == e.task_index
             state2 == Changed(state, t, "QUEUED")
             left2  == Changed(left, t, l)
         IN  /\ Placed(E \ {e}, Append(ready, t), Freed(cpu, state, t), state2, left2, index, now)
             /\ Accounted(E \ {e}, state2, left2, index, now, wait, report)
             /\ SameHad(E, state, left, index, E \ {e}, state2, left2, index, now)
<1>. DEFINE t == e.task_index
<1>0. PICK cpu2, state2, left2 : /\ cpu2 = Freed(cpu, state, t)
                                /\ state2 = Changed(state, t, "QUEUED") /\ left2 = Changed(left, t, l)
  OBVIOUS
<1>1. /\ state2 = [state EXCEPT ![t] = "QUEUED"] /\ left2 = [left EXCEPT ![t] = l]
      /\ cpu2 = IF state[t] = "ACTIVE" THEN NOTASK ELSE cpu
  BY <1>0 DEF Changed, Freed
<1>2. /\ t \in Tasks /\ state[t] \in {"INIT", "BLOCKED", "ACTIVE"} /\ index[t] < burst_count(t)
      /\ cpu = t <=> state[t] = "ACTIVE"
      /\ \A x \in E : x.task_index = t => x = e
  BY TaskOfEvent
<1>3. /\ E \subseteq Events /\ now \in Nat /\ ready \in Seq(Tasks) /\ cpu \in Tasks \cup {NOTASK}
      /\ state \in [Tasks -> Kinds] /\ left \in [Tasks -> Nat \ {0}] /\ index \in [Tasks -> Nat]
      /\ \A a, b \in E : a.task_index = b.task_index => a = b
      /\ \A u \in Tasks : state[u] \notin {"QUEUED", "DONE"} => \E x \in E : x.task_index = u
      /\ \A u \in Tasks : cpu = u <=> state[u] = "ACTIVE"
      /\ \A u \in Tasks : IF state[u] = "DONE" THEN index[u] = burst_count(u) ELSE index[u] < burst_count(u)
  BY DEF Placed
<1>4. /\ state2 \in [Tasks -> Kinds] /\ left2 \in [Tasks -> Nat \ {0}]
      /\ state2[t] = "QUEUED" /\ left2[t] = l
      /\ \A u \in Tasks : u # t => state2[u] = state[u] /\ left2[u] = left[u]
  BY <1>1, <1>2, <1>3 DEF Kinds
<1>5. \A x \in E \ {e} : x \in E /\ x.task_index \in Tasks /\ x.task_index # t
  BY <1>2, <1>3 DEF Events
<1>6. Placed(E \ {e}, Append(ready, t), cpu2, state2, left2, index, now)
  <2>1. \A x \in E \ {e} : /\ state2[x.task_index] \in Awaits(x.category)
                           /\ x.timestamp >= now
                           /\ x.category = EVT_PREEMPT => left2[x.task_index] > quantum
                           /\ x.category = EVT_COMPLETE => left2[x.task_index] <= quantum
    <3>1. TAKE x \in E \ {e}
    <3>2. /\ state[x.task_index] \in Awaits(x.category)
          /\ x.timestamp >= now
          /\ x.category = EVT_PREEMPT => left[x.task_index] > quantum
          /\ x.category = EVT_COMPLETE => left[x.task_index] <= quantum
      BY DEF Placed
    <3>3. QED
      BY <1>4, <1>5, <3>2
  <2>2. \A u \in Tasks : state2[u] \notin {"QUEUED", "DONE"} => \E x \in E \ {e} : x.task_index = u
    BY <1>3, <1>4
  <2>3. PICK longer : longer = Append(ready, t)
    OBVIOUS
  <2>4. /\ longer \in Seq(Tasks)
        /\ \A i, j \in 1 .. Len(longer) : longer[i] = longer[j] => i = j
        /\ \A u \in Tasks : (\E i \in 1 .. Len(longer) : longer[i] = u) <=> state[u] = "QUEUED" \/ u = t
    BY <1>2, <2>3, NotYetReady
  <2>5. \A u \in Tasks : state2[u] = "QUEUED" <=> \E i \in 1 .. Len(longer) : longer[i] = u
    BY <1>4, <2>4
  <2>6. cpu2 \in Tasks \cup {NOTASK} /\ \A u \in Tasks : cpu2 = u <=> state2[u] = "ACTIVE"
    <3>1. NOTASK \notin Tasks
      BY DEF NOTASK, Tasks
    <3>2. QED
      BY <1>1, <1>2, <1>3, <1>4, <3>1
  <2>7. \A u \in Tasks : IF state2[u] = "DONE" THEN index[u] = burst_count(u) ELSE index[u] < burst_count(u)
    BY <1>2, <1>3, <1>4
  <2>8. Placed(E \ {e}, longer, cpu2, state2, left2, index, now)
    <3>1. PICK F : F = E \ {e}
      OBVIOUS
    <3>2. F \subseteq Events /\ \A a, b \in F : a.task_index = b.task_index => a = b
      BY <1>3, <3>1
    <3>3. \A i, j \in 1 .. Len(longer) : longer[i] = longer[j] => i = j
      BY <2>4
    <3>4. Placed(F, longer, cpu2, state2, left2, index, now)
      BY <1>3, <1>4, <2>1, <2>2, <2>4, <2>5, <2>6, <2>7, <3>1, <3>2, <3>3 DEF Placed
    <3>5. QED
      BY <3>1, <3>4
  <2>9. QED
    BY <2>3, <2>8
<1>7. \A u \in Tasks : Burst(u, index) = file.compute_times[u][index[u] + 1]
  BY DEF Burst
<1>8. Accounted(E \ {e}, state2, left2, index, now, wait, report)
  <2>1. \A x \in E \ {e} : left2[x.task_index] = left[x.task_index]
    BY <1>4, <1>5
  <2>2. \A x \in E \ {e} :
       LET u == x.task_index
       IN  CASE x.category = EVT_START ->
                  index[u] = 0 /\ left2[u] = Burst(u, index) /\ wait[u] = 0 /\ x.timestamp = file.start_time[u]
             [] x.category = EVT_UNBLOCK ->
                  x.timestamp - file.start_time[u] = wait[u] + Past(u, index)
             [] OTHER ->
                  x.timestamp - file.start_time[u]
                    = wait[u] + Past(u, index) + Burst(u, index) - left2[u] + Smaller(quantum, left2[u])
    BY <2>1 DEF Accounted
  <2>3. ASSUME NEW u \in Tasks
        PROVE  /\ state2[u] = "QUEUED" => now - file.start_time[u] = wait[u] + Past(u, index) + Burst(u, index) - left2[u]
               /\ state2[u] = "DONE" => report[u] = wait[u]
    <3>1. CASE u = t
      BY <1>4, <3>1 DEF ToCome
    <3>2. CASE u # t
      BY <1>4, <3>2 DEF Accounted
    <3>3. QED
      BY <3>1, <3>2
  <2>4. wait \in [Tasks -> Int] /\ report \in [Tasks -> Int]
    BY DEF Accounted
  <2>5. QED
    BY <2>2, <2>3, <2>4 DEF Accounted
<1>9. ASSUME NEW u \in Tasks
      PROVE  Had(E \ {e}, state2, left2, index, now, u) = Had(E, state, left, index, now, u)
  <2>1. CASE u = t
    <3>1. Had(E \ {e}, state2, left2, index, now, t) = SumTo(file.compute_times[t], index[t]) + (Burst(t, index) - l)
      BY <1>4 DEF Had
    <3>2. QED
      BY <2>1, <3>1 DEF ToCome
  <2>2. CASE u # t
    <3>1. state[u] = "ACTIVE" => \E x \in E \cap (E \ {e}) : x.task_index = u
      BY <1>3, <2>2
    <3>2. state2[u] = state[u] /\ left2[u] = left[u]
      BY <1>4, <2>2
    <3>3. QED
      BY <1>6, <3>1, <3>2, HadKept
  <2>3. QED
    BY <2>1, <2>2
<1>10. SameHad(E, state, left, index, E \ {e}, state2, left2, index, now)
  BY <1>9 DEF SameHad
<1>11. QED
  BY <1>0, <1>6, <1>8, <1>10

\* A task that arrives.
LEMMA Starts ==
  ASSUME file \in Files, round \in DOMAIN Quanta,
         NEW E, NEW ready, NEW cpu, NEW state, NEW left, NEW index, NEW now,
         Placed(E, ready, cpu, state, left, index, now),
         NEW wait, NEW report, Accounted(E, state, left, index, now, wait, report),
         NEW e \in E, e.timestamp = now, e.category = EVT_START, NEW t, t = e.task_index
  PROVE  LET state2 == [state EXCEPT ![t] = "QUEUED"]
         IN  /\ Placed(E \ {e}, Append(ready, t), cpu, state2, left, index, now)
             /\ Accounted(E \ {e}, state2, left, index, now, wait, report)
             /\ SameHad(E, state, left, index, E \ {e}, state2, left, index, now)
<1>1. t \in Tasks /\ index[t] \in Nat /\ index[t] < burst_count(t) /\ left[t] \in Nat \ {0}
  BY TaskOfEvent
<1>2. state[t] = "INIT"
  BY CategoryFacts DEF Placed
<1>3. index[t] = 0 /\ left[t] = Burst(t, index) /\ wait[t] = 0 /\ now = file.start_time[t]
  BY CategoryFacts DEF Accounted
<1>4. /\ SumTo(file.compute_times[t], 0) = 0 /\ SumTo(file.wait_times[t], 0) = 0
  BY <1>1, BurstsPass
<1>5. Past(t, index) = 0
  BY <1>3, <1>4 DEF Past
<1>6. now - file.start_time[t] = wait[t] + Past(t, index) + Burst(t, index) - left[t]
  <2>1. PICK l \in Nat : l = left[t]
    BY <1>1
  <2>2. PICK m \in Nat : m = now
    BY DEF Placed
  <2>3. m - m = 0 + 0 + l - l
    OBVIOUS
  <2>4. QED
    BY <1>3, <1>5, <2>1, <2>2, <2>3
<1>7. Had(E, state, left, index, now, t) = SumTo(file.compute_times[t], index[t]) + (Burst(t, index) - left[t])
  <2>1. Burst(t, index) - left[t] = 0
    BY <1>1, <1>3
  <2>2. QED
    BY <1>2, <2>1 DEF Had
<1>8. left = [left EXCEPT ![t] = left[t]]
  BY DEF Placed
<1>9. PICK l \in Nat \ {0} : l = left[t]
  BY <1>1
<1>10. ToCome(E, state, left, index, now, wait, t, l)
  BY <1>6, <1>7, <1>9 DEF ToCome
<1>11. /\ Placed(E \ {e}, Append(ready, t), Freed(cpu, state, t), Changed(state, t, "QUEUED"), Changed(left, t, l), index, now)
       /\ Accounted(E \ {e}, Changed(state, t, "QUEUED"), Changed(left, t, l), index, now, wait, report)
       /\ SameHad(E, state, left, index, E \ {e}, Changed(state, t, "QUEUED"), Changed(left, t, l), index, now)
  BY <1>10, Joins
<1>12. Freed(cpu, state, t) = cpu /\ Changed(left, t, l) = left /\ Changed(state, t, "QUEUED") = [state EXCEPT ![t] = "QUEUED"]
  BY <1>2, <1>8, <1>9 DEF Freed, Changed
<1>13. QED
  BY <1>11, <1>12

\* A task whose I/O burst ends.
LEMMA Unblocks ==
  ASSUME file \in Files, round \in DOMAIN Quanta,
         NEW E, NEW ready, NEW cpu, NEW state, NEW left, NEW index, NEW now,
         Placed(E, ready, cpu, state, left, index, now),
         NEW wait, NEW report, Accounted(E, state, left, index, now, wait, report),
         NEW e \in E, e.timestamp = now, e.category = EVT_UNBLOCK, NEW t, t = e.task_index
  PROVE  LET state2 == [state EXCEPT ![t] = "QUEUED"]
             left2  == [left EXCEPT ![t] = file.compute_times[t][index[t] + 1]]
         IN  /\ Placed(E \ {e}, Append(ready, t), cpu, state2, left2, index, now)
             /\ Accounted(E \ {e}, state2, left2, index, now, wait, report)
             /\ SameHad(E, state, left, index, E \ {e}, state2, left2, index, now)
<1>1. t \in Tasks /\ index[t] \in Nat /\ index[t] < burst_count(t)
  BY TaskOfEvent
<1>2. state[t] = "BLOCKED"
  BY CategoryFacts DEF Placed
<1>3. PICK l \in Nat \ {0} : l = Burst(t, index) /\ l = file.compute_times[t][index[t] + 1]
  BY <1>1, BurstsPass DEF Burst
<1>4. now - file.start_time[t] = wait[t] + Past(t, index) + Burst(t, index) - l
  <2>1. now - file.start_time[t] = wait[t] + Past(t, index)
    BY CategoryFacts DEF Accounted
  <2>2. wait[t] \in Int
    BY <1>1 DEF Accounted
  <2>3. Past(t, index) \in Int
    BY <1>1, BurstsPass DEF Past
  <2>4. PICK w \in Int, p \in Int : w = wait[t] /\ p = Past(t, index)
    BY <2>2, <2>3
  <2>5. w + p = w + p + l - l
    OBVIOUS
  <2>6. QED
    BY <1>3, <2>1, <2>4, <2>5
<1>5. Had(E, state, left, index, now, t) = SumTo(file.compute_times[t], index[t]) + (Burst(t, index) - l)
  <2>1. Burst(t, index) - l = 0
    BY <1>3
  <2>2. QED
    BY <1>2, <2>1 DEF Had
<1>6. ToCome(E, state, left, index, now, wait, t, l)
  BY <1>4, <1>5 DEF ToCome
<1>7. /\ Placed(E \ {e}, Append(ready, t), Freed(cpu, state, t), Changed(state, t, "QUEUED"), Changed(left, t, l), index, now)
      /\ Accounted(E \ {e}, Changed(state, t, "QUEUED"), Changed(left, t, l), index, now, wait, report)
      /\ SameHad(E, state, left, index, E \ {e}, Changed(state, t, "QUEUED"), Changed(left, t, l), index, now)
  BY <1>6, Joins
<1>8. /\ Freed(cpu, state, t) = cpu
      /\ Changed(left, t, l) = [left EXCEPT ![t] = file.compute_times[t][index[t] + 1]]
      /\ Changed(state, t, "QUEUED") = [state EXCEPT ![t] = "QUEUED"]
  BY <1>2, <1>3 DEF Freed, Changed
<1>9. QED
  BY <1>7, <1>8

\* A task whose quantum is over.
LEMMA Preempts ==
  ASSUME file \in Files, round \in DOMAIN Quanta,
         NEW E, NEW ready, NEW cpu, NEW state, NEW left, NEW index, NEW now,
         Placed(E, ready, cpu, state, left, index, now),
         NEW wait, NEW report, Accounted(E, state, left, index, now, wait, report),
         NEW e \in E, e.timestamp = now, e.category = EVT_PREEMPT, NEW t, t = e.task_index
  PROVE  LET state2 == [state EXCEPT ![t] = "QUEUED"]
             left2  == [left EXCEPT ![t] = Remaining(@, quantum)]
         IN  /\ Placed(E \ {e}, Append(ready, t), NOTASK, state2, left2, index, now)
             /\ Accounted(E \ {e}, state2, left2, index, now, wait, report)
             /\ SameHad(E, state, left, index, E \ {e}, state2, left2, index, now)
<1>1. t \in Tasks /\ index[t] \in Nat /\ index[t] < burst_count(t) /\ left[t] \in Nat \ {0}
  BY TaskOfEvent
<1>2. state[t] = "ACTIVE" /\ left[t] > quantum
  BY CategoryFacts DEF Placed
<1>3. quantum \in Nat \ {0} /\ Smaller(quantum, left[t]) = quantum
  BY <1>1, <1>2, QuantumFacts
<1>4. PICK q \in Nat \ {0}, k \in Nat \ {0} : q = quantum /\ k = left[t] /\ k > q
  BY <1>1, <1>2, <1>3
<1>5. PICK l \in Nat \ {0} : l = k - q /\ l = Remaining(left[t], quantum)
  BY <1>4 DEF Remaining
<1>6. now - file.start_time[t] = wait[t] + Past(t, index) + Burst(t, index) - l
  <2>1. now - file.start_time[t] = wait[t] + Past(t, index) + Burst(t, index) - left[t] + Smaller(quantum, left[t])
    <3>1. e.category # EVT_START /\ e.category # EVT_UNBLOCK
      BY CategoryFacts
    <3>2. QED
      BY <3>1 DEF Accounted
  <2>2. wait[t] \in Int
    BY <1>1 DEF Accounted
  <2>3. Past(t, index) \in Int /\ Burst(t, index) \in Int
    BY <1>1, BurstsPass DEF Past, Burst
  <2>4. PICK w \in Int, p \in Int, b \in Int : w = wait[t] /\ p = Past(t, index) /\ b = Burst(t, index)
    BY <2>2, <2>3
  <2>5. w + p + b - k + q = w + p + b - l
    BY <1>5
  <2>6. QED
    BY <1>3, <1>4, <2>1, <2>4, <2>5
<1>7. Had(E, state, left, index, now, t) = SumTo(file.compute_times[t], index[t]) + (Burst(t, index) - l)
  <2>1. EventAbout(E, t) = e
    BY TheEvent
  <2>2. PICK b \in Int : b = Burst(t, index)
    BY <1>1, BurstsPass DEF Burst
  <2>3. now \in Nat
    BY DEF Placed
  <2>4. b - k + q - (now - now) = b - l
    BY <1>5, <2>3
  <2>5. QED
    BY <1>2, <1>3, <1>4, <2>1, <2>2, <2>4 DEF Had
<1>8. ToCome(E, state, left, index, now, wait, t, l)
  BY <1>6, <1>7 DEF ToCome
<1>9. /\ Placed(E \ {e}, Append(ready, t), Freed(cpu, state, t), Changed(state, t, "QUEUED"), Changed(left, t, l), index, now)
      /\ Accounted(E \ {e}, Changed(state, t, "QUEUED"), Changed(left, t, l), index, now, wait, report)
      /\ SameHad(E, state, left, index, E \ {e}, Changed(state, t, "QUEUED"), Changed(left, t, l), index, now)
  BY <1>8, Joins
<1>10. /\ Freed(cpu, state, t) = NOTASK
       /\ Changed(left, t, l) = [left EXCEPT ![t] = Remaining(@, quantum)]
       /\ Changed(state, t, "QUEUED") = [state EXCEPT ![t] = "QUEUED"]
  BY <1>2, <1>5 DEF Freed, Changed
<1>11. QED
  BY <1>9, <1>10

\* What a task has done whose burst ends.
LEMMA BurstOver ==
  ASSUME file \in Files, round \in DOMAIN Quanta,
         NEW E, NEW ready, NEW cpu, NEW state, NEW left, NEW index, NEW now,
         Placed(E, ready, cpu, state, left, index, now),
         NEW wait, NEW report, Accounted(E, state, left, index, now, wait, report),
         NEW e \in E, e.timestamp = now, e.category = EVT_COMPLETE, NEW t, t = e.task_index
  PROVE  /\ t \in Tasks /\ index[t] \in Nat /\ index[t] < burst_count(t) /\ state[t] = "ACTIVE" /\ wait[t] \in Int
         /\ now - file.start_time[t] = wait[t] + SumTo(file.compute_times[t], index[t] + 1)
                                               + SumTo(file.wait_times[t], index[t])
         /\ Had(E, state, left, index, now, t) = SumTo(file.compute_times[t], index[t] + 1)
<1>1. t \in Tasks /\ index[t] \in Nat /\ index[t] < burst_count(t) /\ left[t] \in Nat \ {0}
  BY TaskOfEvent
<1>2. state[t] = "ACTIVE" /\ left[t] <= quantum /\ wait[t] \in Int /\ now \in Nat
  BY <1>1, CategoryFacts DEF Placed, Accounted
<1>3. Smaller(quantum, left[t]) = left[t]
  BY <1>1, <1>2, QuantumFacts
<1>4. PICK c \in Int, w \in Int, b \in Int, k \in Int, v \in Int :
        /\ c = SumTo(file.compute_times[t], index[t]) /\ w = SumTo(file.wait_times[t], index[t])
        /\ b = file.compute_times[t][index[t] + 1] /\ k = left[t] /\ v = wait[t]
  <2>1. /\ SumTo(file.compute_times[t], index[t]) \in Int /\ SumTo(file.wait_times[t], index[t]) \in Int
        /\ file.compute_times[t][index[t] + 1] \in Int
    BY <1>1, BurstsPass
  <2>2. left[t] \in Int /\ wait[t] \in Int
    BY <1>1, <1>2
  <2>3. QED
    BY <2>1, <2>2
<1>5. SumTo(file.compute_times[t], index[t] + 1) = c + b
  BY <1>1, <1>4, BurstsPass
<1>6. now - file.start_time[t] = wait[t] + Past(t, index) + Burst(t, index) - left[t] + Smaller(quantum, left[t])
  <2>1. e.category # EVT_START /\ e.category # EVT_UNBLOCK
    BY CategoryFacts
  <2>2. QED
    BY <2>1 DEF Accounted
<1>7. now - file.start_time[t] = v + (c + w) + b - k + k
  BY <1>3, <1>4, <1>6 DEF Past, Burst
<1>8. v + (c + w) + b - k + k = v + (c + b) + w
  OBVIOUS
<1>9. Had(E, state, left, index, now, t) = c + (b - k + k - (now - now))
  <2>1. EventAbout(E, t) = e
    BY TheEvent
  <2>2. QED
    BY <1>2, <1>3, <1>4, <2>1 DEF Had, Burst
<1>10. c + (b - k + k - (now - now)) = c + b
  BY <1>2
<1>11. QED
  BY <1>1, <1>2, <1>4, <1>5, <1>7, <1>8, <1>9, <1>10

\* A task whose last burst ends.
LEMMA Finishes ==
  ASSUME file \in Files, round \in DOMAIN Quanta,
         NEW E, NEW ready, NEW cpu, NEW state, NEW left, NEW index, NEW now,
         Placed(E, ready, cpu, state, left, index, now),
         NEW wait, NEW report, Accounted(E, state, left, index, now, wait, report),
         NEW e \in E, e.timestamp = now, e.category = EVT_COMPLETE, NEW t, t = e.task_index,
         index[t] + 1 = burst_count(t)
  PROVE  LET state2  == Changed(state, t, "DONE")
             index2  == Changed(index, t, index[t] + 1)
             report2 == Changed(report, t, now - file.start_time[t] - activity_time(t))
         IN  /\ Placed(E \ {e}, ready, NOTASK, state2, left, index2, now)
             /\ Accounted(E \ {e}, state2, left, index2, now, wait, report2)
             /\ SameHad(E, state, left, index, E \ {e}, state2, left, index2, now)
<1>1. /\ t \in Tasks /\ index[t] \in Nat /\ index[t] < burst_count(t) /\ state[t] = "ACTIVE" /\ wait[t] \in Int
      /\ now - file.start_time[t] = wait[t] + SumTo(file.compute_times[t], index[t] + 1)
                                            + SumTo(file.wait_times[t], index[t])
      /\ Had(E, state, left, index, now, t) = SumTo(file.compute_times[t], index[t] + 1)
  BY BurstOver
<1>2. PICK state2, index2, report2, F :
        /\ state2 = Changed(state, t, "DONE") /\ index2 = Changed(index, t, index[t] + 1)
        /\ report2 = Changed(report, t, now - file.start_time[t] - activity_time(t)) /\ F = E \ {e}
  OBVIOUS
<1>3. now - file.start_time[t] - activity_time(t) = wait[t]
  <2>1. PICK c \in Int, w \in Int, v \in Int :
          /\ c = SumTo(file.compute_times[t], index[t] + 1) /\ w = SumTo(file.wait_times[t], index[t]) /\ v = wait[t]
    BY <1>1, BurstsPass
  <2>2. burst_count(t) - 1 = index[t]
    BY <1>1
  <2>3. activity_time(t) = c + w
    BY <2>1, <2>2 DEF activity_time
  <2>4. (v + c + w) - (c + w) = v
    OBVIOUS
  <2>5. QED
    BY <1>1, <2>1, <2>3, <2>4
<1>4. /\ E \subseteq Events /\ now \in Nat /\ ready \in Seq(Tasks)
      /\ state \in [Tasks -> Kinds] /\ left \in [Tasks -> Nat \ {0}] /\ index \in [Tasks -> Nat]
      /\ \A a, b \in E : a.task_index = b.task_index => a = b
      /\ \A u \in Tasks : state[u] \notin {"QUEUED", "DONE"} => \E x \in E : x.task_index = u
      /\ \A i, j \in 1 .. Len(ready) : ready[i] = ready[j] => i = j
      /\ \A u \in Tasks : state[u] = "QUEUED" <=> \E i \in 1 .. Len(ready) : ready[i] = u
      /\ \A u \in Tasks : cpu = u <=> state[u] = "ACTIVE"
      /\ \A u \in Tasks : IF state[u] = "DONE" THEN index[u] = burst_count(u) ELSE index[u] < burst_count(u)
  BY DEF Placed
<1>5. wait \in [Tasks -> Int] /\ report \in [Tasks -> Int]
  BY DEF Accounted
<1>6. /\ state2 \in [Tasks -> Kinds] /\ index2 \in [Tasks -> Nat] /\ report2 \in [Tasks -> Int]
      /\ state2[t] = "DONE" /\ index2[t] = index[t] + 1 /\ report2[t] = wait[t]
      /\ \A u \in Tasks : u # t => state2[u] = state[u] /\ index2[u] = index[u] /\ report2[u] = report[u]
  BY <1>1, <1>2, <1>3, <1>4, <1>5 DEF Changed, Kinds
<1>7. \A x \in F : x \in E /\ x.task_index \in Tasks /\ x.task_index # t
  BY <1>2, <1>4 DEF Events
<1>8. \A u \in Tasks : u # t => Past(u, index2) = Past(u, index) /\ Burst(u, index2) = Burst(u, index)
  BY <1>6 DEF Past, Burst
<1>9. Placed(F, ready, NOTASK, state2, left, index2, now)
  <2>1. \A x \in F : /\ state2[x.task_index] \in Awaits(x.category)
                     /\ x.timestamp >= now
                     /\ x.category = EVT_PREEMPT => left[x.task_index] > quantum
                     /\ x.category = EVT_COMPLETE => left[x.task_index] <= quantum
    BY <1>6, <1>7 DEF Placed
  <2>2. ASSUME NEW u \in Tasks, state2[u] \notin {"QUEUED", "DONE"}
        PROVE  \E x \in F : x.task_index = u
    <3>1. u # t /\ state[u] \notin {"QUEUED", "DONE"}
      BY <1>6, <2>2
    <3>2. PICK x \in E : x.task_index = u
      BY <1>4, <3>1
    <3>3. x \in F
      BY <1>2, <3>1, <3>2
    <3>4. QED
      BY <3>2, <3>3
  <2>3. \A u \in Tasks : state2[u] = "QUEUED" <=> \E i \in 1 .. Len(ready) : ready[i] = u
    BY <1>1, <1>4, <1>6
  <2>4. \A u \in Tasks : NOTASK = u <=> state2[u] = "ACTIVE"
    <3>1. NOTASK \notin Tasks
      BY DEF NOTASK, Tasks
    <3>2. \A u \in Tasks : u # t => state[u] # "ACTIVE"
      BY <1>1, <1>4
    <3>3. \A u \in Tasks : state2[u] # "ACTIVE"
      BY <1>6, <3>2
    <3>4. QED
      BY <3>1, <3>3
  <2>5. \A u \in Tasks : IF state2[u] = "DONE" THEN index2[u] = burst_count(u) ELSE index2[u] < burst_count(u)
    BY <1>4, <1>6
  <2>6. F \subseteq Events /\ \A a, b \in F : a.task_index = b.task_index => a = b
    BY <1>2, <1>4
  <2>7. QED
    BY <1>4, <1>6, <2>1, <2>2, <2>3, <2>4, <2>5, <2>6 DEF Placed
<1>10. Accounted(F, state2, left, index2, now, wait, report2)
  <2>1. \A x \in F :
       LET u == x.task_index
       IN  CASE x.category = EVT_START ->
                  index2[u] = 0 /\ left[u] = Burst(u, index2) /\ wait[u] = 0 /\ x.timestamp = file.start_time[u]
             [] x.category = EVT_UNBLOCK ->
                  x.timestamp - file.start_time[u] = wait[u] + Past(u, index2)
             [] OTHER ->
                  x.timestamp - file.start_time[u]
                    = wait[u] + Past(u, index2) + Burst(u, index2) - left[u] + Smaller(quantum, left[u])
    <3>1. \A x \in F : /\ index2[x.task_index] = index[x.task_index]
                       /\ Past(x.task_index, index2) = Past(x.task_index, index)
                       /\ Burst(x.task_index, index2) = Burst(x.task_index, index)
      BY <1>6, <1>7, <1>8
    <3>2. QED
      BY <1>7, <3>1 DEF Accounted
  <2>2. ASSUME NEW u \in Tasks
        PROVE  /\ state2[u] = "QUEUED" => now - file.start_time[u] = wait[u] + Past(u, index2) + Burst(u, index2) - left[u]
               /\ state2[u] = "DONE" => report2[u] = wait[u]
    <3>1. CASE u = t
      BY <1>6, <3>1
    <3>2. CASE u # t
      BY <1>6, <1>8, <3>2 DEF Accounted
    <3>3. QED
      BY <3>1, <3>2
  <2>3. QED
    BY <1>5, <1>6, <2>1, <2>2 DEF Accounted
<1>11. ASSUME NEW u \in Tasks
       PROVE  Had(F, state2, left, index2, now, u) = Had(E, state, left, index, now, u)
  <2>1. CASE u = t
    <3>1. SumTo(file.compute_times[t], index[t] + 1) \in Int
      BY <1>1, BurstsPass
    <3>2. Had(F, state2, left, index2, now, t) = SumTo(file.compute_times[t], index[t] + 1)
      BY <1>6, <3>1 DEF Had
    <3>3. QED
      BY <1>1, <2>1, <3>2
  <2>2. CASE u # t
    <3>1. state[u] = "ACTIVE" => \E x \in E \cap F : x.task_index = u
      BY <1>2, <1>4, <2>2
    <3>2. state2[u] = state[u] /\ index2[u] = index[u]
      BY <1>6, <2>2
    <3>3. QED
      BY <1>9, <3>1, <3>2, HadKept
  <2>3. QED
    BY <2>1, <2>2
<1>12. SameHad(E, state, left, index, F, state2, left, index2, now)
  BY <1>11 DEF SameHad
<1>13. QED
  BY <1>2, <1>9, <1>10, <1>12

\* A task whose CPU burst ends before an I/O burst.
LEMMA Blocks ==
  ASSUME file \in Files, round \in DOMAIN Quanta,
         NEW E, NEW ready, NEW cpu, NEW state, NEW left, NEW index, NEW now,
         Placed(E, ready, cpu, state, left, index, now),
         NEW wait, NEW report, Accounted(E, state, left, index, now, wait, report),
         NEW e \in E, e.timestamp = now, e.category = EVT_COMPLETE, NEW t, t = e.task_index,
         index[t] + 1 # burst_count(t)
  PROVE  LET state2  == Changed(state, t, "BLOCKED")
             index2  == Changed(index, t, index[t] + 1)
             f == [timestamp |-> now + file.wait_times[t][index[t] + 1], task_index |-> t, category |-> EVT_UNBLOCK]
             F == (E \ {e}) \cup {f}
         IN  /\ f \notin E \ {e}
             /\ Placed(F, ready, NOTASK, state2, left, index2, now)
             /\ Accounted(F, state2, left, index2, now, wait, report)
             /\ SameHad(E, state, left, index, F, state2, left, index2, now)
<1>1. /\ t \in Tasks /\ index[t] \in Nat /\ index[t] < burst_count(t) /\ state[t] = "ACTIVE" /\ wait[t] \in Int
      /\ now - file.start_time[t] = wait[t] + SumTo(file.compute_times[t], index[t] + 1)
                                            + SumTo(file.wait_times[t], index[t])
      /\ Had(E, state, left, index, now, t) = SumTo(file.compute_times[t], index[t] + 1)
  BY BurstOver
<1>2. PICK state2, index2, f, F :
        /\ state2 = Changed(state, t, "BLOCKED") /\ index2 = Changed(index, t, index[t] + 1)
        /\ f = [timestamp |-> now + file.wait_times[t][index[t] + 1], task_index |-> t, category |-> EVT_UNBLOCK]
        /\ F = (E \ {e}) \cup {f}
  OBVIOUS
<1>3. /\ E \subseteq Events /\ now \in Nat /\ ready \in Seq(Tasks)
      /\ state \in [Tasks -> Kinds] /\ left \in [Tasks -> Nat \ {0}] /\ index \in [Tasks -> Nat]
      /\ \A a, b \in E : a.task_index = b.task_index => a = b
      /\ \A u \in Tasks : state[u] \notin {"QUEUED", "DONE"} => \E x \in E : x.task_index = u
      /\ \A i, j \in 1 .. Len(ready) : ready[i] = ready[j] => i = j
      /\ \A u \in Tasks : state[u] = "QUEUED" <=> \E i \in 1 .. Len(ready) : ready[i] = u
      /\ \A u \in Tasks : cpu = u <=> state[u] = "ACTIVE"
      /\ \A u \in Tasks : IF state[u] = "DONE" THEN index[u] = burst_count(u) ELSE index[u] < burst_count(u)
  BY DEF Placed
<1>4. wait \in [Tasks -> Int] /\ report \in [Tasks -> Int]
  BY DEF Accounted
<1>5. index[t] + 1 < burst_count(t) /\ index[t] + 1 \in Nat
  <2>1. PICK i \in Nat, m \in Nat : i = index[t] /\ m = burst_count(t)
    BY <1>1, FileFacts
  <2>2. QED
    BY <1>1, <2>1
<1>6. PICK g \in Nat \ {0} : g = file.wait_times[t][index[t] + 1]
  BY <1>1, <1>5, BurstsPass
<1>7. /\ state2 \in [Tasks -> Kinds] /\ index2 \in [Tasks -> Nat]
      /\ state2[t] = "BLOCKED" /\ index2[t] = index[t] + 1
      /\ \A u \in Tasks : u # t => state2[u] = state[u] /\ index2[u] = index[u]
  BY <1>1, <1>2, <1>3 DEF Changed, Kinds
<1>8. f \in Events /\ f.task_index = t /\ f.timestamp = now + g /\ f.category = EVT_UNBLOCK
  <2>1. now + g \in Nat /\ EVT_UNBLOCK \in Categories
    BY <1>3 DEF Categories
  <2>2. f = [timestamp |-> now + g, task_index |-> t, category |-> EVT_UNBLOCK]
    BY <1>2, <1>6
  <2>3. QED
    BY <1>1, <2>1, <2>2 DEF Events
<1>9. \A x \in F : x = f \/ (x \in E /\ x.task_index \in Tasks /\ x.task_index # t)
  BY <1>2, <1>3 DEF Events
<1>10. \A u \in Tasks : u # t => Past(u, index2) = Past(u, index) /\ Burst(u, index2) = Burst(u, index)
  BY <1>7 DEF Past, Burst
<1>11. Placed(F, ready, NOTASK, state2, left, index2, now)
  <2>1. ASSUME NEW x \in F
        PROVE  /\ state2[x.task_index] \in Awaits(x.category)
               /\ x.timestamp >= now
               /\ x.category = EVT_PREEMPT => left[x.task_index] > quantum
               /\ x.category = EVT_COMPLETE => left[x.task_index] <= quantum
    <3>1. CASE x = f
      BY <1>3, <1>7, <1>8, <3>1, CategoryFacts
    <3>2. CASE x # f
      BY <1>7, <1>9, <3>2 DEF Placed
    <3>3. QED
      BY <3>1, <3>2
  <2>2. ASSUME NEW u \in Tasks, state2[u] \notin {"QUEUED", "DONE"}
        PROVE  \E x \in F : x.task_index = u
    <3>1. CASE u = t
      BY <1>2, <1>8, <3>1
    <3>2. CASE u # t
      <4>1. PICK x \in E : x.task_index = u
        BY <1>3, <1>7, <2>2, <3>2
      <4>2. x \in F
        BY <1>2, <3>2, <4>1
      <4>3. QED
        BY <4>1, <4>2
    <3>3. QED
      BY <3>1, <3>2
  <2>3. \A u \in Tasks : state2[u] = "QUEUED" <=> \E i \in 1 .. Len(ready) : ready[i] = u
    BY <1>1, <1>3, <1>7
  <2>4. \A u \in Tasks : NOTASK = u <=> state2[u] = "ACTIVE"
    <3>1. NOTASK \notin Tasks
      BY DEF NOTASK, Tasks
    <3>2. \A u \in Tasks : u # t => state[u] # "ACTIVE"
      BY <1>1, <1>3
    <3>3. \A u \in Tasks : state2[u] # "ACTIVE"
      BY <1>7, <3>2
    <3>4. QED
      BY <3>1, <3>3
  <2>5. ASSUME NEW u \in Tasks
        PROVE  IF state2[u] = "DONE" THEN index2[u] = burst_count(u) ELSE index2[u] < burst_count(u)
    <3>1. CASE u = t
      BY <1>5, <1>7, <3>1
    <3>2. CASE u # t
      BY <1>3, <1>7, <3>2
    <3>3. QED
      BY <3>1, <3>2
  <2>6. F \subseteq Events
    BY <1>3, <1>8, <1>9
  <2>7. \A a, b \in F : a.task_index = b.task_index => a = b
    BY <1>3, <1>8, <1>9
  <2>8. QED
    BY <1>3, <1>7, <2>1, <2>2, <2>3, <2>4, <2>5, <2>6, <2>7 DEF Placed
<1>12. Accounted(F, state2, left, index2, now, wait, report)
  <2>1. ASSUME NEW x \in F
        PROVE
       LET u == x.task_index
       IN  CASE x.category = EVT_START ->
                  index2[u] = 0 /\ left[u] = Burst(u, index2) /\ wait[u] = 0 /\ x.timestamp = file.start_time[u]
             [] x.category = EVT_UNBLOCK ->
                  x.timestamp - file.start_time[u] = wait[u] + Past(u, index2)
             [] OTHER ->
                  x.timestamp - file.start_time[u]
                    = wait[u] + Past(u, index2) + Burst(u, index2) - left[u] + Smaller(quantum, left[u])
    <3>1. CASE x = f
      <4>1. PICK c \in Int, w \in Int, v \in Int, s \in Int :
              /\ c = SumTo(file.compute_times[t], index[t] + 1) /\ w = SumTo(file.wait_times[t], index[t])
              /\ v = wait[t] /\ s = file.start_time[t]
        <5>1. /\ SumTo(file.compute_times[t], index[t] + 1) \in Int
              /\ SumTo(file.wait_times[t], index[t]) \in Int
          BY <1>1, BurstsPass
        <5>2. wait[t] \in Int /\ file.start_time[t] \in Int
          BY <1>1, FileFacts
        <5>3. QED
          BY <5>1, <5>2
      <4>2. SumTo(file.wait_times[t], index[t] + 1) = w + g
        BY <1>1, <1>5, <1>6, <4>1, BurstsPass
      <4>3. Past(t, index2) = c + (w + g)
        BY <1>7, <4>1, <4>2 DEF Past
      <4>4. now - s = v + c + w
        BY <1>1, <4>1
      <4>5. (now + g) - s = v + (c + (w + g))
        <5>1. now \in Int
          BY <1>3
        <5>2. QED
          BY <4>4, <5>1
      <4>6. f.timestamp - file.start_time[t] = wait[t] + Past(t, index2)
        BY <1>8, <4>1, <4>3, <4>5
      <4>7. QED
        BY <1>8, <3>1, <4>6, CategoryFacts
    <3>2. CASE x # f
      <4>1. x \in E /\ x.task_index \in Tasks /\ x.task_index # t
        BY <1>9, <3>2
      <4>2. /\ index2[x.task_index] = index[x.task_index]
            /\ Past(x.task_index, index2) = Past(x.task_index, index)
            /\ Burst(x.task_index, index2) = Burst(x.task_index, index)
        BY <1>7, <1>10, <4>1
      <4>3. QED
        BY <4>1, <4>2 DEF Accounted
    <3>3. QED
      BY <3>1, <3>2
  <2>2. ASSUME NEW u \in Tasks
        PROVE  /\ state2[u] = "QUEUED" => now - file.start_time[u] = wait[u] + Past(u, index2) + Burst(u, index2) - left[u]
               /\ state2[u] = "DONE" => report[u] = wait[u]
    <3>1. CASE u = t
      BY <1>7, <3>1
    <3>2. CASE u # t
      BY <1>7, <1>10, <3>2 DEF Accounted
    <3>3. QED
      BY <3>1, <3>2
  <2>3. QED
    BY <1>4, <2>1, <2>2 DEF Accounted
<1>13. ASSUME NEW u \in Tasks
       PROVE  Had(F, state2, left, index2, now, u) = Had(E, state, left, index, now, u)
  <2>1. CASE u = t
    <3>1. SumTo(file.compute_times[t], index[t] + 1) \in Int
      BY <1>1, BurstsPass
    <3>2. Had(F, state2, left, index2, now, t) = SumTo(file.compute_times[t], index[t] + 1)
      BY <1>7, <3>1 DEF Had
    <3>3. QED
      BY <1>1, <2>1, <3>2
  <2>2. CASE u # t
    <3>1. state[u] = "ACTIVE" => \E x \in E \cap F : x.task_index = u
      BY <1>2, <1>3, <2>2
    <3>2. state2[u] = state[u] /\ index2[u] = index[u]
      BY <1>7, <2>2
    <3>3. QED
      BY <1>11, <3>1, <3>2, HadKept
  <2>3. QED
    BY <2>1, <2>2
<1>14. SameHad(E, state, left, index, F, state2, left, index2, now)
  BY <1>13 DEF SameHad
<1>15. f \notin E \ {e}
  BY <1>3, <1>8
<1>16. QED
  BY <1>2, <1>11, <1>12, <1>14, <1>15

-----------------------------------------------------------------------------
(* The scheduling.                                                           *)

\* How the CPU is given to task t: what will happen next to it.
NextOf(t, left, now) ==
  LET duration == Slice(quantum, left[t])
  IN  [timestamp |-> now + duration, task_index |-> t,
       category |-> IF duration = left[t] THEN EVT_COMPLETE ELSE EVT_PREEMPT]

\* The first task in the ready queue gets the CPU.
LEMMA Dispatched ==
  ASSUME file \in Files, round \in DOMAIN Quanta,
         NEW E, NEW ready, NEW state, NEW left, NEW index, NEW now,
         Placed(E, ready, NOTASK, state, left, index, now), ready # <<>>,
         NEW wait, NEW report, Accounted(E, state, left, index, now, wait, report)
  PROVE  LET t      == Head(ready)
             f      == NextOf(t, left, now)
             state2 == Changed(state, t, "ACTIVE")
             F      == E \cup {f}
         IN  /\ f \notin E
             /\ Placed(F, Tail(ready), t, state2, left, index, now)
             /\ Accounted(F, state2, left, index, now, wait, report)
             /\ SameHad(E, state, left, index, F, state2, left, index, now)
<1>1. PICK t, f, state2, F, rest :
        /\ t = Head(ready) /\ f = NextOf(t, left, now) /\ state2 = Changed(state, t, "ACTIVE") /\ F = E \cup {f}
        /\ rest = Tail(ready)
  OBVIOUS
<1>2. /\ E \subseteq Events /\ now \in Nat /\ ready \in Seq(Tasks)
      /\ state \in [Tasks -> Kinds] /\ left \in [Tasks -> Nat \ {0}] /\ index \in [Tasks -> Nat]
      /\ \A a, b \in E : a.task_index = b.task_index => a = b
      /\ \A u \in Tasks : state[u] \notin {"QUEUED", "DONE"} => \E x \in E : x.task_index = u
      /\ \A i, j \in 1 .. Len(ready) : ready[i] = ready[j] => i = j
      /\ \A u \in Tasks : state[u] = "QUEUED" <=> \E i \in 1 .. Len(ready) : ready[i] = u
      /\ \A u \in Tasks : NOTASK = u <=> state[u] = "ACTIVE"
      /\ \A u \in Tasks : IF state[u] = "DONE" THEN index[u] = burst_count(u) ELSE index[u] < burst_count(u)
  BY DEF Placed
<1>3. wait \in [Tasks -> Int] /\ report \in [Tasks -> Int]
  BY DEF Accounted
<1>4. PICK k \in Nat : k = Len(ready) /\ k >= 1 /\ 1 \in 1 .. k
  BY <1>2
<1>5. t = ready[1] /\ t \in Tasks /\ state[t] = "QUEUED"
  BY <1>1, <1>2, <1>4
<1>6. rest \in Seq(Tasks) /\ Len(rest) = k - 1 /\ \A i \in 1 .. k - 1 : rest[i] = ready[i + 1]
  BY <1>1, <1>2, <1>4
<1>7. /\ state2 \in [Tasks -> Kinds] /\ state2[t] = "ACTIVE"
      /\ \A u \in Tasks : u # t => state2[u] = state[u]
  BY <1>1, <1>2, <1>5 DEF Changed, Kinds
<1>8. left[t] \in Nat \ {0} /\ index[t] \in Nat /\ index[t] < burst_count(t)
  BY <1>2, <1>5
<1>9. PICK d \in Nat \ {0} : d = Smaller(quantum, left[t]) /\ d = Slice(quantum, left[t])
  BY <1>8, QuantumFacts DEF Slice
<1>10. /\ f \in Events /\ f.task_index = t /\ f.timestamp = now + d
       /\ f.category = IF d = left[t] THEN EVT_COMPLETE ELSE EVT_PREEMPT
  BY <1>1, <1>2, <1>5, <1>9 DEF NextOf, Events, Categories
<1>11. \A x \in E : x.task_index \in Tasks /\ x.task_index # t
  <2>1. TAKE x \in E
  <2>2. x.task_index \in Tasks /\ state[x.task_index] \in {"INIT", "BLOCKED", "ACTIVE"}
    BY TaskOfEvent
  <2>3. QED
    BY <1>5, <2>2
<1>12. f \notin E /\ \A x \in F : x = f \/ x \in E
  BY <1>1, <1>10, <1>11
<1>13. Placed(F, rest, t, state2, left, index, now)
  <2>1. ASSUME NEW x \in F
        PROVE  /\ state2[x.task_index] \in Awaits(x.category)
               /\ x.timestamp >= now
               /\ x.category = EVT_PREEMPT => left[x.task_index] > quantum
               /\ x.category = EVT_COMPLETE => left[x.task_index] <= quantum
    <3>1. CASE x = f
      <4>1. PICK q \in Nat \ {0}, l \in Nat \ {0} : q = quantum /\ l = left[t]
        BY <1>8, QuantumFacts
      <4>2. d = IF q < l THEN q ELSE l
        BY <1>9, <4>1 DEF Smaller
      <4>3. (d = l => l <= q) /\ (d # l => l > q) /\ now + d >= now
        BY <1>2, <4>2
      <4>4. QED
        BY <1>7, <1>10, <3>1, <4>1, <4>3, CategoryFacts
    <3>2. CASE x # f
      <4>1. x \in E /\ x.task_index \in Tasks /\ x.task_index # t
        BY <1>11, <1>12, <3>2
      <4>2. QED
        BY <1>7, <4>1 DEF Placed
    <3>3. QED
      BY <3>1, <3>2
  <2>2. ASSUME NEW u \in Tasks, state2[u] \notin {"QUEUED", "DONE"}
        PROVE  \E x \in F : x.task_index = u
    <3>1. CASE u = t
      BY <1>1, <1>10, <3>1
    <3>2. CASE u # t
      BY <1>1, <1>2, <1>7, <2>2, <3>2
    <3>3. QED
      BY <3>1, <3>2
  <2>3. \A i, j \in 1 .. Len(rest) : rest[i] = rest[j] => i = j
    <3>1. TAKE i, j \in 1 .. Len(rest)
    <3>2. i + 1 \in 1 .. k /\ j + 1 \in 1 .. k /\ (i + 1 = j + 1 => i = j)
      BY <1>4, <1>6
    <3>3. rest[i] = ready[i + 1] /\ rest[j] = ready[j + 1]
      BY <1>6
    <3>4. PICK x \in 1 .. Len(ready), y \in 1 .. Len(ready) : x = i + 1 /\ y = j + 1 /\ (x = y => i = j)
      BY <1>4, <3>2
    <3>5. ready[x] = ready[y] => x = y
      BY <1>2
    <3>6. QED
      BY <3>3, <3>4, <3>5
  <2>4. ASSUME NEW u \in Tasks
        PROVE  state2[u] = "QUEUED" <=> \E i \in 1 .. Len(rest) : rest[i] = u
    <3>1. (\E i \in 1 .. Len(rest) : rest[i] = u) <=> \E i \in 2 .. k : ready[i] = u
      <4>1. ASSUME NEW i \in 1 .. Len(rest)
            PROVE  i + 1 \in 2 .. k /\ ready[i + 1] = rest[i]
        BY <1>4, <1>6
      <4>2. ASSUME NEW i \in 2 .. k
            PROVE  i - 1 \in 1 .. Len(rest) /\ rest[i - 1] = ready[i]
        <5>1. i - 1 \in 1 .. k - 1 /\ (i - 1) + 1 = i
          BY <1>4
        <5>2. QED
          BY <1>6, <5>1
      <4>3. QED
        BY <4>1, <4>2
    <3>2. CASE u = t
      <4>1. \A i \in 2 .. k : ready[i] # t
        BY <1>2, <1>4, <1>5
      <4>2. QED
        BY <1>7, <3>1, <3>2, <4>1
    <3>3. CASE u # t
      <4>1. \A i \in 1 .. k : ready[i] = u => i \in 2 .. k
        BY <1>4, <1>5, <3>3
      <4>2. (\E i \in 1 .. k : ready[i] = u) <=> \E i \in 2 .. k : ready[i] = u
        BY <1>4, <4>1
      <4>3. QED
        BY <1>2, <1>4, <1>7, <3>1, <3>3, <4>2
    <3>4. QED
      BY <3>2, <3>3
  <2>5. \A u \in Tasks : t = u <=> state2[u] = "ACTIVE"
    <3>1. \A u \in Tasks : state[u] # "ACTIVE"
      <4>1. NOTASK \notin Tasks
        BY DEF NOTASK, Tasks
      <4>2. QED
        BY <1>2, <4>1
    <3>2. QED
      BY <1>7, <3>1
  <2>6. \A u \in Tasks : IF state2[u] = "DONE" THEN index[u] = burst_count(u) ELSE index[u] < burst_count(u)
    BY <1>2, <1>5, <1>7
  <2>7. F \subseteq Events
    BY <1>2, <1>10, <1>12
  <2>8. \A a, b \in F : a.task_index = b.task_index => a = b
    BY <1>2, <1>10, <1>11, <1>12
  <2>9. QED
    BY <1>2, <1>5, <1>6, <1>7, <2>1, <2>2, <2>3, <2>4, <2>5, <2>6, <2>7, <2>8 DEF Placed
<1>14. Accounted(F, state2, left, index, now, wait, report)
  <2>1. ASSUME NEW x \in F
        PROVE
       LET u == x.task_index
       IN  CASE x.category = EVT_START ->
                  index[u] = 0 /\ left[u] = Burst(u, index) /\ wait[u] = 0 /\ x.timestamp = file.start_time[u]
             [] x.category = EVT_UNBLOCK ->
                  x.timestamp - file.start_time[u] = wait[u] + Past(u, index)
             [] OTHER ->
                  x.timestamp - file.start_time[u]
                    = wait[u] + Past(u, index) + Burst(u, index) - left[u] + Smaller(quantum, left[u])
    <3>1. CASE x = f
      <4>1. wait[t] \in Int /\ left[t] \in Int /\ file.start_time[t] \in Int
        BY <1>3, <1>5, <1>8, FileFacts
      <4>2. Past(t, index) \in Int /\ Burst(t, index) \in Int
        BY <1>5, <1>8, BurstsPass DEF Past, Burst
      <4>3. PICK p \in Int, b \in Int, v \in Int, s \in Int, l \in Int :
              p = Past(t, index) /\ b = Burst(t, index) /\ v = wait[t] /\ s = file.start_time[t] /\ l = left[t]
        BY <4>1, <4>2
      <4>4. now - s = v + p + b - l
        BY <1>5, <4>3 DEF Accounted
      <4>5. (now + d) - s = v + p + b - l + d
        BY <1>2, <4>4
      <4>6. f.category # EVT_START /\ f.category # EVT_UNBLOCK
        BY <1>10, CategoryFacts
      <4>7. f.timestamp - file.start_time[t] = wait[t] + Past(t, index) + Burst(t, index) - left[t] + Smaller(quantum, left[t])
        BY <1>9, <1>10, <4>3, <4>5
      <4>8. QED
        BY <1>10, <3>1, <4>6, <4>7
    <3>2. CASE x # f
      <4>1. x \in E
        BY <1>12, <3>2
      <4>2. QED
        BY <4>1 DEF Accounted
    <3>3. QED
      BY <3>1, <3>2
  <2>2. ASSUME NEW u \in Tasks
        PROVE  /\ state2[u] = "QUEUED" => now - file.start_time[u] = wait[u] + Past(u, index) + Burst(u, index) - left[u]
               /\ state2[u] = "DONE" => report[u] = wait[u]
    <3>1. CASE u = t
      BY <1>7, <3>1
    <3>2. CASE u # t
      BY <1>7, <3>2 DEF Accounted
    <3>3. QED
      BY <3>1, <3>2
  <2>3. QED
    BY <1>3, <2>1, <2>2 DEF Accounted
<1>15. ASSUME NEW u \in Tasks
       PROVE  Had(F, state2, left, index, now, u) = Had(E, state, left, index, now, u)
  <2>1. CASE u = t
    <3>1. EventAbout(F, t) = f
      BY <1>1, <1>10, <1>13, TheEvent
    <3>2. PICK b \in Int, l \in Int : b = Burst(t, index) /\ l = left[t]
      <4>1. Burst(t, index) \in Int
        BY <1>5, <1>8, BurstsPass DEF Burst
      <4>2. QED
        BY <1>8, <4>1
    <3>3. Had(F, state2, left, index, now, t) = SumTo(file.compute_times[t], index[t]) + (b - l + d - ((now + d) - now))
      BY <1>7, <1>9, <1>10, <3>1, <3>2 DEF Had
    <3>4. b - l + d - ((now + d) - now) = b - l
      BY <1>2
    <3>5. Had(E, state, left, index, now, t) = SumTo(file.compute_times[t], index[t]) + (b - l)
      BY <1>5, <3>2 DEF Had
    <3>6. QED
      BY <2>1, <3>3, <3>4, <3>5
  <2>2. CASE u # t
    <3>1. state[u] = "ACTIVE" => \E x \in E \cap F : x.task_index = u
      BY <1>1, <1>2
    <3>2. state2[u] = state[u]
      BY <1>7, <2>2
    <3>3. QED
      BY <1>13, <3>1, <3>2, HadKept
  <2>3. QED
    BY <2>1, <2>2
<1>16. SameHad(E, state, left, index, F, state2, left, index, now)
  BY <1>15 DEF SameHad
<1>17. QED
  BY <1>1, <1>12, <1>13, <1>14, <1>16

\* When no task has had more or less, the account of the CPU is the same.
LEMMA BalanceKept ==
  ASSUME NEW E, NEW state, NEW left, NEW index, NEW F, NEW state2, NEW left2, NEW index2, NEW now, NEW idle,
         Balanced(E, state, left, index, now, idle),
         SameHad(E, state, left, index, F, state2, left2, index2, now)
  PROVE  Balanced(F, state2, left2, index2, now, idle)
<1>1. \A i \in 1 .. n : i - 1 \in Tasks
  BY SizeAssumption DEF Tasks
<1>2. [i \in 1 .. n |-> Had(F, state2, left2, index2, now, i - 1)] = [i \in 1 .. n |-> Had(E, state, left, index, now, i - 1)]
  BY <1>1 DEF SameHad
<1>3. QED
  BY <1>2 DEF Balanced

\* What holds after every step of a run, with the events F in the heap.
Reached(F) ==
  /\ HeapOf(event_queue', F)
  /\ Placed(F, ready_queue', running_task', status', time_left', burst_index', system_time')
  /\ Accounted(F, status', time_left', burst_index', system_time', waited', queue_time')
  /\ Balanced(F, status', time_left', burst_index', system_time', idle_periods')
  /\ running_task' = NOTASK => ready_queue' = <<>>

\* schedule_next_task gives the CPU to a task when it can.
LEMMA Schedules ==
  ASSUME file \in Files, round \in DOMAIN Quanta,
         NEW E, NEW heap, HeapOf(heap, E), NEW ready, NEW cpu, NEW state,
         Placed(E, ready, cpu, state, time_left', burst_index', system_time'),
         Accounted(E, state, time_left', burst_index', system_time', waited', queue_time'),
         Balanced(E, state, time_left', burst_index', system_time', idle_periods'),
         schedule_next_task(ready, heap, cpu, time_left', state)
  PROVE  \E F : Reached(F)
<1>1. CASE cpu # NOTASK \/ ready = <<>>
  <2>1. ready_queue' = ready /\ event_queue' = heap /\ running_task' = cpu /\ status' = state
    BY <1>1 DEF schedule_next_task
  <2>2. Reached(E)
    BY <1>1, <2>1 DEF Reached
  <2>3. QED
    BY <2>2
<1>2. CASE cpu = NOTASK /\ ready # <<>>
  <2>1. PICK t, left, now, index, f, state2, F :
          /\ t = Head(ready) /\ left = time_left' /\ now = system_time' /\ index = burst_index'
          /\ f = NextOf(t, left, now) /\ state2 = Changed(state, t, "ACTIVE") /\ F = E \cup {f}
    OBVIOUS
  <2>2. /\ ready_queue' = Tail(ready) /\ running_task' = t /\ status' = state2
        /\ event_queue' = event_queue_push(heap, f)
    BY <1>2, <2>1 DEF schedule_next_task, Changed, NextOf
  <2>3. /\ f \notin E
        /\ Placed(F, Tail(ready), t, state2, left, index, now)
        /\ Accounted(F, state2, left, index, now, waited', queue_time')
        /\ SameHad(E, state, left, index, F, state2, left, index, now)
    BY <1>2, <2>1, Dispatched
  <2>4. Balanced(F, state2, left, index, now, idle_periods')
    BY <2>1, <2>3, BalanceKept
  <2>5. HeapOf(event_queue_push(heap, f), F)
    <3>1. Orderly(E \cup {f})
      BY <2>1, <2>3, PlacedAreOrderly
    <3>2. QED
      BY <2>1, <2>3, <3>1, Pushed
  <2>6. t # NOTASK
    <3>1. ready \in Seq(Tasks)
      BY DEF Placed
    <3>2. t \in Tasks
      BY <1>2, <2>1, <3>1
    <3>3. QED
      BY <3>2 DEF NOTASK, Tasks
  <2>7. Reached(F)
    BY <2>1, <2>2, <2>3, <2>4, <2>5, <2>6 DEF Reached
  <2>8. QED
    BY <2>7
<1>3. QED
  BY <1>1, <1>2

\* Then the invariant holds again.
LEMMA Reaches ==
  ASSUME file \in Files, round \in DOMAIN Quanta, running' = TRUE, UNCHANGED <<file, round>>,
         NEW F, Reached(F)
  PROVE  IInv'
<1>1. file' = file /\ round' = round /\ quantum' = quantum
  BY DEF quantum
<1>2. Pending' = F
  <2>1. PICK heap : heap = event_queue' /\ HeapOf(heap, F)
    BY DEF Reached
  <2>2. Pending' = {heap[i] : i \in 1 .. Len(heap)}
    BY <2>1 DEF Pending
  <2>3. \A i \in 1 .. Len(heap) : heap[i] \in F
    BY <2>1 DEF HeapOf
  <2>4. \A e \in F : \E i \in 1 .. Len(heap) : heap[i] = e
    BY <2>1 DEF HeapOf
  <2>5. QED
    BY <2>2, <2>3, <2>4
<1>3. HeapOf(event_queue, Pending)'
  BY <1>1, <1>2 DEF Reached, HeapOf, compare_events
<1>4. Placed(Pending, ready_queue, running_task, status, time_left, burst_index, system_time)'
  BY <1>1, <1>2 DEF Reached, Placed, burst_count
<1>5. Accounted(Pending, status, time_left, burst_index, system_time, waited, queue_time)'
  BY <1>1, <1>2 DEF Reached, Accounted, Past, Burst
<1>6. Balanced(Pending, status, time_left, burst_index, system_time, idle_periods)'
  <2>1. \A i : Had(Pending, status, time_left, burst_index, system_time, i - 1)'
                 = Had(F, status', time_left', burst_index', system_time', i - 1)
    BY <1>1, <1>2 DEF Had, Burst
  <2>2. [i \in 1 .. n |-> Had(Pending, status, time_left, burst_index, system_time, i - 1)']
          = [i \in 1 .. n |-> Had(F, status', time_left', burst_index', system_time', i - 1)]
    BY <2>1
  <2>3. QED
    BY <2>2 DEF Reached, Balanced
<1>7. round \in Nat \ {0}
  BY SizeAssumption
<1>8. QED
  BY <1>1, <1>3, <1>4, <1>5, <1>6, <1>7 DEF IInv, Reached

-----------------------------------------------------------------------------
(* The steps.                                                                *)

\* What a handler finds: the clock has moved to the first event, which is at the root,
\* and the heap without it is one.
Found(E, e) ==
  /\ e \in E /\ e.timestamp = system_time'
  /\ HeapOf(event_queue_pop(event_queue), E \ {e})
  /\ Placed(E, ready_queue, running_task, status, time_left, burst_index, system_time')
  /\ Accounted(E, status, time_left, burst_index, system_time', waited', queue_time)
  /\ Balanced(E, status, time_left, burst_index, system_time', idle_periods')

\* That is what the head of the loop leaves to each handler.
LEMMA HandlerFinds ==
  ASSUME IInv, NEW category, Handle(category)
  PROVE  /\ file \in Files /\ round \in DOMAIN Quanta /\ running' = TRUE /\ UNCHANGED <<file, round>>
         /\ evt.category = category
         /\ \E E : Found(E, evt)
<1>1. /\ file \in Files /\ round \in DOMAIN Quanta /\ running = TRUE /\ event_queue # <<>>
      /\ evt.category = category /\ system_time' = evt.timestamp
      /\ idle_periods' = idle_periods + IF running_task = NOTASK THEN evt.timestamp - system_time ELSE 0
      /\ waited' = [t \in Tasks |-> waited[t] + IF Contains(ready_queue, t) THEN evt.timestamp - system_time ELSE 0]
      /\ UNCHANGED <<file, round, running>>
  BY DEF IInv, Handle
<1>2. PICK E, e, heap, now, later : /\ E = Pending /\ e = evt /\ heap = event_queue
                                    /\ now = system_time /\ later = e.timestamp
  OBVIOUS
<1>3. /\ HeapOf(heap, E)
      /\ Placed(E, ready_queue, running_task, status, time_left, burst_index, now)
      /\ Accounted(E, status, time_left, burst_index, now, waited, queue_time)
      /\ Balanced(E, status, time_left, burst_index, now, idle_periods)
  BY <1>1, <1>2 DEF IInv
<1>4. Orderly(E)
  BY <1>3, PlacedAreOrderly
<1>5. e = heap[1] /\ e \in E
  <2>1. e = heap[1] /\ heap \in Seq(E) /\ heap # <<>>
    BY <1>1, <1>2, <1>3 DEF evt, HeapOf
  <2>2. QED
    BY <2>1
<1>6. later \in Nat /\ \A x \in E : x.timestamp >= later
  <2>1. E \subseteq Events
    BY <1>3 DEF Placed
  <2>2. \A x \in E : x.timestamp \in Nat
    BY <2>1 DEF Events
  <2>3. \A x \in E : x = e \/ compare_events(e, x)
    BY <1>1, <1>3, <1>4, <1>5, RootIsFirst
  <2>4. ASSUME NEW x \in E
        PROVE  x.timestamp >= later
    <3>1. x = e \/ e.timestamp < x.timestamp \/ e.timestamp = x.timestamp
      BY <2>3 DEF compare_events
    <3>2. x.timestamp \in Nat /\ later \in Nat
      BY <1>2, <1>5, <2>2
    <3>3. QED
      BY <1>2, <3>1, <3>2
  <2>5. QED
    BY <1>2, <1>5, <2>2, <2>4
<1>7. HeapOf(event_queue_pop(heap), E \ {e})
  BY <1>1, <1>2, <1>3, <1>4, <1>5, Popped
<1>8. Placed(E, ready_queue, running_task, status, time_left, burst_index, later)
  BY <1>3, <1>6, ClockMoves
<1>9. Accounted(E, status, time_left, burst_index, later, waited', queue_time)
  <2>1. Accounted(E, status, time_left, burst_index, later,
                  [t \in Tasks |-> waited[t] + IF Contains(ready_queue, t) THEN later - now ELSE 0], queue_time)
    BY <1>1, <1>3, <1>6, WaitsAreCounted
  <2>2. QED
    BY <1>1, <1>2, <2>1
<1>10. Balanced(E, status, time_left, burst_index, later, idle_periods')
  <2>1. Balanced(E, status, time_left, burst_index, later,
                 idle_periods + IF running_task = NOTASK THEN later - now ELSE 0)
    BY <1>1, <1>3, <1>6, IdleTimeIsCounted
  <2>2. QED
    BY <1>1, <1>2, <2>1
<1>11. Found(E, e)
  BY <1>1, <1>2, <1>5, <1>7, <1>8, <1>9, <1>10 DEF Found
<1>12. QED
  BY <1>1, <1>2, <1>11

\* The invariant outlasts the arrival of a task,
LEMMA StartKeeps == IInv /\ Start => IInv'
<1>1. SUFFICES ASSUME IInv, Start PROVE IInv'
  OBVIOUS
<1>2. /\ file \in Files /\ round \in DOMAIN Quanta /\ running' = TRUE /\ UNCHANGED <<file, round>>
      /\ evt.category = EVT_START
  BY <1>1, HandlerFinds DEF Start
<1>3. PICK E, e : e = evt /\ Found(E, e)
  BY <1>1, HandlerFinds DEF Start
<1>4. PICK t, now, ready, state, heap :
        /\ t = e.task_index /\ now = system_time' /\ ready = Append(ready_queue, t)
        /\ state = [status EXCEPT ![t] = "QUEUED"] /\ heap = event_queue_pop(event_queue)
  OBVIOUS
<1>5. /\ time_left' = time_left /\ burst_index' = burst_index /\ queue_time' = queue_time
      /\ schedule_next_task(ready, heap, running_task, time_left', state)
  BY <1>1, <1>3, <1>4 DEF Start, times
<1>6. /\ e \in E /\ e.timestamp = now /\ e.category = EVT_START
      /\ Placed(E, ready_queue, running_task, status, time_left, burst_index, now)
      /\ Accounted(E, status, time_left, burst_index, now, waited', queue_time)
      /\ Balanced(E, status, time_left, burst_index, now, idle_periods')
      /\ HeapOf(heap, E \ {e})
  BY <1>2, <1>3, <1>4 DEF Found
<1>7. /\ Placed(E \ {e}, ready, running_task, state, time_left, burst_index, now)
      /\ Accounted(E \ {e}, state, time_left, burst_index, now, waited', queue_time)
      /\ SameHad(E, status, time_left, burst_index, E \ {e}, state, time_left, burst_index, now)
  BY <1>2, <1>4, <1>6, Starts
<1>8. Balanced(E \ {e}, state, time_left, burst_index, now, idle_periods')
  BY <1>6, <1>7, BalanceKept
<1>9. PICK F : Reached(F)
  BY <1>2, <1>4, <1>5, <1>6, <1>7, <1>8, Schedules, ZenonT(40)
<1>10. QED
  BY <1>2, <1>9, Reaches

\* the end of an I/O burst,
LEMMA UnblockKeeps == IInv /\ Unblock => IInv'
<1>1. SUFFICES ASSUME IInv, Unblock PROVE IInv'
  OBVIOUS
<1>2. /\ file \in Files /\ round \in DOMAIN Quanta /\ running' = TRUE /\ UNCHANGED <<file, round>>
      /\ evt.category = EVT_UNBLOCK
  BY <1>1, HandlerFinds DEF Unblock
<1>3. PICK E, e : e = evt /\ Found(E, e)
  BY <1>1, HandlerFinds DEF Unblock
<1>4. PICK t, now, ready, state, left, heap :
        /\ t = e.task_index /\ now = system_time' /\ ready = Append(ready_queue, t)
        /\ state = [status EXCEPT ![t] = "QUEUED"]
        /\ left = [time_left EXCEPT ![t] = file.compute_times[t][burst_index[t] + 1]]
        /\ heap = event_queue_pop(event_queue)
  OBVIOUS
<1>5. /\ time_left' = left /\ burst_index' = burst_index /\ queue_time' = queue_time
      /\ schedule_next_task(ready, heap, running_task, time_left', state)
  BY <1>1, <1>3, <1>4 DEF Unblock, times
<1>6. /\ e \in E /\ e.timestamp = now /\ e.category = EVT_UNBLOCK
      /\ Placed(E, ready_queue, running_task, status, time_left, burst_index, now)
      /\ Accounted(E, status, time_left, burst_index, now, waited', queue_time)
      /\ Balanced(E, status, time_left, burst_index, now, idle_periods')
      /\ HeapOf(heap, E \ {e})
  BY <1>2, <1>3, <1>4 DEF Found
<1>7. /\ Placed(E \ {e}, ready, running_task, state, left, burst_index, now)
      /\ Accounted(E \ {e}, state, left, burst_index, now, waited', queue_time)
      /\ SameHad(E, status, time_left, burst_index, E \ {e}, state, left, burst_index, now)
  BY <1>2, <1>4, <1>6, Unblocks, ZenonT(40)
<1>8. Balanced(E \ {e}, state, left, burst_index, now, idle_periods')
  BY <1>6, <1>7, BalanceKept
<1>9. PICK F : Reached(F)
  BY <1>2, <1>4, <1>5, <1>6, <1>7, <1>8, Schedules, ZenonT(40)
<1>10. QED
  BY <1>2, <1>9, Reaches

\* a timeout,
LEMMA PreemptKeeps == IInv /\ Preempt => IInv'
<1>1. SUFFICES ASSUME IInv, Preempt PROVE IInv'
  OBVIOUS
<1>2. /\ file \in Files /\ round \in DOMAIN Quanta /\ running' = TRUE /\ UNCHANGED <<file, round>>
      /\ evt.category = EVT_PREEMPT
  BY <1>1, HandlerFinds DEF Preempt
<1>3. PICK E, e : e = evt /\ Found(E, e)
  BY <1>1, HandlerFinds DEF Preempt
<1>4. PICK t, now, ready, state, left, heap :
        /\ t = e.task_index /\ now = system_time' /\ ready = Append(ready_queue, t)
        /\ state = [status EXCEPT ![t] = "QUEUED"]
        /\ left = [time_left EXCEPT ![t] = Remaining(@, quantum)]
        /\ heap = event_queue_pop(event_queue)
  OBVIOUS
<1>5. /\ time_left' = left /\ burst_index' = burst_index /\ queue_time' = queue_time
      /\ schedule_next_task(ready, heap, NOTASK, time_left', state)
  BY <1>1, <1>3, <1>4 DEF Preempt, times
<1>6. /\ e \in E /\ e.timestamp = now /\ e.category = EVT_PREEMPT
      /\ Placed(E, ready_queue, running_task, status, time_left, burst_index, now)
      /\ Accounted(E, status, time_left, burst_index, now, waited', queue_time)
      /\ Balanced(E, status, time_left, burst_index, now, idle_periods')
      /\ HeapOf(heap, E \ {e})
  BY <1>2, <1>3, <1>4 DEF Found
<1>7. /\ Placed(E \ {e}, ready, NOTASK, state, left, burst_index, now)
      /\ Accounted(E \ {e}, state, left, burst_index, now, waited', queue_time)
      /\ SameHad(E, status, time_left, burst_index, E \ {e}, state, left, burst_index, now)
  BY <1>2, <1>4, <1>6, Preempts
<1>8. Balanced(E \ {e}, state, left, burst_index, now, idle_periods')
  BY <1>6, <1>7, BalanceKept
<1>9. PICK F : Reached(F)
  BY <1>2, <1>4, <1>5, <1>6, <1>7, <1>8, Schedules, ZenonT(40)
<1>10. QED
  BY <1>2, <1>9, Reaches

\* and the end of a CPU burst.
LEMMA CompleteKeeps == IInv /\ Complete => IInv'
<1>1. SUFFICES ASSUME IInv, Complete PROVE IInv'
  OBVIOUS
<1>2. /\ file \in Files /\ round \in DOMAIN Quanta /\ running' = TRUE /\ UNCHANGED <<file, round>>
      /\ evt.category = EVT_COMPLETE
  BY <1>1, HandlerFinds DEF Complete
<1>3. PICK E, e : e = evt /\ Found(E, e)
  BY <1>1, HandlerFinds DEF Complete
<1>4. PICK t, now, index, heap :
        /\ t = e.task_index /\ now = system_time' /\ index = Changed(burst_index, t, burst_index[t] + 1)
        /\ heap = event_queue_pop(event_queue)
  OBVIOUS
<1>5. /\ e \in E /\ e.timestamp = now /\ e.category = EVT_COMPLETE
      /\ Placed(E, ready_queue, running_task, status, time_left, burst_index, now)
      /\ Accounted(E, status, time_left, burst_index, now, waited', queue_time)
      /\ Balanced(E, status, time_left, burst_index, now, idle_periods')
      /\ HeapOf(heap, E \ {e})
  BY <1>2, <1>3, <1>4 DEF Found
<1>6. time_left' = time_left /\ burst_index' = index
  BY <1>1, <1>3, <1>4 DEF Complete, Changed
<1>7. CASE burst_index[t] + 1 = burst_count(t)
  <2>1. PICK state, report : /\ state = Changed(status, t, "DONE")
                             /\ report = Changed(queue_time, t, now - file.start_time[t] - activity_time(t))
    OBVIOUS
  <2>2. queue_time' = report /\ schedule_next_task(ready_queue, heap, NOTASK, time_left', state)
    BY <1>1, <1>3, <1>4, <1>6, <1>7, <2>1 DEF Complete, Changed
  <2>3. /\ Placed(E \ {e}, ready_queue, NOTASK, state, time_left, index, now)
        /\ Accounted(E \ {e}, state, time_left, index, now, waited', report)
        /\ SameHad(E, status, time_left, burst_index, E \ {e}, state, time_left, index, now)
    BY <1>2, <1>4, <1>5, <1>7, <2>1, Finishes
  <2>4. Balanced(E \ {e}, state, time_left, index, now, idle_periods')
    BY <1>5, <2>3, BalanceKept
  <2>5. PICK F : Reached(F)
    BY <1>2, <1>4, <1>5, <1>6, <2>2, <2>3, <2>4, Schedules, ZenonT(40)
  <2>6. QED
    BY <1>2, <2>5, Reaches
<1>8. CASE burst_index[t] + 1 # burst_count(t)
  <2>1. PICK state, f, F1 :
          /\ state = Changed(status, t, "BLOCKED")
          /\ f = [timestamp |-> now + file.wait_times[t][burst_index[t] + 1], task_index |-> t, category |-> EVT_UNBLOCK]
          /\ F1 = (E \ {e}) \cup {f}
    OBVIOUS
  <2>2. /\ f \notin E \ {e}
        /\ Placed(F1, ready_queue, NOTASK, state, time_left, index, now)
        /\ Accounted(F1, state, time_left, index, now, waited', queue_time)
        /\ SameHad(E, status, time_left, burst_index, F1, state, time_left, index, now)
    BY <1>2, <1>4, <1>5, <1>8, <2>1, Blocks
  <2>3. index[t] = burst_index[t] + 1
    <3>1. t \in Tasks /\ burst_index \in [Tasks -> Nat]
      <4>1. t \in Tasks
        BY <1>4, <1>5, TaskOfEvent
      <4>2. QED
        BY <1>5, <4>1 DEF Placed
    <3>2. QED
      BY <1>4, <3>1 DEF Changed
  <2>4. queue_time' = queue_time
    <3>1. queue_time' = [queue_time EXCEPT ![t] = queue_time[t]]
      BY <1>1, <1>3, <1>4, <1>8 DEF Complete
    <3>2. queue_time \in [Tasks -> Int]
      BY <1>5 DEF Accounted
    <3>3. QED
      BY <3>1, <3>2
  <2>5. schedule_next_task(ready_queue, event_queue_push(heap, f), NOTASK, time_left', state)
    BY <1>1, <1>3, <1>4, <1>6, <1>8, <2>1, <2>3 DEF Complete, Changed
  <2>6. HeapOf(event_queue_push(heap, f), F1)
    <3>1. Orderly((E \ {e}) \cup {f})
      BY <2>1, <2>2, PlacedAreOrderly
    <3>2. QED
      BY <1>2, <1>5, <2>1, <2>2, <3>1, Pushed
  <2>7. Balanced(F1, state, time_left, index, now, idle_periods')
    BY <1>5, <2>2, BalanceKept
  <2>8. PICK F : Reached(F)
    BY <1>2, <1>4, <1>6, <2>2, <2>4, <2>5, <2>6, <2>7, Schedules, ZenonT(40)
  <2>9. QED
    BY <1>2, <2>8, Reaches
<1>9. QED
  BY <1>7, <1>8

\* Nothing adds up to nothing.
LEMMA SumOfNothing ==
  ASSUME NEW m \in Nat, NEW s, s = [i \in 1 .. m |-> 0]
  PROVE  SumTo(s, m) = 0
<1>. DEFINE f == [i \in 0 .. m |-> 0]
<1>1. \A i \in 1 .. m : i \in 0 .. m /\ i - 1 \in 0 .. m
  OBVIOUS
<1>2. Sums(f, s, m)
  BY <1>1 DEF Sums
<1>3. m \in 0 .. m /\ f[m] = 0
  OBVIOUS
<1>. HIDE DEF f
<1>4. QED
  BY <1>2, <1>3, SumsAreSums

\* A run begins with every task on its way.
LEMMA BeginKeeps == IInv /\ BeginRun => IInv'
<1>1. SUFFICES ASSUME IInv, BeginRun PROVE IInv'
  OBVIOUS
<1>2. /\ file \in Files /\ round \in DOMAIN Quanta /\ running' = TRUE /\ UNCHANGED <<file, round>>
      /\ system_time' = 0 /\ idle_periods' = 0 /\ running_task' = NOTASK /\ ready_queue' = <<>>
      /\ event_queue' = arrivals
  BY <1>1 DEF IInv, BeginRun
<1>3. PICK F, index, left, state, zeros :
        /\ F = {Arrival(t) : t \in Tasks}
        /\ index = [t \in Tasks |-> 0] /\ left = [t \in Tasks |-> file.compute_times[t][1]]
        /\ state = [t \in Tasks |-> "INIT"] /\ zeros = [t \in Tasks |-> 0]
  OBVIOUS
<1>4. /\ burst_index' = index /\ time_left' = left /\ status' = state
      /\ waited' = zeros /\ queue_time' = zeros
  BY <1>1, <1>3 DEF BeginRun
<1>5. \A t \in Tasks : /\ index[t] = 0 /\ left[t] = file.compute_times[t][1] /\ left[t] \in Nat \ {0}
                       /\ state[t] = "INIT" /\ zeros[t] = 0 /\ burst_count(t) \in Nat \ {0}
  <2>1. TAKE t \in Tasks
  <2>2. burst_count(t) \in Nat \ {0} /\ \A k \in 1 .. burst_count(t) : file.compute_times[t][k] \in Nat \ {0}
    BY <1>2, FileFacts
  <2>3. 1 \in 1 .. burst_count(t)
    BY <2>2
  <2>4. QED
    BY <1>3, <2>2, <2>3
<1>6. \A e \in F : /\ e \in Events /\ e.task_index \in Tasks /\ e.category = EVT_START
                   /\ e.timestamp = file.start_time[e.task_index] /\ e.timestamp \in Nat
  <2>1. \A t \in Tasks : Arrival(t) \in Events /\ Arrival(t).task_index = t /\ Arrival(t).category = EVT_START
                         /\ Arrival(t).timestamp = file.start_time[t] /\ file.start_time[t] \in Nat
    BY <1>2, FileAssumption DEF Arrival, Events, Categories
  <2>2. QED
    BY <1>3, <2>1
<1>7. HeapOf(arrivals, F)
  BY <1>2, <1>3, AllArrive
<1>8. Placed(F, <<>>, NOTASK, state, left, index, 0)
  <2>1. \A a, b \in F : a.task_index = b.task_index => a = b
    <3>1. \A t \in Tasks : Arrival(t).task_index = t
      BY DEF Arrival
    <3>2. QED
      BY <1>3, <3>1
  <2>2. \A e \in F : /\ state[e.task_index] \in Awaits(e.category)
                     /\ e.timestamp >= 0
                     /\ e.category = EVT_PREEMPT => left[e.task_index] > quantum
                     /\ e.category = EVT_COMPLETE => left[e.task_index] <= quantum
    BY <1>5, <1>6, CategoryFacts
  <2>3. \A t \in Tasks : \E e \in F : e.task_index = t
    <3>1. \A t \in Tasks : Arrival(t) \in F /\ Arrival(t).task_index = t
      BY <1>3 DEF Arrival
    <3>2. QED
      BY <3>1
  <2>4. \A t \in Tasks : NOTASK # t
    BY DEF NOTASK, Tasks
  <2>5. state \in [Tasks -> Kinds] /\ left \in [Tasks -> Nat \ {0}] /\ index \in [Tasks -> Nat]
    BY <1>3, <1>5 DEF Kinds
  <2>6. F \subseteq Events
    BY <1>6
  <2>7. \A t \in Tasks : index[t] < burst_count(t)
    BY <1>5
  <2>8. <<>> \in Seq(Tasks) /\ Len(<<>>) = 0 /\ \A i \in 1 .. 0 : FALSE
    OBVIOUS
  <2>9. QED
    BY <1>5, <2>1, <2>2, <2>3, <2>4, <2>5, <2>6, <2>7, <2>8 DEF Placed
<1>9. Accounted(F, state, left, index, 0, zeros, zeros)
  <2>1. zeros \in [Tasks -> Int]
    BY <1>3
  <2>2. \A t \in Tasks : Burst(t, index) = left[t]
    BY <1>5 DEF Burst
  <2>3. ASSUME NEW e \in F
        PROVE  LET t == e.task_index
               IN  /\ e.category = EVT_START
                   /\ index[t] = 0 /\ left[t] = Burst(t, index) /\ zeros[t] = 0 /\ e.timestamp = file.start_time[t]
    BY <1>5, <1>6, <2>2
  <2>4. \A t \in Tasks : state[t] # "QUEUED" /\ state[t] # "DONE"
    BY <1>5
  <2>5. \A e \in F :
       LET t == e.task_index
       IN  CASE e.category = EVT_START ->
                  index[t] = 0 /\ left[t] = Burst(t, index) /\ zeros[t] = 0 /\ e.timestamp = file.start_time[t]
             [] e.category = EVT_UNBLOCK ->
                  e.timestamp - file.start_time[t] = zeros[t] + Past(t, index)
             [] OTHER ->
                  e.timestamp - file.start_time[t]
                    = zeros[t] + Past(t, index) + Burst(t, index) - left[t] + Smaller(quantum, left[t])
    BY <2>3, CategoryFacts
  <2>6. \A t \in Tasks :
       /\ state[t] = "QUEUED" => 0 - file.start_time[t] = zeros[t] + Past(t, index) + Burst(t, index) - left[t]
       /\ state[t] = "DONE" => zeros[t] = zeros[t]
    BY <2>4
  <2>7. QED
    BY <2>1, <2>5, <2>6 DEF Accounted
<1>10. Balanced(F, state, left, index, 0, 0)
  <2>1. \A t \in Tasks : Had(F, state, left, index, 0, t) = 0
    <3>1. TAKE t \in Tasks
    <3>2. SumTo(file.compute_times[t], 0) = 0
      BY <1>2, <1>5, BurstsPass
    <3>3. QED
      BY <1>5, <3>2 DEF Had
  <2>2. n \in Nat /\ \A i \in 1 .. n : i - 1 \in Tasks
    BY SizeAssumption DEF Tasks
  <2>3. [i \in 1 .. n |-> Had(F, state, left, index, 0, i - 1)] = [i \in 1 .. n |-> 0]
    BY <2>1, <2>2
  <2>4. SumTo([i \in 1 .. n |-> 0], n) = 0
    BY <2>2, SumOfNothing
  <2>5. 0 \in Int /\ 0 - 0 = 0
    OBVIOUS
  <2>6. QED
    BY <2>3, <2>4, <2>5 DEF Balanced
<1>11. Reached(F)
  BY <1>2, <1>4, <1>7, <1>8, <1>9, <1>10 DEF Reached
<1>12. QED
  BY <1>2, <1>11, Reaches

\* When nothing changes the invariant stays.
LEMMA StutterKeeps == IInv /\ UNCHANGED vars => IInv'
<1>1. SUFFICES ASSUME IInv, UNCHANGED vars PROVE IInv'
  OBVIOUS
<1>2. /\ file' = file /\ round' = round /\ running' = running /\ event_queue' = event_queue
      /\ ready_queue' = ready_queue /\ system_time' = system_time /\ idle_periods' = idle_periods
      /\ running_task' = running_task /\ status' = status /\ burst_index' = burst_index
      /\ time_left' = time_left /\ queue_time' = queue_time /\ waited' = waited
  BY <1>1 DEF vars, clock, times
<1>3. CASE running
  <2>1. Reached(Pending)
    BY <1>1, <1>2, <1>3 DEF IInv, Reached
  <2>2. file \in Files /\ round \in DOMAIN Quanta /\ running' = TRUE
    BY <1>1, <1>2, <1>3 DEF IInv
  <2>3. QED
    BY <1>2, <2>1, <2>2, Reaches
<1>4. CASE ~ running
  BY <1>1, <1>2, <1>4 DEF IInv
<1>5. QED
  BY <1>3, <1>4

\* So the invariant always holds.
LEMMA Inductive == Spec => []IInv
<1>1. Init => IInv
  <2>1. SUFFICES ASSUME Init PROVE IInv
    OBVIOUS
  <2>2. file \in Files /\ round = 1 /\ running = FALSE /\ event_queue = <<>>
    BY <2>1 DEF Init
  <2>3. round \in Nat \ {0}
    BY <2>2
  <2>4. running \in BOOLEAN
    BY <2>2
  <2>5. ~ running
    BY <2>2
  <2>6. QED
    BY <2>2, <2>3, <2>4, <2>5 DEF IInv
<1>2. IInv /\ [Next]_vars => IInv'
  <2>1. SUFFICES ASSUME IInv, [Next]_vars PROVE IInv'
    OBVIOUS
  <2>2. CASE BeginRun
    BY <2>1, <2>2, BeginKeeps
  <2>3. CASE Start
    BY <2>1, <2>3, StartKeeps
  <2>4. CASE Complete
    BY <2>1, <2>4, CompleteKeeps
  <2>5. CASE Unblock
    BY <2>1, <2>5, UnblockKeeps
  <2>6. CASE Preempt
    BY <2>1, <2>6, PreemptKeeps
  <2>7. CASE EndRun
    <3>1. /\ running' = FALSE /\ round' = round + 1 /\ event_queue' = event_queue /\ file' = file
          /\ event_queue = <<>> /\ file \in Files /\ round \in Nat \ {0}
      BY <2>1, <2>7 DEF EndRun, IInv
    <3>2. file' \in Files /\ round' \in Nat \ {0} /\ event_queue' = <<>>
      BY <3>1
    <3>3. running' \in BOOLEAN
      BY <3>1
    <3>4. ~ running'
      BY <3>1
    <3>5. QED
      BY <3>2, <3>3, <3>4 DEF IInv
  <2>8. CASE Ended
    BY <2>1, <2>8, StutterKeeps DEF Ended
  <2>9. CASE UNCHANGED vars
    BY <2>1, <2>9, StutterKeeps
  <2>10. QED
    BY <2>1, <2>2, <2>3, <2>4, <2>5, <2>6, <2>7, <2>8, <2>9 DEF Next
<1>3. QED
  BY <1>1, <1>2, PTL DEF Spec

-----------------------------------------------------------------------------
(* The properties.                                                           *)

\* A set of one position counts one.
LEMMA CountOne ==
  ASSUME NEW S, NEW x, S = {x}
  PROVE  Cardinality(S) = 1
BY FS_Singleton

\* At any time of a run every task has one pending event, of the kind that its status
\* tells, or stands once in the ready queue, or is done; the task that has the CPU is the one
\* that is active; and the CPU is not idle while a task is ready, in any simulation, of any
\* number of tasks.
THEOREM TasksAreInOnePlace == Spec => []OnePlacePerTask
<1>1. IInv => OnePlacePerTask
  <2>1. SUFFICES ASSUME IInv, running PROVE OnePlacePerTask
    BY DEF OnePlacePerTask
  <2>2. PICK E, heap, ready :
          /\ E = Pending /\ heap = event_queue /\ ready = ready_queue
          /\ HeapOf(heap, E)
          /\ Placed(E, ready, running_task, status, time_left, burst_index, system_time)
    BY <2>1 DEF IInv
  <2>3. /\ DOMAIN heap = 1 .. Len(heap) /\ \A i \in 1 .. Len(heap) : heap[i] \in E
        /\ \A i, j \in 1 .. Len(heap) : heap[i] = heap[j] => i = j
        /\ \A e \in E : \E i \in 1 .. Len(heap) : heap[i] = e
    BY <2>2 DEF HeapOf
  <2>4. /\ DOMAIN ready = 1 .. Len(ready)
        /\ \A i, j \in 1 .. Len(ready) : ready[i] = ready[j] => i = j
        /\ \A u \in Tasks : status[u] = "QUEUED" <=> \E i \in 1 .. Len(ready) : ready[i] = u
        /\ \A a, b \in E : a.task_index = b.task_index => a = b
        /\ \A u \in Tasks : status[u] \notin {"QUEUED", "DONE"} => \E x \in E : x.task_index = u
        /\ \A u \in Tasks : running_task = u <=> status[u] = "ACTIVE"
    BY <2>2 DEF Placed
  <2>5. ASSUME NEW t \in Tasks
        PROVE  /\ Cardinality(EventsOf(t)) = IF status[t] \in {"QUEUED", "DONE"} THEN 0 ELSE 1
               /\ Cardinality(QueuedAt(t)) = IF status[t] = "QUEUED" THEN 1 ELSE 0
               /\ \A i \in EventsOf(t) : status[t] \in Awaits(event_queue[i].category)
               /\ running_task = t <=> status[t] = "ACTIVE"
    <3>1. EventsOf(t) = {i \in 1 .. Len(heap) : heap[i].task_index = t}
      BY <2>2, <2>3 DEF EventsOf
    <3>2. QueuedAt(t) = {i \in 1 .. Len(ready) : ready[i] = t}
      BY <2>2, <2>4 DEF QueuedAt
    <3>3. Cardinality({}) = 0
      BY FS_EmptySet
    <3>4. \A x \in E : x.task_index = t => status[t] \in {"INIT", "BLOCKED", "ACTIVE"} /\ status[t] \in Awaits(x.category)
      <4>1. TAKE x \in E
      <4>2. status[x.task_index] \in {"INIT", "BLOCKED", "ACTIVE"}
        BY <2>2, TaskOfEvent
      <4>3. status[x.task_index] \in Awaits(x.category)
        BY <2>2 DEF Placed
      <4>4. QED
        BY <4>2, <4>3
    <3>5. Cardinality(EventsOf(t)) = IF status[t] \in {"QUEUED", "DONE"} THEN 0 ELSE 1
      <4>1. CASE status[t] \in {"QUEUED", "DONE"}
        <5>1. EventsOf(t) = {}
          BY <2>3, <3>1, <3>4, <4>1
        <5>2. QED
          BY <3>3, <4>1, <5>1
      <4>2. CASE status[t] \notin {"QUEUED", "DONE"}
        <5>1. PICK x \in E : x.task_index = t
          BY <2>4, <4>2
        <5>2. PICK i \in 1 .. Len(heap) : heap[i] = x
          BY <2>3
        <5>3. EventsOf(t) = {i}
          BY <2>3, <2>4, <3>1, <5>1, <5>2
        <5>4. QED
          BY <4>2, <5>3, CountOne
      <4>3. QED
        BY <4>1, <4>2
    <3>6. Cardinality(QueuedAt(t)) = IF status[t] = "QUEUED" THEN 1 ELSE 0
      <4>1. CASE status[t] = "QUEUED"
        <5>1. PICK i \in 1 .. Len(ready) : ready[i] = t
          BY <2>4, <4>1
        <5>2. QueuedAt(t) = {i}
          BY <2>4, <3>2, <5>1
        <5>3. QED
          BY <4>1, <5>2, CountOne
      <4>2. CASE status[t] # "QUEUED"
        <5>1. QueuedAt(t) = {}
          BY <2>4, <3>2, <4>2
        <5>2. QED
          BY <3>3, <4>2, <5>1
      <4>3. QED
        BY <4>1, <4>2
    <3>7. \A i \in EventsOf(t) : status[t] \in Awaits(event_queue[i].category)
      BY <2>2, <2>3, <3>1, <3>4
    <3>8. QED
      BY <2>4, <3>5, <3>6, <3>7
  <2>6. running_task = NOTASK => ready_queue = <<>>
    BY <2>1 DEF IInv
  <2>7. QED
    BY <2>5, <2>6 DEF OnePlacePerTask
<1>2. QED
  BY <1>1, Inductive, PTL

\* What is handled next comes first in time, not before the clock, and of the events of that
\* time no timeout comes before an arrival and no arrival before one of a smaller ID, whatever
\* shape the heap has and however many events it holds.
THEOREM EventsComeInOrder == Spec => []EventsInOrder
<1>1. IInv => EventsInOrder
  <2>1. SUFFICES ASSUME IInv, NEW i \in DOMAIN event_queue
                 PROVE  LET e == event_queue[i]
                        IN  /\ evt.timestamp >= system_time /\ evt.timestamp <= e.timestamp
                            /\ evt.timestamp = e.timestamp /\ e.category \in Arrivals =>
                                 /\ evt.category # EVT_PREEMPT
                                 /\ evt.category \in Arrivals =>
                                      file.task_id[evt.task_index] <= file.task_id[e.task_index]
    BY DEF EventsInOrder
  <2>2. running
    <3>1. event_queue # <<>>
      OBVIOUS
    <3>2. QED
      BY <2>1, <3>1 DEF IInv
  <2>3. PICK E, heap, first, e :
          /\ E = Pending /\ heap = event_queue /\ first = evt /\ e = event_queue[i]
          /\ file \in Files /\ HeapOf(heap, E)
          /\ Placed(E, ready_queue, running_task, status, time_left, burst_index, system_time)
    BY <2>1, <2>2 DEF IInv
  <2>4. Orderly(E)
    BY <2>3, PlacedAreOrderly
  <2>5. first = heap[1] /\ first \in E /\ e \in E
    <3>1. heap \in Seq(E) /\ i \in 1 .. Len(heap) /\ e = heap[i] /\ first = heap[1]
      BY <2>1, <2>3 DEF HeapOf, evt
    <3>2. QED
      BY <3>1
  <2>6. e = first \/ compare_events(first, e)
    BY <2>3, <2>4, <2>5, RootIsFirst
  <2>7. /\ first.timestamp >= system_time /\ first.timestamp \in Nat /\ e.timestamp \in Nat
        /\ first.task_index \in Tasks /\ e.task_index \in Tasks
    BY <2>3, <2>5 DEF Placed, Events
  <2>8. file.task_id[first.task_index] \in Nat /\ file.task_id[e.task_index] \in Nat
    BY <2>3, <2>7, FileAssumption
  <2>9. first.timestamp <= e.timestamp
    BY <2>6, <2>7 DEF compare_events
  <2>10. ASSUME first.timestamp = e.timestamp, e.category \in Arrivals
         PROVE  /\ first.category # EVT_PREEMPT
                /\ first.category \in Arrivals => file.task_id[first.task_index] <= file.task_id[e.task_index]
    <3>1. EVT_PREEMPT \notin Arrivals
      BY CategoryFacts
    <3>2. CASE e = first
      BY <2>8, <2>10, <3>1, <3>2
    <3>3. CASE e # first
      <4>1. /\ ~ (first.timestamp < e.timestamp)
            /\ e.category # EVT_PREEMPT
        BY <2>7, <2>10, <3>1
      <4>2. IF e.category \in Arrivals /\ first.category = EVT_PREEMPT THEN FALSE
            ELSE file.task_id[first.task_index] < file.task_id[e.task_index]
        BY <2>6, <3>3, <4>1 DEF compare_events
      <4>3. QED
        BY <2>8, <2>10, <4>2
    <3>4. QED
      BY <3>2, <3>3
  <2>11. QED
    BY <2>3, <2>7, <2>9, <2>10
<1>2. QED
  BY <1>1, Inductive, PTL

\* The clock less the idle time is the CPU time of all tasks, and the wait time that is
\* reported for a task is the time it stood in the ready queue, for every program of the
\* tasks and every quantum.
THEOREM ReportedTimesAddUp == Spec => []TimesAddUp
<1>1. IInv => TimesAddUp
  <2>1. SUFFICES ASSUME IInv, running PROVE TimesAddUp
    BY DEF TimesAddUp
  <2>2. PICK E, heap :
          /\ E = Pending /\ heap = event_queue
          /\ HeapOf(heap, E)
          /\ Placed(E, ready_queue, running_task, status, time_left, burst_index, system_time)
          /\ Accounted(E, status, time_left, burst_index, system_time, waited, queue_time)
          /\ Balanced(E, status, time_left, burst_index, system_time, idle_periods)
    BY <2>1 DEF IInv
  <2>3. ASSUME NEW t \in Tasks
        PROVE  Served(t) = Had(E, status, time_left, burst_index, system_time, t)
    <3>1. CASE status[t] = "ACTIVE"
      <4>1. PICK x \in E : x.task_index = t
        BY <2>2, <3>1 DEF Placed
      <4>2. EventAbout(E, t) = x
        BY <2>2, <4>1, TheEvent
      <4>3. PICK i \in EventsOf(t) : i = CHOOSE j \in EventsOf(t) : TRUE
        <5>1. \E i \in 1 .. Len(heap) : heap[i] = x
          BY <2>2 DEF HeapOf
        <5>2. DOMAIN heap = 1 .. Len(heap)
          BY <2>2 DEF HeapOf
        <5>3. EventsOf(t) # {}
          BY <2>2, <4>1, <5>1, <5>2 DEF EventsOf
        <5>4. QED
          BY <5>3
      <4>4. heap[i] = x
        <5>1. i \in DOMAIN heap /\ heap[i].task_index = t
          BY <2>2 DEF EventsOf
        <5>2. heap[i] \in E
          BY <2>2, <5>1 DEF HeapOf
        <5>3. QED
          BY <2>2, <4>1, <5>1, <5>2 DEF Placed
      <4>5. PICK s : s = event_queue[CHOOSE j \in EventsOf(t) : TRUE].timestamp - system_time
        OBVIOUS
      <4>6. s = x.timestamp - system_time
        BY <2>2, <4>3, <4>4, <4>5
      <4>7. Served(t) = SumTo(file.compute_times[t], burst_index[t])
                        + (Burst(t, burst_index) - time_left[t] + Smaller(quantum, time_left[t]) - s)
        BY <3>1, <4>5 DEF Served, Burst
      <4>8. QED
        BY <3>1, <4>2, <4>6, <4>7 DEF Had
    <3>2. CASE status[t] # "ACTIVE"
      BY <3>2 DEF Served, Had, Burst
    <3>3. QED
      BY <3>1, <3>2
  <2>4. \A i \in 1 .. n : i - 1 \in Tasks
    BY SizeAssumption DEF Tasks
  <2>5. [i \in 1 .. n |-> Served(i - 1)]
          = [i \in 1 .. n |-> Had(E, status, time_left, burst_index, system_time, i - 1)]
    BY <2>3, <2>4
  <2>6. system_time - idle_periods = SumTo([i \in 1 .. n |-> Served(i - 1)], n)
    BY <2>2, <2>5 DEF Balanced
  <2>7. \A t \in Tasks : status[t] = "DONE" => queue_time[t] = waited[t]
    BY <2>2 DEF Accounted
  <2>8. QED
    BY <2>6, <2>7 DEF TimesAddUp
<1>2. QED
  BY <1>1, Inductive, PTL

=============================================================================
