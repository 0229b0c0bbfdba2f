------------------------ MODULE ResourceSession_proofs ------------------------
(***************************************************************************)
(* Proofs about Banker and ResourceSession, for any number of threads and  *)
(* resources and any request files.  The first part is about the safety    *)
(* tests: what their loops compute, that both programs judge alike, and    *)
(* what keeps a table safe.  The second is about the threads; the last one *)
(* about what MCResourceSession adds.                                      *)
(***************************************************************************)
EXTENDS MCResourceSession, FiniteSetTheorems, SequenceTheorems, WellFoundedInduction, TLAPS
-----------------------------------------------------------------------------
(* Recursion over the threads.                                               *)

\* A property of 0 that passes from k to k + 1 holds up to n.
Upward(S) == 0 \in S /\ \A k \in 0 .. n - 1 : k \in S => k + 1 \in S

\* By the least number for which it did not hold.
LEMMA UpToN ==
  ASSUME NEW S, Upward(S)
  PROVE  0 .. n \subseteq S
<1>1. n \in Nat
  BY CountsAssumption
<1> DEFINE T == (0 .. n) \ S
<1>2. SUFFICES ASSUME T # {} PROVE FALSE
  OBVIOUS
<1>3. PICK k \in T : \A i \in T : ~ (<<i, k>> \in OpToRel(<, Nat))
  <2>1. T \subseteq Nat
    BY <1>1
  <2>2. QED
    BY <1>2, <2>1, NatLessThanWellFounded, WFMin
<1>4. k \in 0 .. n /\ k \notin S /\ k # 0
  BY DEF Upward
<1>5. k - 1 \in 0 .. n - 1 /\ k - 1 \in Nat /\ k \in Nat /\ k - 1 < k
  BY <1>1, <1>4
<1>6. <<k - 1, k>> \in OpToRel(<, Nat)
  BY <1>5 DEF OpToRel
<1>7. k - 1 \in S
  <2>1. k - 1 \notin T
    BY <1>3, <1>6
  <2>2. k - 1 \in 0 .. n
    BY <1>1, <1>5
  <2>3. QED
    BY <2>1, <2>2
<1>8. QED
  BY <1>4, <1>5, <1>7 DEF Upward

\* The recursive equation of a loop over the threads has a solution.
LEMMA Iterates ==
  ASSUME NEW S, NEW x \in S, NEW g \in [Threads -> [S -> S]]
  PROVE  \E f \in [0 .. n -> S] : f[0] = x /\ \A i \in 1 .. n : f[i] = g[i-1][f[i-1]]
<1> DEFINE Prefix(f, k) == /\ f \in [0 .. k -> S] /\ f[0] = x
                           /\ \A i \in 1 .. k : f[i] = g[i-1][f[i-1]]
           U == {k \in 0 .. n : \E f : Prefix(f, k)}
<1>0. n \in Nat \ {0}
  BY CountsAssumption
<1>1. 0 \in U
  <2>1. Prefix([i \in 0 .. 0 |-> x], 0)
    OBVIOUS
  <2> HIDE DEF Prefix
  <2>2. QED
    BY <1>0, <2>1
<1>2. ASSUME NEW k \in 0 .. n - 1, k \in U PROVE k + 1 \in U
  <2>1. PICK f : Prefix(f, k)
    BY <1>2
  <2> DEFINE h == [i \in 0 .. k + 1 |-> IF i = k + 1 THEN g[k][f[k]] ELSE f[i]]
  <2>2. k \in Nat /\ k + 1 \in 0 .. n /\ k \in Threads
    BY <1>0 DEF Threads
  <2>3. Prefix(h, k + 1)
    <3>1. f[k] \in S /\ g[k][f[k]] \in S
      BY <2>1, <2>2
    <3>2. \A i \in 0 .. k : h[i] = f[i]
      BY <2>2
    <3>3. h[k+1] = g[k][h[k]]
      BY <2>2, <3>2
    <3>4. h \in [0 .. k + 1 -> S] /\ h[0] = x
      BY <2>1, <2>2, <3>1, <3>2
    <3> HIDE DEF h
    <3>5. ASSUME NEW i \in 1 .. k + 1 PROVE h[i] = g[i-1][h[i-1]]
      <4>1. CASE i = k + 1
        BY <2>2, <3>3, <4>1
      <4>2. CASE i # k + 1
        <5>1. i \in 1 .. k /\ i - 1 \in 0 .. k /\ i \in 0 .. k
          BY <2>2, <4>2
        <5>2. QED
          BY <2>1, <3>2, <5>1
      <4>3. QED
        BY <4>1, <4>2
    <3>6. QED
      BY <3>4, <3>5
  <2>4. QED
    BY <2>2, <2>3
<1>3. n \in U
  <2> HIDE DEF U
  <2>1. Upward(U)
    BY <1>1, <1>2 DEF Upward
  <2>2. 0 .. n \subseteq U /\ n \in 0 .. n
    BY <1>0, <2>1, UpToN
  <2>3. QED
    BY <2>2
<1>4. QED
  BY <1>3
-----------------------------------------------------------------------------
(* Sums over the threads.                                                    *)

\* The running totals of a table's column, as TotalAllocated computes them.
Totals(A, j) ==
  LET upto[k \in 0..n] == IF k = 0 THEN 0 ELSE upto[k-1] + A[k-1][j]
  IN  upto

\* f holds the totals of the first k rows.
Adds(A, j, f, k) ==
  /\ f \in [0..k -> Int]
  /\ f[0] = 0
  /\ \A i \in 1..k : f[i] = f[i-1] + A[i-1][j]

\* The recursive definition of the totals has a solution, and is one.
LEMMA TotalsAdd ==
  ASSUME NEW A \in [Threads -> Vectors], NEW j \in Resources
  PROVE  Adds(A, j, Totals(A, j), n)
<1>0. n \in Nat \ {0}
  BY CountsAssumption
<1> DEFINE add == [i \in Threads |-> [y \in Int |-> y + A[i][j]]]
<1>1. add \in [Threads -> [Int -> Int]]
  BY DEF Vectors
<1>2. PICK f \in [0 .. n -> Int] :
        f[0] = 0 /\ \A i \in 1 .. n : f[i] = add[i-1][f[i-1]]
  <2> HIDE DEF add
  <2>1. PICK Z, z : Z = Int /\ z = 0
    OBVIOUS
  <2>2. z \in Z /\ add \in [Threads -> [Z -> Z]]
    BY <1>1, <2>1
  <2>3. \E f \in [0 .. n -> Z] : f[0] = z /\ \A i \in 1 .. n : f[i] = add[i-1][f[i-1]]
    BY <2>2, Iterates
  <2>4. QED
    BY <2>1, <2>3
<1> DEFINE Body(g) == [k \in 0 .. n |-> IF k = 0 THEN 0 ELSE g[k-1] + A[k-1][j]]
<1>5. f = Body(f)
  <2>1. f = [k \in 0 .. n |-> f[k]]
    BY <1>2
  <2>2. \A i \in 1 .. n : i - 1 \in Threads /\ f[i-1] \in Int
    BY <1>0, <1>2 DEF Threads
  <2>3. \A i \in 1 .. n : f[i] = f[i-1] + A[i-1][j]
    BY <1>2, <2>2
  <2>4. \A k \in 0 .. n : f[k] = IF k = 0 THEN 0 ELSE f[k-1] + A[k-1][j]
    BY <1>0, <1>2, <2>3
  <2>5. QED
    BY <2>1, <2>4
<1>6. Totals(A, j) = CHOOSE g : g = Body(g)
  BY DEF Totals
<1>7. Totals(A, j) = Body(Totals(A, j))
  BY <1>5, <1>6
<1> DEFINE T == Totals(A, j)
<1> HIDE DEF T
<1>8. T = Body(T)
  BY <1>7 DEF T
<1>9. T[0] = 0 /\ \A i \in 1 .. n : T[i] = T[i-1] + A[i-1][j]
  <2>2. \A k \in 0 .. n : T[k] = IF k = 0 THEN 0 ELSE T[k-1] + A[k-1][j]
    BY <1>8
  <2>3. 0 \in 0 .. n /\ \A i \in 1 .. n : i \in 0 .. n /\ i # 0
    BY <1>0
  <2>4. QED
    BY <2>2, <2>3
<1>10. \A k \in 0 .. n : T[k] \in Int
  <2> DEFINE U == {k \in 0 .. n : T[k] \in Int}
  <2>1. 0 \in U
    <3>1. 0 \in 0 .. n
      BY <1>0
    <3>2. QED
      BY <1>9, <3>1
  <2>2. ASSUME NEW k \in 0 .. n - 1, k \in U PROVE k + 1 \in U
    <3>1. k \in Threads /\ k + 1 \in 1 .. n /\ k + 1 - 1 = k /\ A[k][j] \in Int
      BY <1>0 DEF Threads, Vectors
    <3>2. T[k+1] = T[k] + A[k][j]
      <4>1. T[k+1] = T[k+1-1] + A[k+1-1][j]
        BY <1>9, <3>1
      <4>2. QED
        BY <3>1, <4>1
    <3>3. QED
      BY <1>0, <2>2, <3>1, <3>2
  <2>3. 0 .. n \subseteq U
    <3> HIDE DEF U
    <3>1. Upward(U)
      BY <2>1, <2>2 DEF Upward
    <3>2. QED
      BY <3>1, UpToN
  <2>4. QED
    BY <2>3
<1>11. T = [k \in 0 .. n |-> T[k]]
  BY <1>8
<1>12. T \in [0 .. n -> Int]
  BY <1>10, <1>11
<1>13. QED
  BY <1>9, <1>12 DEF Adds, T

Tables == [Threads -> Vectors]

\* When one row changes, the total changes by as much.
LEMMA TotalChanges ==
  ASSUME NEW A \in Tables, NEW B \in Tables,
         NEW j \in Resources, NEW t \in Threads, NEW d \in Int,
         B[t][j] = A[t][j] + d,
         \A u \in Threads \ {t} : B[u][j] = A[u][j]
  PROVE  Totals(A, j)[n] \in Int /\ Totals(B, j)[n] = Totals(A, j)[n] + d
<1> DEFINE f == Totals(A, j)
           g == Totals(B, j)
<1>0. A \in [Threads -> Vectors] /\ B \in [Threads -> Vectors]
  BY DEF Tables
<1>1. Adds(A, j, f, n) /\ Adds(B, j, g, n)
  BY <1>0, TotalsAdd
<1> HIDE DEF f, g
<1>2. n \in Nat \ {0} /\ t \in 0 .. n - 1
  BY CountsAssumption DEF Threads
<1> DEFINE S == {k \in 0 .. n : g[k] = f[k] + (IF k > t THEN d ELSE 0)}
<1>3. 0 \in S
  BY <1>1, <1>2 DEF Adds
<1>4. ASSUME NEW k \in 0 .. n - 1, k \in S PROVE k + 1 \in S
  <2>1. /\ k \in Threads /\ k + 1 \in 1 .. n /\ k + 1 - 1 = k
        /\ A[k][j] \in Int /\ f[k] \in Int /\ g[k] \in Int
    <3>1. k \in Threads /\ k + 1 \in 1 .. n /\ k + 1 - 1 = k
      BY <1>2 DEF Threads
    <3>2. A[k][j] \in Int
      BY <1>0, <3>1 DEF Vectors
    <3>3. k \in 0 .. n
      BY <1>2
    <3>4. f[k] \in Int /\ g[k] \in Int
      BY <1>1, <3>3 DEF Adds
    <3>5. QED
      BY <3>1, <3>2, <3>4
  <2>2. g[k+1] = g[k] + B[k][j] /\ f[k+1] = f[k] + A[k][j]
    BY <1>1, <2>1 DEF Adds
  <2>3. CASE k = t
    BY <1>2, <1>4, <2>1, <2>2, <2>3
  <2>4. CASE k # t
    BY <1>2, <1>4, <2>1, <2>2, <2>4
  <2>5. QED
    BY <2>3, <2>4
<1>5. n \in S
  <2> HIDE DEF S
  <2>1. Upward(S)
    BY <1>3, <1>4 DEF Upward
  <2>2. 0 .. n \subseteq S /\ n \in 0 .. n
    BY <1>2, <2>1, UpToN
  <2>3. QED
    BY <2>2
<1>6. QED
  BY <1>1, <1>2, <1>5 DEF Adds, f, g

\* Nothing adds up to nothing.
LEMMA TotalOfNothing ==
  ASSUME NEW j \in Resources
  PROVE  Totals([t \in Threads |-> Zero], j)[n] = 0
<1> DEFINE A == [t \in Threads |-> Zero]
           f == Totals(A, j)
<1>1. A \in [Threads -> Vectors] /\ \A k \in Threads : A[k][j] = 0
  BY DEF Vectors, Zero
<1>2. Adds(A, j, f, n)
  BY <1>1, TotalsAdd
<1> HIDE DEF A, f
<1>3. n \in Nat \ {0}
  BY CountsAssumption
<1> DEFINE S == {k \in 0 .. n : f[k] = 0}
<1>4. 0 \in S
  BY <1>2, <1>3 DEF Adds
<1>5. ASSUME NEW k \in 0 .. n - 1, k \in S PROVE k + 1 \in S
  <2>1. k \in Threads /\ k + 1 \in 1 .. n /\ k + 1 - 1 = k
    BY <1>3 DEF Threads
  <2>2. f[k+1] = f[k] + A[k][j]
    BY <1>2, <2>1 DEF Adds
  <2>3. QED
    BY <1>1, <1>5, <2>1, <2>2
<1>6. n \in S
  <2> HIDE DEF S
  <2>1. Upward(S)
    BY <1>4, <1>5 DEF Upward
  <2>2. 0 .. n \subseteq S /\ n \in 0 .. n
    BY <1>3, <2>1, UpToN
  <2>3. QED
    BY <2>2
<1>7. QED
  BY <1>6 DEF A, f
-----------------------------------------------------------------------------
(* The searches of the safety tests.                                         *)

\* A set of trials that no thread's turn leads out of.
Closed(I, A, N) ==
  I \subseteq Trials /\ \A s \in I, i \in Threads : LetFinish(s, i, A, N) \in I

\* One thread's turn.
LEMMA Turn ==
  ASSUME NEW A \in Tables, NEW N \in Tables, NEW s \in Trials, NEW i \in Threads
  PROVE  LET r == LetFinish(s, i, A, N)
         IN  /\ r \in Trials /\ s.finish \subseteq r.finish
             /\ r.finish = s.finish => r = s /\ ~ (i \notin s.finish /\ N[i] \preceq s.work)
             /\ i \notin s.finish /\ N[i] \preceq s.work =>
                  r.finish = s.finish \cup {i} /\ r.work = s.work \oplus A[i]
             /\ ~ (i \notin s.finish /\ N[i] \preceq s.work) => r = s
<1>1. s.work \oplus A[i] \in Vectors
  <2>1. s.work \in Vectors /\ A[i] \in Vectors
    BY DEF Trials, Tables
  <2>2. QED
    BY <2>1 DEF Vectors, \oplus
<1>2. [work |-> s.work \oplus A[i], finish |-> s.finish \cup {i}] \in Trials
  BY <1>1 DEF Trials
<1>3. QED
  BY <1>2 DEF LetFinish

\* The for loop gives every thread its turn, and if nobody finishes it has
\* found that nobody could.
LEMMA PassResult ==
  ASSUME NEW A \in Tables, NEW N \in Tables, NEW s \in Trials,
         NEW I, Closed(I, A, N), s \in I
  PROVE  LET r == Pass(s, A, N)
         IN  /\ r \in I /\ s.finish \subseteq r.finish
             /\ r.finish = s.finish =>
                  r = s /\ \A i \in Threads : i \notin s.finish => ~ (N[i] \preceq s.work)
<1>0. n \in Nat \ {0}
  BY CountsAssumption
<1> DEFINE g == [i \in Threads |-> [r \in Trials |-> LetFinish(r, i, A, N)]]
<1>1. g \in [Threads -> [Trials -> Trials]]
  BY Turn
<1> HIDE DEF g
<1>2. PICK f \in [0 .. n -> Trials] : f[0] = s /\ \A i \in 1 .. n : f[i] = g[i-1][f[i-1]]
  BY <1>1, Iterates
<1> DEFINE Body(F) == [i \in 0 .. n |-> IF i = 0 THEN s ELSE LetFinish(F[i-1], i-1, A, N)]
<1>3. f = Body(f)
  <2>1. f = [i \in 0 .. n |-> f[i]]
    BY <1>2
  <2>2. \A i \in 1 .. n : i - 1 \in Threads /\ f[i-1] \in Trials
    BY <1>0, <1>2 DEF Threads
  <2>3. \A i \in 1 .. n : f[i] = LetFinish(f[i-1], i-1, A, N)
    BY <1>2, <2>2 DEF g
  <2>4. \A i \in 0 .. n : f[i] = IF i = 0 THEN s ELSE LetFinish(f[i-1], i-1, A, N)
    BY <1>0, <1>2, <2>3
  <2>5. QED
    BY <2>1, <2>4
<1> DEFINE T == CHOOSE F : F = Body(F)
<1>4. Pass(s, A, N) = T[n]
  BY DEF Pass
<1>5. T = Body(T)
  BY <1>3
<1> HIDE DEF T
<1>6. T[0] = s /\ \A i \in 1 .. n : T[i] = LetFinish(T[i-1], i-1, A, N)
  <2>2. \A i \in 0 .. n : T[i] = IF i = 0 THEN s ELSE LetFinish(T[i-1], i-1, A, N)
    BY <1>5
  <2>3. 0 \in 0 .. n /\ \A i \in 1 .. n : i \in 0 .. n /\ i # 0
    BY <1>0
  <2>4. QED
    BY <2>2, <2>3
<1> HIDE DEF Body
<1> DEFINE Good(k) ==
      /\ T[k] \in I /\ s.finish \subseteq T[k].finish
      /\ T[k].finish = s.finish =>
           /\ T[k] = s
           /\ \A i \in Threads : i < k /\ i \notin s.finish => ~ (N[i] \preceq s.work)
    U == {k \in 0 .. n : Good(k)}
<1>7. 0 \in U
  <2>1. Good(0)
    BY <1>0, <1>6 DEF Threads
  <2>2. QED
    BY <1>0, <2>1
<1>8. ASSUME NEW k \in 0 .. n - 1, k \in U PROVE k + 1 \in U
  <2>1. k \in Threads /\ k + 1 \in 1 .. n /\ k + 1 - 1 = k /\ k + 1 \in 0 .. n
    BY <1>0 DEF Threads
  <2>2. T[k+1] = LetFinish(T[k], k, A, N)
    BY <1>6, <2>1
  <2>3. Good(k)
    BY <1>8
  <2>4. T[k] \in Trials /\ T[k+1] \in I
    BY <2>1, <2>2, <2>3 DEF Closed
  <2>5. /\ T[k].finish \subseteq T[k+1].finish
        /\ T[k+1].finish = T[k].finish =>
             T[k+1] = T[k] /\ ~ (k \notin T[k].finish /\ N[k] \preceq T[k].work)
    BY <2>1, <2>2, <2>4, Turn
  <2>6. ASSUME T[k+1].finish = s.finish
        PROVE  /\ T[k+1] = s
               /\ \A i \in Threads : i < k + 1 /\ i \notin s.finish => ~ (N[i] \preceq s.work)
    <3>1. T[k].finish = s.finish
      BY <2>3, <2>5, <2>6
    <3>2. T[k] = s /\ T[k+1] = s /\ ~ (k \notin s.finish /\ N[k] \preceq s.work)
      BY <2>3, <2>5, <2>6, <3>1
    <3>3. \A i \in Threads : i < k /\ i \notin s.finish => ~ (N[i] \preceq s.work)
      BY <2>3, <3>1
    <3>4. \A i \in Threads : i < k + 1 => i < k \/ i = k
      BY <1>0, <2>1 DEF Threads
    <3>5. QED
      BY <3>2, <3>3, <3>4
  <2>7. Good(k + 1)
    BY <2>3, <2>4, <2>5, <2>6
  <2>8. QED
    BY <2>1, <2>7
<1>9. n \in U
  <2> HIDE DEF U
  <2>1. Upward(U)
    BY <1>7, <1>8 DEF Upward
  <2>2. 0 .. n \subseteq U /\ n \in 0 .. n
    BY <1>0, <2>1, UpToN
  <2>3. QED
    BY <2>2
<1>10. Good(n)
  BY <1>9
<1>11. \A i \in Threads : i < n
  BY <1>0 DEF Threads
<1>12. QED
  BY <1>4, <1>10, <1>11

\* nxt carries a trial on, and leaves it alone when no thread is added to finish.
Advances(nxt) ==
  /\ nxt \in [Trials -> Trials]
  /\ \A s \in Trials : /\ s.finish \subseteq nxt[s].finish
                       /\ nxt[s].finish = s.finish => nxt[s] = s

\* What the search can come to from s.
Reach(nxt, s) ==
  {e \in Trials : \A I \in SUBSET Trials : s \in I /\ (\A r \in I : nxt[r] \in I) => e \in I}

Ends(nxt, s) == {S \in SUBSET Threads : \E e \in Reach(nxt, s) : nxt[e] = e /\ e.finish = S}

\* The recursive equation of the search has a solution: what it ends in.
LEMMA SearchExists ==
  ASSUME NEW nxt, Advances(nxt)
  PROVE  \E f : /\ f = [s \in Trials |-> f[s]]
                /\ \A s \in Trials :
                     f[s] = IF nxt[s].finish = s.finish THEN s.finish ELSE f[nxt[s]]
<1> DEFINE f == [s \in Trials |-> CHOOSE S : S \in Ends(nxt, s)]
<1>1. ASSUME NEW s \in Trials, nxt[s] = s PROVE Ends(nxt, s) = {s.finish}
  <2>1. s \in Reach(nxt, s) /\ s.finish \in SUBSET Threads
    BY DEF Reach, Trials
  <2>2. ASSUME NEW e \in Reach(nxt, s) PROVE e = s
    <3>1. {s} \in SUBSET Trials /\ s \in {s} /\ \A r \in {s} : nxt[r] \in {s}
      BY <1>1
    <3>2. e \in {s}
      BY <2>2, <3>1 DEF Reach
    <3>3. QED
      BY <3>2
  <2>3. QED
    BY <1>1, <2>1, <2>2 DEF Ends
<1>2. ASSUME NEW s \in Trials, nxt[s] # s PROVE Ends(nxt, s) = Ends(nxt, nxt[s])
  <2>1. nxt[s] \in Trials
    BY DEF Advances
  <2>2. ASSUME NEW e \in Reach(nxt, nxt[s]) PROVE e \in Reach(nxt, s)
    BY <2>1, <2>2 DEF Reach
  <2>3. ASSUME NEW e \in Reach(nxt, s), nxt[e] = e PROVE e \in Reach(nxt, nxt[s])
    <3>1. SUFFICES ASSUME NEW I \in SUBSET Trials, nxt[s] \in I, \A r \in I : nxt[r] \in I
                   PROVE  e \in I
      BY DEF Reach
    <3>2. /\ I \cup {s} \in SUBSET Trials /\ s \in I \cup {s}
          /\ \A r \in I \cup {s} : nxt[r] \in I \cup {s}
      BY <3>1
    <3>3. e \in I \cup {s}
      BY <3>2 DEF Reach
    <3>4. QED
      BY <1>2, <2>3, <3>3
  <2>4. QED
    BY <2>2, <2>3 DEF Ends
<1>3. ASSUME NEW s \in Trials
      PROVE  f[s] = IF nxt[s].finish = s.finish THEN s.finish ELSE f[nxt[s]]
  <2>1. nxt[s] \in Trials /\ (nxt[s].finish = s.finish <=> nxt[s] = s)
    BY DEF Advances
  <2>2. CASE nxt[s] = s
    BY <1>1, <2>1, <2>2
  <2>3. CASE nxt[s] # s
    BY <1>2, <2>1, <2>3
  <2>4. QED
    BY <2>2, <2>3
<1>4. f = [s \in Trials |-> f[s]]
  OBVIOUS
<1>5. QED
  BY <1>3, <1>4

\* How many threads a trial has still to finish.
Unfinished(s) == Cardinality(Threads \ s.finish)

\* A turn that finishes a thread leaves fewer unfinished.
LEMMA UnfinishedCounts ==
  ASSUME NEW s \in Trials, NEW r \in Trials, s.finish \subseteq r.finish
  PROVE  /\ Unfinished(s) \in Nat
         /\ s.finish # r.finish => Unfinished(r) < Unfinished(s)
<1>1. IsFiniteSet(Threads)
  <2>1. 0 \in Int /\ n - 1 \in Int
    BY CountsAssumption
  <2>2. IsFiniteSet(0 .. n - 1)
    BY <2>1, FS_Interval
  <2>3. QED
    BY <2>2 DEF Threads
<1>2. IsFiniteSet(Threads \ s.finish) /\ IsFiniteSet(Threads \ r.finish)
  BY <1>1, FS_Subset
<1>3. Unfinished(s) \in Nat /\ Unfinished(r) \in Nat
  BY <1>2, FS_CardinalityType DEF Unfinished
<1>4. Threads \ r.finish \in SUBSET (Threads \ s.finish)
  OBVIOUS
<1>5. /\ Unfinished(r) <= Unfinished(s)
      /\ Unfinished(s) = Unfinished(r) => Threads \ s.finish = Threads \ r.finish
  BY <1>2, <1>4, FS_Subset DEF Unfinished
<1>6. Threads \ s.finish = Threads \ r.finish => s.finish = r.finish
  BY DEF Trials
<1>7. QED
  BY <1>3, <1>5, <1>6

\* A search ends where its next step changes nothing, and in every set of trials
\* it does not lead out of.
LEMMA SearchEnds ==
  ASSUME NEW nxt, Advances(nxt),
         NEW f, \A s \in Trials :
                  f[s] = IF nxt[s].finish = s.finish THEN s.finish ELSE f[nxt[s]],
         NEW I \in SUBSET Trials, \A r \in I : nxt[r] \in I,
         NEW s \in I
  PROVE  \E e \in I : nxt[e] = e /\ f[s] = e.finish
<1> DEFINE Bad(r) == ~ \E e \in I : nxt[e] = e /\ f[r] = e.finish
           T == {k \in Nat : \E r \in I : Unfinished(r) = k /\ Bad(r)}
<1>1. SUFFICES ASSUME Bad(s) PROVE FALSE
  OBVIOUS
<1>2. Unfinished(s) \in T
  BY <1>1, UnfinishedCounts
<1>3. PICK k \in T : \A i \in T : ~ (<<i, k>> \in OpToRel(<, Nat))
  <2>1. T \subseteq Nat /\ T # {}
    BY <1>2
  <2> HIDE DEF T
  <2>2. QED
    BY <2>1, NatLessThanWellFounded, WFMin
<1>4. PICK r \in I : Unfinished(r) = k /\ Bad(r)
  OBVIOUS
<1>5. nxt[r] # r /\ nxt[r].finish # r.finish /\ nxt[r] \in I /\ r.finish \subseteq nxt[r].finish
  <2>1. nxt[r] # r
    BY <1>4
  <2>2. QED
    BY <2>1 DEF Advances
<1>6. f[r] = f[nxt[r]] /\ Bad(nxt[r])
  BY <1>4, <1>5
<1>7. Unfinished(nxt[r]) \in Nat /\ Unfinished(r) \in Nat /\ Unfinished(nxt[r]) < Unfinished(r)
  BY <1>5, UnfinishedCounts
<1>8. Unfinished(nxt[r]) \in T
  BY <1>5, <1>6, <1>7
<1>9. <<Unfinished(nxt[r]), k>> \in OpToRel(<, Nat)
  BY <1>4, <1>7 DEF OpToRel
<1>10. QED
  BY <1>3, <1>8, <1>9
-----------------------------------------------------------------------------
(* What a set of threads holds together.                                     *)

Part(A, S) == [t \in Threads |-> IF t \in S THEN A[t] ELSE Zero]
Together(A, S) == [j \in Resources |-> Totals(Part(A, S), j)[n]]

\* Totals are monotone.
LEMMA TotalsMonotone ==
  ASSUME NEW A \in Tables, NEW B \in Tables, NEW j \in Resources,
         \A t \in Threads : A[t][j] <= B[t][j]
  PROVE  Totals(A, j)[n] <= Totals(B, j)[n]
<1> DEFINE f == Totals(A, j)
           g == Totals(B, j)
<1>1. Adds(A, j, f, n) /\ Adds(B, j, g, n)
  BY TotalsAdd DEF Tables
<1> HIDE DEF f, g
<1>2. n \in Nat \ {0}
  BY CountsAssumption
<1> DEFINE S == {k \in 0 .. n : f[k] <= g[k]}
<1>3. 0 \in S
  BY <1>1, <1>2 DEF Adds
<1>4. ASSUME NEW k \in 0 .. n - 1, k \in S PROVE k + 1 \in S
  <2>1. k \in Threads /\ k + 1 \in 1 .. n /\ k + 1 - 1 = k
        /\ A[k][j] \in Int /\ B[k][j] \in Int /\ f[k] \in Int /\ g[k] \in Int
    BY <1>1, <1>2 DEF Threads, Vectors, Adds, Tables
  <2>2. g[k+1] = g[k] + B[k][j] /\ f[k+1] = f[k] + A[k][j] /\ A[k][j] <= B[k][j]
    BY <1>1, <2>1 DEF Adds
  <2>3. QED
    BY <1>2, <1>4, <2>1, <2>2
<1>5. n \in S
  <2> HIDE DEF S
  <2>1. Upward(S)
    BY <1>3, <1>4 DEF Upward
  <2>2. 0 .. n \subseteq S /\ n \in 0 .. n
    BY <1>2, <2>1, UpToN
  <2>3. QED
    BY <2>2
<1>6. QED
  BY <1>5 DEF f, g

\* The rows of a part of the threads make a table again.
LEMMA PartIsTable == \A A \in Tables, S \in SUBSET Threads : Part(A, S) \in Tables
BY DEF Part, Tables, Vectors, Zero

\* What a set of threads holds together is a vector.
LEMMA TogetherIsVector ==
  ASSUME NEW A \in Tables, NEW S \in SUBSET Threads
  PROVE  Together(A, S) \in Vectors
<1>1. ASSUME NEW j \in Resources PROVE Totals(Part(A, S), j)[n] \in Int
  <2>1. Adds(Part(A, S), j, Totals(Part(A, S), j), n)
    BY PartIsTable, TotalsAdd DEF Tables
  <2>2. n \in 0 .. n
    BY CountsAssumption
  <2>3. QED
    BY <2>1, <2>2 DEF Adds
<1>2. QED
  BY <1>1 DEF Together, Vectors

\* Nobody holds nothing.
LEMMA TogetherNobody ==
  ASSUME NEW A
  PROVE  Together(A, {}) = Zero
<1>1. Part(A, {}) = [t \in Threads |-> Zero]
  BY DEF Part
<1>2. QED
  BY <1>1, TotalOfNothing DEF Together, Zero

\* One more thread adds its row.
LEMMA TogetherMore ==
  ASSUME NEW A \in Tables, NEW S \in SUBSET Threads, NEW i \in Threads \ S
  PROVE  Together(A, S \cup {i}) = Together(A, S) \oplus A[i]
<1>1. ASSUME NEW j \in Resources
      PROVE  Totals(Part(A, S \cup {i}), j)[n] = Totals(Part(A, S), j)[n] + A[i][j]
  <2>1. PICK B \in Tables : B = Part(A, S)
    BY PartIsTable
  <2>2. PICK C \in Tables : C = Part(A, S \cup {i})
    BY PartIsTable
  <2>3. A[i][j] \in Int
    BY DEF Tables, Vectors
  <2>4. C[i][j] = B[i][j] + A[i][j] /\ \A u \in Threads \ {i} : C[u][j] = B[u][j]
    BY <2>1, <2>2, <2>3 DEF Part, Zero
  <2>5. Totals(C, j)[n] = Totals(B, j)[n] + A[i][j]
    BY <2>3, <2>4, TotalChanges
  <2>6. QED
    BY <2>1, <2>2, <2>5
<1>2. QED
  BY <1>1 DEF Together, \oplus

\* A larger set holds at least as much.
LEMMA TogetherMonotone ==
  ASSUME NEW A \in Tables, \A t \in Threads : Zero \preceq A[t],
         NEW S \in SUBSET Threads, NEW R \in SUBSET Threads, S \subseteq R
  PROVE  Together(A, S) \preceq Together(A, R)
<1>1. ASSUME NEW j \in Resources
      PROVE  Totals(Part(A, S), j)[n] <= Totals(Part(A, R), j)[n]
  <2>1. PICK B \in Tables : B = Part(A, S)
    BY PartIsTable
  <2>2. PICK C \in Tables : C = Part(A, R)
    BY PartIsTable
  <2>3. ASSUME NEW t \in Threads PROVE B[t][j] <= C[t][j]
    <3>1. A[t][j] \in Int /\ 0 <= A[t][j]
      BY DEF Tables, Vectors, Zero, \preceq
    <3>2. QED
      BY <2>1, <2>2, <3>1 DEF Part, Zero
  <2>4. Totals(B, j)[n] <= Totals(C, j)[n]
    BY <2>3, TotalsMonotone
  <2>5. QED
    BY <2>1, <2>2, <2>4
<1>2. QED
  BY <1>1 DEF Together, \preceq

\* One row changes by d: so does what any set with its thread holds.
LEMMA TogetherChanges ==
  ASSUME NEW A \in Tables, NEW B \in Tables, NEW t \in Threads, NEW d \in Vectors,
         B[t] = A[t] \oplus d, \A u \in Threads \ {t} : B[u] = A[u],
         NEW S \in SUBSET Threads
  PROVE  Together(B, S) = IF t \in S THEN Together(A, S) \oplus d ELSE Together(A, S)
<1>1. CASE t \notin S
  <2>1. Part(B, S) = Part(A, S)
    BY <1>1 DEF Part
  <2>2. QED
    BY <1>1, <2>1 DEF Together
<1>2. CASE t \in S
  <2>1. ASSUME NEW j \in Resources
        PROVE  Totals(Part(B, S), j)[n] = Totals(Part(A, S), j)[n] + d[j]
    <3>1. PICK C \in Tables : C = Part(A, S)
      BY PartIsTable
    <3>2. PICK D \in Tables : D = Part(B, S)
      BY PartIsTable
    <3>3. D[t][j] = C[t][j] + d[j] /\ \A u \in Threads \ {t} : D[u][j] = C[u][j]
      BY <1>2, <3>1, <3>2 DEF Part, \oplus
    <3>4. d[j] \in Int
      BY DEF Vectors
    <3>5. Totals(D, j)[n] = Totals(C, j)[n] + d[j]
      BY <3>3, <3>4, TotalChanges
    <3>6. QED
      BY <3>1, <3>2, <3>5
  <2>2. QED
    BY <1>2, <2>1 DEF Together, \oplus
<1>3. QED
  BY <1>1, <1>2
-----------------------------------------------------------------------------
(* What the safety tests find out.                                           *)

\* No set of live threads is stuck: some member of it can get all it may still
\* need from the pool and from what the live threads outside the set hold.
NoStuckSet(A, N, V, act) ==
  \A S \in SUBSET act :
    S # {} => \E i \in S : N[i] \preceq V \oplus Together(A, act \ S)

\* A trial on the way from the initial one: work is what the finished live
\* threads have given back, and no set with a finished thread in it is stuck.
Sound(A, N, V, act) ==
  {s \in Trials :
     /\ Threads \ act \subseteq s.finish
     /\ s.work = V \oplus Together(A, act \cap s.finish)
     /\ \A S \in SUBSET act : S \cap s.finish # {} =>
          \E i \in S : N[i] \preceq V \oplus Together(A, act \ S)}

\* The sum of three vectors.
LEMMA AddAssociates ==
  ASSUME NEW u \in Vectors, NEW v \in Vectors, NEW w \in Vectors
  PROVE  (u \oplus v) \oplus w = u \oplus (v \oplus w)
<1>1. \A j \in Resources : u[j] \in Int /\ v[j] \in Int /\ w[j] \in Int
  BY DEF Vectors
<1>2. \A j \in Resources : (u[j] + v[j]) + w[j] = u[j] + (v[j] + w[j])
  BY <1>1
<1>3. \A j \in Resources : (u \oplus v)[j] = u[j] + v[j] /\ (v \oplus w)[j] = v[j] + w[j]
  BY DEF \oplus
<1>4. QED
  BY <1>2, <1>3 DEF \oplus

\* A need covered by a pool is covered by a larger one.
LEMMA CoveredByMore ==
  ASSUME NEW u \in Vectors, NEW v \in Vectors, NEW w \in Vectors, NEW x \in Vectors,
         u \preceq v \oplus w, w \preceq x
  PROVE  u \preceq v \oplus x
<1>1. \A j \in Resources : u[j] \in Int /\ v[j] \in Int /\ w[j] \in Int /\ x[j] \in Int
  BY DEF Vectors
<1>2. \A j \in Resources : u[j] <= v[j] + w[j] /\ w[j] <= x[j]
  BY DEF \oplus, \preceq
<1>3. \A j \in Resources : u[j] <= v[j] + x[j]
  BY <1>1, <1>2
<1>4. QED
  BY <1>3 DEF \oplus, \preceq

\* The trial the safety tests start from.
LEMMA StartIsSound ==
  ASSUME NEW A, NEW N, NEW V \in Vectors, NEW act \in SUBSET Threads
  PROVE  [work |-> V, finish |-> Threads \ act] \in Sound(A, N, V, act)
<1> DEFINE s == [work |-> V, finish |-> Threads \ act]
<1>1. s \in Trials /\ act \cap s.finish = {} /\ \A S \in SUBSET act : S \cap s.finish = {}
  BY DEF Trials
<1>2. V \oplus Zero = V
  BY DEF Vectors, Zero, \oplus
<1>3. Together(A, act \cap s.finish) = Zero
  BY <1>1, TogetherNobody
<1>4. QED
  BY <1>1, <1>2, <1>3 DEF Sound

\* The turns of the safety tests keep a trial sound.
LEMMA SoundIsClosed ==
  ASSUME NEW A \in Tables, NEW N \in Tables, NEW V \in Vectors, NEW act \in SUBSET Threads,
         \A t \in Threads : Zero \preceq A[t]
  PROVE  Closed(Sound(A, N, V, act), A, N)
<1>1. SUFFICES ASSUME NEW s \in Sound(A, N, V, act), NEW i \in Threads,
                      i \notin s.finish, N[i] \preceq s.work
               PROVE  LetFinish(s, i, A, N) \in Sound(A, N, V, act)
  BY DEF Closed, Sound, LetFinish
<1> DEFINE r == LetFinish(s, i, A, N)
<1>2. s \in Trials /\ i \in act /\ s.finish \in SUBSET Threads
  BY <1>1 DEF Sound, Trials
<1>3. r \in Trials /\ r.finish = s.finish \cup {i} /\ r.work = s.work \oplus A[i]
  BY <1>1, <1>2, Turn
<1> HIDE DEF r
<1>4. r.work = V \oplus Together(A, act \cap r.finish)
  <2>1. act \cap r.finish = (act \cap s.finish) \cup {i} /\ i \in Threads \ (act \cap s.finish)
    BY <1>1, <1>2, <1>3
  <2>2. Together(A, act \cap r.finish) = Together(A, act \cap s.finish) \oplus A[i]
    BY <1>2, <2>1, TogetherMore
  <2>3. PICK w \in Vectors : w = Together(A, act \cap s.finish)
    BY <1>2, TogetherIsVector
  <2>4. A[i] \in Vectors
    BY DEF Tables
  <2>5. (V \oplus w) \oplus A[i] = V \oplus (w \oplus A[i])
    BY <2>3, <2>4, AddAssociates
  <2>6. s.work = V \oplus w
    BY <2>3 DEF Sound
  <2>7. QED
    BY <1>3, <2>2, <2>3, <2>5, <2>6
<1>5. ASSUME NEW S \in SUBSET act, S \cap r.finish # {}
      PROVE  \E k \in S : N[k] \preceq V \oplus Together(A, act \ S)
  <2>1. CASE S \cap s.finish # {}
    BY <2>1 DEF Sound
  <2>2. CASE S \cap s.finish = {}
    <3>1. i \in S /\ act \cap s.finish \subseteq act \ S
      BY <1>3, <1>5, <2>2
    <3>2. Together(A, act \cap s.finish) \preceq Together(A, act \ S)
      BY <3>1, TogetherMonotone
    <3>3. PICK w \in Vectors : w = Together(A, act \cap s.finish)
      BY <1>2, TogetherIsVector
    <3>4. PICK x \in Vectors : x = Together(A, act \ S)
      BY TogetherIsVector
    <3>5. N[i] \preceq V \oplus w /\ N[i] \in Vectors
      BY <1>1, <3>3 DEF Sound, Tables
    <3>6. N[i] \preceq V \oplus x
      BY <3>2, <3>3, <3>4, <3>5, CoveredByMore
    <3>7. QED
      BY <3>1, <3>4, <3>6
  <2>3. QED
    BY <2>1, <2>2
<1>6. QED
  BY <1>1, <1>3, <1>4, <1>5 DEF Sound, r

\* Where nobody else can finish, the live threads have all finished exactly if
\* no set of them is stuck.
LEMMA EndDecides ==
  ASSUME NEW A \in Tables, NEW N \in Tables, NEW V \in Vectors, NEW act \in SUBSET Threads,
         NEW e \in Sound(A, N, V, act),
         \A i \in Threads : i \notin e.finish => ~ (N[i] \preceq e.work)
  PROVE  act \subseteq e.finish <=> NoStuckSet(A, N, V, act)
<1>1. ASSUME act \subseteq e.finish PROVE NoStuckSet(A, N, V, act)
  <2>1. \A S \in SUBSET act : S # {} => S \cap e.finish # {}
    BY <1>1
  <2>2. QED
    BY <2>1 DEF NoStuckSet, Sound
<1>2. ASSUME NoStuckSet(A, N, V, act), act \ e.finish # {} PROVE FALSE
  <2>1. PICK i \in act \ e.finish : N[i] \preceq V \oplus Together(A, act \ (act \ e.finish))
    BY <1>2 DEF NoStuckSet
  <2>2. act \ (act \ e.finish) = act \cap e.finish
    OBVIOUS
  <2>3. N[i] \preceq e.work
    BY <2>1, <2>2 DEF Sound
  <2>4. QED
    BY <2>3
<1>3. QED
  BY <1>1, <1>2

\* The safety test of resource.cpp says yes exactly if no set of live threads is
\* stuck, whatever the order in which its passes look at the threads.
THEOREM SafetyTestExact ==
  ASSUME NEW A \in Tables, NEW N \in Tables, NEW V \in Vectors, NEW act \in SUBSET Threads,
         \A t \in Threads : Zero \preceq A[t]
  PROVE  is_safe_state(A, N, V, act) <=> NoStuckSet(A, N, V, act)
<1> DEFINE nxt == [s \in Trials |-> Pass(s, A, N)]
           start == [work |-> V, finish |-> Threads \ act]
           I == Sound(A, N, V, act)
           Body(f) == [s \in Trials |->
             LET next == Pass(s, A, N)
             IN  IF next.finish = s.finish THEN s.finish ELSE f[next]]
           loop == CHOOSE f : f = Body(f)
<1>1. is_safe_state(A, N, V, act) <=> act \subseteq loop[start]
  BY DEF is_safe_state
<1>2. Closed(Trials, A, N) /\ Closed(I, A, N) /\ start \in I
  BY Turn, SoundIsClosed, StartIsSound DEF Closed
<1>3. Advances(nxt)
  BY <1>2, PassResult DEF Advances
<1>4. I \in SUBSET Trials /\ \A s \in I : nxt[s] \in I
  BY <1>2, PassResult DEF Closed
<1> HIDE DEF I, start
<1>5. PICK f : /\ f = [s \in Trials |-> f[s]]
               /\ \A s \in Trials :
                    f[s] = IF nxt[s].finish = s.finish THEN s.finish ELSE f[nxt[s]]
  <2> HIDE DEF nxt
  <2>1. QED
    BY <1>3, SearchExists
<1>6. f = Body(f)
  BY <1>5
<1>7. loop = Body(loop)
  BY <1>6
<1> HIDE DEF loop
<1>8. \A s \in Trials :
         loop[s] = IF nxt[s].finish = s.finish THEN s.finish ELSE loop[nxt[s]]
  <2>1. \A s \in Trials : nxt[s] = Pass(s, A, N)
    OBVIOUS
  <2>2. \A s \in Trials : loop[s] = Body(loop)[s]
    BY <1>7
  <2> HIDE DEF nxt
  <2>3. QED
    BY <2>1, <2>2
<1>9. PICK e \in I : nxt[e] = e /\ loop[start] = e.finish
  <2> HIDE DEF nxt
  <2>1. QED
    BY <1>2, <1>3, <1>4, <1>8, SearchEnds
<1>10. \A i \in Threads : i \notin e.finish => ~ (N[i] \preceq e.work)
  <2>1. e \in Trials /\ Pass(e, A, N) = e
    BY <1>4, <1>9
  <2>2. QED
    BY <1>2, <2>1, PassResult
<1>11. act \subseteq e.finish <=> NoStuckSet(A, N, V, act)
  BY <1>10, EndDecides DEF I
<1>12. QED
  BY <1>1, <1>9, <1>11

\* The search of sol_resource.c takes the first thread that can finish.
LEMMA FirstFits ==
  ASSUME NEW N, NEW s, Fit(s, N) # {}
  PROVE  First(s, N) \in Fit(s, N)
<1> DEFINE T == Fit(s, N)
<1>1. T \subseteq Nat /\ T # {}
  BY CountsAssumption DEF Fit, Threads
<1> HIDE DEF T
<1>2. PICK k \in T : \A i \in T : ~ (<<i, k>> \in OpToRel(<, Nat))
  BY <1>1, NatLessThanWellFounded, WFMin
<1>3. \A i \in T : k <= i
  <2>1. SUFFICES ASSUME NEW i \in T, i < k PROVE FALSE
    BY <1>1
  <2>2. <<i, k>> \in OpToRel(<, Nat)
    BY <1>1, <2>1 DEF OpToRel
  <2>3. QED
    BY <1>2, <2>2
<1>4. QED
  BY <1>3 DEF First, T

\* The safety test of sol_resource.c says the same.
THEOREM SolutionTestExact ==
  ASSUME NEW A \in Tables, NEW N \in Tables, NEW V \in Vectors, NEW act \in SUBSET Threads,
         \A t \in Threads : Zero \preceq A[t]
  PROVE  issafe(A, N, V, act) <=> NoStuckSet(A, N, V, act)
<1> DEFINE nxt == [s \in Trials |-> IF Fit(s, N) = {} THEN s
                                    ELSE LetFinish(s, First(s, N), A, N)]
           start == [work |-> V, finish |-> Threads \ act]
           I == Sound(A, N, V, act)
           Body(f) == [s \in Trials |-> IF Fit(s, N) = {} THEN s.finish
                                        ELSE f[LetFinish(s, First(s, N), A, N)]]
           loop == CHOOSE f : f = Body(f)
<1>1. issafe(A, N, V, act) <=> loop[start] = Threads
  BY DEF issafe
<1>2. Closed(I, A, N) /\ start \in I
  BY SoundIsClosed, StartIsSound
<1>3. ASSUME NEW s \in Trials, Fit(s, N) # {}
      PROVE  LET i == First(s, N) IN
             i \in Threads /\ i \notin s.finish /\ N[i] \preceq s.work
  BY <1>3, FirstFits DEF Fit
<1>4. \A s \in Trials :
        /\ nxt[s] \in Trials /\ s.finish \subseteq nxt[s].finish
        /\ nxt[s].finish = s.finish <=> Fit(s, N) = {}
        /\ nxt[s].finish = s.finish => nxt[s] = s
        /\ Fit(s, N) # {} => nxt[s] = LetFinish(s, First(s, N), A, N)
  <2>1. SUFFICES ASSUME NEW s \in Trials, Fit(s, N) # {}
                 PROVE  LET r == LetFinish(s, First(s, N), A, N)
                        IN  r \in Trials /\ s.finish \subseteq r.finish /\ r.finish # s.finish
    OBVIOUS
  <2>2. QED
    BY <1>3, <2>1, Turn
<1>5. Advances(nxt)
  BY <1>4 DEF Advances
<1>6. I \in SUBSET Trials /\ \A s \in I : nxt[s] \in I
  <2>1. I \in SUBSET Trials
    BY <1>2 DEF Closed
  <2>2. ASSUME NEW s \in I PROVE nxt[s] \in I
    <3>1. CASE Fit(s, N) = {}
      BY <2>1, <3>1
    <3>2. CASE Fit(s, N) # {}
      <4>1. s \in Trials /\ First(s, N) \in Threads
        BY <1>3, <2>1, <3>2
      <4>2. LetFinish(s, First(s, N), A, N) \in I
        BY <1>2, <4>1 DEF Closed
      <4>3. QED
        BY <1>4, <3>2, <4>1, <4>2
    <3>3. QED
      BY <3>1, <3>2
  <2>3. QED
    BY <2>1, <2>2
<1> HIDE DEF I, start
<1>7. PICK f : /\ f = [s \in Trials |-> f[s]]
               /\ \A s \in Trials :
                    f[s] = IF nxt[s].finish = s.finish THEN s.finish ELSE f[nxt[s]]
  <2> HIDE DEF nxt
  <2>1. QED
    BY <1>5, SearchExists
<1> HIDE DEF nxt
<1>8. f = Body(f)
  <2>1. \A s \in Trials : f[s] = IF Fit(s, N) = {} THEN s.finish
                                 ELSE f[LetFinish(s, First(s, N), A, N)]
    BY <1>4, <1>7
  <2>2. Body(f) = [s \in Trials |-> f[s]]
    BY <2>1
  <2>3. QED
    BY <1>7, <2>2
<1>9. loop = Body(loop)
  BY <1>8
<1> HIDE DEF loop
<1>10. \A s \in Trials :
         loop[s] = IF nxt[s].finish = s.finish THEN s.finish ELSE loop[nxt[s]]
  <2>1. \A s \in Trials : loop[s] = IF Fit(s, N) = {} THEN s.finish
                                    ELSE loop[LetFinish(s, First(s, N), A, N)]
    BY <1>9
  <2> HIDE DEF Body
  <2>2. QED
    BY <1>4, <2>1
<1>11. PICK e \in I : nxt[e] = e /\ loop[start] = e.finish
  BY <1>2, <1>5, <1>6, <1>10, SearchEnds
<1>12. \A i \in Threads : i \notin e.finish => ~ (N[i] \preceq e.work)
  <2>1. Fit(e, N) = {}
    BY <1>4, <1>6, <1>11
  <2>2. QED
    BY <2>1 DEF Fit
<1>13. act \subseteq e.finish <=> NoStuckSet(A, N, V, act)
  BY <1>12, EndDecides DEF I
<1>14. e.finish = Threads <=> act \subseteq e.finish
  <2>1. e.finish \subseteq Threads /\ Threads \ act \subseteq e.finish
    BY DEF I, Sound, Trials
  <2>2. QED
    BY <2>1
<1>15. QED
  BY <1>1, <1>11, <1>13, <1>14

\* The two programs judge every table alike.
THEOREM SafetyTestsAgree ==
  ASSUME NEW A \in Tables, NEW N \in Tables, NEW V \in Vectors, NEW act \in SUBSET Threads,
         \A t \in Threads : Zero \preceq A[t]
  PROVE  is_safe_state(A, N, V, act) <=> issafe(A, N, V, act)
BY SafetyTestExact, SolutionTestExact

-----------------------------------------------------------------------------
(* What keeps a table safe.                                                  *)

\* When nothing is held and nobody can need more than the pool, nobody is stuck.
LEMMA NothingHeldIsSafe ==
  ASSUME NEW A \in Tables, NEW N \in Tables, NEW V \in Vectors, NEW act \in SUBSET Threads,
         \A t \in Threads : Zero \preceq A[t] /\ N[t] \preceq V
  PROVE  NoStuckSet(A, N, V, act)
<1>1. SUFFICES ASSUME NEW S \in SUBSET act, NEW i \in S
               PROVE  N[i] \preceq V \oplus Together(A, act \ S)
  BY DEF NoStuckSet
<1>2. Zero \preceq Together(A, act \ S)
  <2>1. Together(A, {}) \preceq Together(A, act \ S)
    BY TogetherMonotone
  <2>2. QED
    BY <2>1, TogetherNobody
<1>3. PICK x \in Vectors : x = Together(A, act \ S)
  BY TogetherIsVector
<1>4. i \in Threads /\ N[i] \in Vectors /\ Zero \in Vectors
  BY DEF Tables, Vectors, Zero
<1>5. V \oplus Zero = V
  BY DEF Vectors, Zero, \oplus
<1>6. N[i] \preceq V \oplus x
  BY <1>2, <1>3, <1>4, <1>5, CoveredByMore
<1>7. QED
  BY <1>3, <1>6

\* When t gives f back, the pool and the need of t grow by as much.
LEMMA ReleaseKeepsSafe ==
  ASSUME NEW A \in Tables, NEW N \in Tables, NEW V \in Vectors, NEW act \in SUBSET Threads,
         NEW B \in Tables, NEW M \in Tables, NEW t \in Threads, NEW f \in Vectors,
         Zero \preceq f, B[t] = A[t] \ominus f, M[t] = N[t] \oplus f,
         \A u \in Threads \ {t} : B[u] = A[u] /\ M[u] = N[u],
         NoStuckSet(A, N, V, act)
  PROVE  NoStuckSet(B, M, V \oplus f, act)
<1> DEFINE d == Zero \ominus f
<1>1. A[t] \in Vectors /\ N[t] \in Vectors /\ d \in Vectors
  BY DEF Tables, Vectors, Zero, \ominus
<1>2. B[t] = A[t] \oplus d
  <2>1. \A j \in Resources : A[t][j] - f[j] = A[t][j] + d[j]
    BY <1>1 DEF Vectors, Zero, \ominus
  <2>2. QED
    BY <2>1 DEF \oplus, \ominus
<1>3. SUFFICES ASSUME NEW S \in SUBSET act, S # {}
               PROVE  \E i \in S : M[i] \preceq (V \oplus f) \oplus Together(B, act \ S)
  BY DEF NoStuckSet
<1>4. PICK i \in S : N[i] \preceq V \oplus Together(A, act \ S)
  BY <1>3 DEF NoStuckSet
<1>5. PICK x \in Vectors : x = Together(A, act \ S)
  BY TogetherIsVector
<1>6. Together(B, act \ S) = IF t \in act \ S THEN x \oplus d ELSE x
  <2> HIDE DEF d
  <2>1. act \ S \in SUBSET Threads
    OBVIOUS
  <2>2. QED
    BY <1>1, <1>2, <1>5, <2>1, TogetherChanges
<1>7. i \in Threads /\ N[i] \in Vectors
  BY DEF Tables
<1>8. \A j \in Resources :
         /\ V[j] \in Int /\ x[j] \in Int /\ f[j] \in Int /\ f[j] >= 0 /\ d[j] = 0 - f[j]
         /\ N[i][j] \in Int /\ N[i][j] <= V[j] + x[j]
  <2>1. N[i] \preceq V \oplus x
    BY <1>4, <1>5
  <2>2. \A j \in Resources : N[i][j] <= V[j] + x[j]
    BY <2>1 DEF \oplus, \preceq
  <2>3. \A j \in Resources : f[j] \in Int /\ f[j] >= 0 /\ d[j] = 0 - f[j]
    BY DEF Zero, \preceq, \ominus, Vectors
  <2>4. QED
    BY <1>7, <2>2, <2>3 DEF Vectors
<1> HIDE DEF d
<1>9. CASE t \in act \ S
  <2>1. i # t /\ M[i] = N[i]
    BY <1>7, <1>9
  <2>2. \A j \in Resources : N[i][j] <= (V[j] + f[j]) + (x[j] + d[j])
    BY <1>8
  <2>3. N[i] \preceq (V \oplus f) \oplus (x \oplus d)
    BY <2>2 DEF \oplus, \preceq
  <2>4. QED
    BY <1>6, <1>9, <2>1, <2>3
<1>10. CASE t \notin act \ S
  <2>1. \A j \in Resources : M[i][j] <= (V[j] + f[j]) + x[j]
    <3>1. CASE i = t
      <4>1. \A j \in Resources : M[i][j] = N[i][j] + f[j]
        BY <3>1 DEF \oplus
      <4>2. QED
        BY <1>8, <4>1
    <3>2. CASE i # t
      <4>1. M[i] = N[i]
        BY <1>7, <3>2
      <4>2. QED
        BY <1>8, <4>1
    <3>3. QED
      BY <3>1, <3>2
  <2>2. M[i] \preceq (V \oplus f) \oplus x
    BY <2>1 DEF \oplus, \preceq
  <2>3. QED
    BY <1>6, <1>10, <2>2
<1>11. QED
  BY <1>9, <1>10

\* A thread that gives everything back and leaves makes nobody stuck.
LEMMA QuitKeepsSafe ==
  ASSUME NEW A \in Tables, NEW N \in Tables, NEW V \in Vectors, NEW act \in SUBSET Threads,
         NEW B \in Tables, NEW M \in Tables, NEW t \in Threads, Zero \preceq A[t],
         B[t] = Zero, \A u \in Threads \ {t} : B[u] = A[u] /\ M[u] = N[u],
         NoStuckSet(A, N, V, act)
  PROVE  NoStuckSet(B, M, V \oplus A[t], act \ {t})
<1>1. SUFFICES ASSUME NEW S \in SUBSET (act \ {t}), S # {}
               PROVE  \E i \in S :
                        M[i] \preceq (V \oplus A[t]) \oplus Together(B, (act \ {t}) \ S)
  BY DEF NoStuckSet
<1>2. PICK i \in S : N[i] \preceq V \oplus Together(A, act \ S)
  BY <1>1 DEF NoStuckSet
<1>3. M[i] = N[i] /\ N[i] \in Vectors /\ A[t] \in Vectors
  BY DEF Tables
<1> DEFINE R == (act \ {t}) \ S
<1>4. R \in SUBSET Threads /\ t \in Threads \ R
  OBVIOUS
<1>5. Part(B, R) = Part(A, R)
  BY DEF Part
<1>6. Together(B, R) = Together(A, R)
  BY <1>5 DEF Together
<1>7. PICK x \in Vectors : x = Together(A, R)
  <2> HIDE DEF R
  <2>1. QED
    BY <1>4, TogetherIsVector
<1>8. \A j \in Resources : /\ V[j] \in Int /\ x[j] \in Int
                           /\ A[t][j] \in Int /\ A[t][j] >= 0 /\ N[i][j] \in Int
  BY <1>3 DEF Vectors, Zero, \preceq
<1>9. CASE t \in act
  <2>1. act \ S = R \cup {t}
    BY <1>9
  <2>2. Together(A, act \ S) = x \oplus A[t]
    <3> HIDE DEF R
    <3>1. QED
      BY <1>4, <1>7, <2>1, TogetherMore
  <2>3. V \oplus (x \oplus A[t]) = (V \oplus A[t]) \oplus x
    <3>1. \A j \in Resources : V[j] + (x[j] + A[t][j]) = (V[j] + A[t][j]) + x[j]
      BY <1>8
    <3>2. QED
      BY <3>1 DEF \oplus
  <2>4. QED
    BY <1>2, <1>3, <1>6, <1>7, <2>2, <2>3
<1>10. CASE t \notin act
  <2>1. act \ S = R
    BY <1>10
  <2>2. N[i] \preceq V \oplus x
    BY <1>2, <1>7, <2>1
  <2>3. \A j \in Resources : N[i][j] <= (V[j] + A[t][j]) + x[j]
    <3>1. \A j \in Resources : N[i][j] <= V[j] + x[j]
      BY <2>2 DEF \oplus, \preceq
    <3>2. QED
      BY <1>8, <3>1
  <2>4. N[i] \preceq (V \oplus A[t]) \oplus x
    BY <2>3 DEF \oplus, \preceq
  <2>5. QED
    BY <1>3, <1>6, <1>7, <2>4
<1>11. QED
  BY <1>9, <1>10

\* Where no set is stuck somebody's whole need can be granted safely: a safe
\* table is never a dead end.
LEMMA SomebodyCanBeServed ==
  ASSUME NEW A \in Tables, NEW N \in Tables, NEW V \in Vectors, NEW act \in SUBSET Threads,
         \A t \in Threads : Zero \preceq A[t], act # {}, NoStuckSet(A, N, V, act)
  PROVE  \E t \in act :
           /\ N[t] \preceq V
           /\ \A B, M \in Tables :
                /\ B[t] = A[t] \oplus N[t] /\ M[t] = Zero
                /\ \A u \in Threads \ {t} : B[u] = A[u] /\ M[u] = N[u]
                => NoStuckSet(B, M, V \ominus N[t], act)
<1>1. PICK t \in act : N[t] \preceq V \oplus Together(A, act \ act)
  BY DEF NoStuckSet
<1>2. V \oplus Zero = V
  BY DEF Vectors, Zero, \oplus
<1>3. act \ act = {}
  OBVIOUS
<1>4. N[t] \preceq V
  BY <1>1, <1>2, <1>3, TogetherNobody
<1>5. ASSUME NEW B \in Tables, NEW M \in Tables, B[t] = A[t] \oplus N[t], M[t] = Zero,
             \A u \in Threads \ {t} : B[u] = A[u] /\ M[u] = N[u],
             NEW S \in SUBSET act, S # {}
      PROVE  \E i \in S : M[i] \preceq (V \ominus N[t]) \oplus Together(B, act \ S)
  <2>1. PICK x \in Vectors : x = Together(A, act \ S)
    BY TogetherIsVector
  <2>2. t \in Threads /\ N[t] \in Vectors
    BY DEF Tables
  <2>3. Together(B, act \ S) = IF t \in act \ S THEN x \oplus N[t] ELSE x
    <3>1. act \ S \in SUBSET Threads
      OBVIOUS
    <3>2. QED
      BY <1>5, <2>1, <2>2, <3>1, TogetherChanges
  <2>4. Zero \preceq x
    <3>1. Together(A, {}) \preceq Together(A, act \ S)
      BY TogetherMonotone
    <3>2. QED
      BY <2>1, <3>1, TogetherNobody
  <2>5. \A j \in Resources :
          /\ V[j] \in Int /\ x[j] \in Int /\ N[t][j] \in Int /\ x[j] >= 0 /\ N[t][j] <= V[j]
    BY <1>4, <2>2, <2>4 DEF Vectors, Zero, \preceq
  <2>6. CASE t \in S
    <3>1. \A j \in Resources : 0 <= (V[j] - N[t][j]) + x[j]
      BY <2>5
    <3>2. Zero \preceq (V \ominus N[t]) \oplus x
      BY <3>1 DEF Zero, \preceq, \oplus, \ominus
    <3>3. QED
      BY <1>5, <2>3, <2>6, <3>2
  <2>7. CASE t \notin S
    <3>1. PICK i \in S : N[i] \preceq V \oplus x
      BY <1>5, <2>1 DEF NoStuckSet
    <3>2. M[i] = N[i] /\ Together(B, act \ S) = x \oplus N[t]
      BY <1>5, <2>3, <2>7
    <3>3. V \oplus x = (V \ominus N[t]) \oplus (x \oplus N[t])
      <4>1. \A j \in Resources : V[j] + x[j] = (V[j] - N[t][j]) + (x[j] + N[t][j])
        BY <2>5
      <4>2. QED
        BY <4>1 DEF \oplus, \ominus
    <3>4. QED
      BY <3>1, <3>2, <3>3
  <2>8. QED
    BY <2>6, <2>7
<1>6. QED
  BY <1>4, <1>5 DEF NoStuckSet

-----------------------------------------------------------------------------
(* The definition of safety without an algorithm, SafeState.                 *)

\* The threads are finitely many.
LEMMA ThreadsAreFinite ==
  IsFiniteSet(Threads) /\ Cardinality(Threads) = n
  /\ \A S \in SUBSET Threads : IsFiniteSet(S) /\ Cardinality(S) \in 0 .. n
<1>1. 0 \in Int /\ n - 1 \in Int /\ n \in Nat \ {0}
  BY CountsAssumption
<1>2. IsFiniteSet(Threads) /\ Cardinality(Threads) = n
  BY <1>1, FS_Interval DEF Threads
<1>3. ASSUME NEW S \in SUBSET Threads PROVE IsFiniteSet(S) /\ Cardinality(S) \in 0 .. n
  <2>1. IsFiniteSet(S) /\ Cardinality(S) \in Nat /\ Cardinality(S) <= n
    BY <1>2, FS_Subset, FS_CardinalityType
  <2>2. QED
    BY <1>1, <2>1
<1>4. QED
  BY <1>2, <1>3

\* The fold of SafeState, over whatever order it takes the threads in, adds up what
\* they hold.
LEMMA GivenBackIsTogether ==
  ASSUME NEW A \in Tables, NEW S \in SUBSET Threads, NEW j \in Resources
  PROVE  GivenBack(A, S, j) = Together(A, S)[j]
<1> DEFINE Body(f) == [s \in SUBSET S |->
                         IF s = {} THEN 0
                         ELSE LET x == CHOOSE y \in s : TRUE IN A[x][j] + f[s \ {x}]]
           iter == CHOOSE f : f = Body(f)
           h == [s \in SUBSET S |-> Together(A, s)[j]]
<1>1. GivenBack(A, S, j) = iter[S]
  BY DEF GivenBack, MapThenSumSet, MapThenFoldSet
<1>2. ASSUME NEW s \in SUBSET S, s # {}
      PROVE  /\ (CHOOSE y \in s : TRUE) \in s
             /\ \A x \in s : Together(A, s)[j] = A[x][j] + Together(A, s \ {x})[j]
  <2>1. (CHOOSE y \in s : TRUE) \in s
    BY <1>2
  <2>2. ASSUME NEW x \in s PROVE Together(A, s)[j] = A[x][j] + Together(A, s \ {x})[j]
    <3>1. s \ {x} \in SUBSET Threads /\ x \in Threads \ (s \ {x}) /\ s = (s \ {x}) \cup {x}
      BY <2>2
    <3>2. Together(A, s) = Together(A, s \ {x}) \oplus A[x]
      BY <3>1, TogetherMore
    <3>3. Together(A, s \ {x}) \in Vectors /\ A[x] \in Vectors
      BY <3>1, TogetherIsVector DEF Tables
    <3>4. Together(A, s \ {x})[j] \in Int /\ A[x][j] \in Int
      BY <3>3 DEF Vectors
    <3>5. Together(A, s)[j] = Together(A, s \ {x})[j] + A[x][j]
      BY <3>2 DEF \oplus
    <3>6. QED
      BY <3>4, <3>5
  <2>3. QED
    BY <2>1, <2>2
<1>3. h = Body(h)
  <2>1. Together(A, {})[j] = 0
    BY TogetherNobody DEF Zero
  <2>2. ASSUME NEW s \in SUBSET S PROVE h[s] = Body(h)[s]
    <3>1. CASE s = {}
      BY <2>1, <3>1
    <3>2. CASE s # {}
      <4>1. PICK x \in s : x = CHOOSE y \in s : TRUE
        BY <1>2, <3>2
      <4>2. h[s] = A[x][j] + h[s \ {x}]
        BY <1>2, <3>2
      <4>3. QED
        BY <3>2, <4>1, <4>2
    <3>3. QED
      BY <3>1, <3>2
  <2>3. QED
    BY <2>2
<1>4. iter = Body(iter)
  <2> HIDE DEF h
  <2>1. QED
    BY <1>3
<1> HIDE DEF iter
<1>5. /\ iter[{}] = 0
      /\ \A s \in SUBSET S : s # {} => \E x \in s : iter[s] = A[x][j] + iter[s \ {x}]
  <2>1. \A s \in SUBSET S : iter[s] = Body(iter)[s]
    BY <1>4
  <2>2. ASSUME NEW s \in SUBSET S, s # {}
        PROVE  \E x \in s : iter[s] = A[x][j] + iter[s \ {x}]
    <3>1. PICK x \in s : x = CHOOSE y \in s : TRUE
      BY <1>2, <2>2
    <3>2. QED
      BY <2>1, <2>2, <3>1
  <2>3. QED
    BY <2>1, <2>2
<1> DEFINE T == {k \in Nat : \E s \in SUBSET S : Cardinality(s) = k /\ iter[s] # h[s]}
<1>6. T = {}
  <2>1. SUFFICES ASSUME T # {} PROVE FALSE
    OBVIOUS
  <2>2. PICK k \in T : \A i \in T : ~ (<<i, k>> \in OpToRel(<, Nat))
    <3>1. T \subseteq Nat
      OBVIOUS
    <3> HIDE DEF T
    <3>2. QED
      BY <2>1, <3>1, NatLessThanWellFounded, WFMin
  <2>3. PICK s \in SUBSET S : Cardinality(s) = k /\ iter[s] # h[s]
    BY <2>2
  <2>4. s # {}
    <3>1. h[{}] = 0
      BY TogetherNobody DEF Zero
    <3>2. QED
      BY <1>5, <2>3, <3>1
  <2>5. PICK x \in s : iter[s] = A[x][j] + iter[s \ {x}]
    BY <1>5, <2>4
  <2>6. h[s] = A[x][j] + h[s \ {x}]
    BY <1>2, <2>4
  <2>7. iter[s \ {x}] # h[s \ {x}]
    BY <2>3, <2>5, <2>6
  <2>8. Cardinality(s \ {x}) = k - 1 /\ k - 1 \in Nat /\ k \in Nat
    <3>1. IsFiniteSet(s) /\ Cardinality(s) \in Nat
      BY ThreadsAreFinite
    <3>2. Cardinality(s \ {x}) = Cardinality(s) - 1 /\ Cardinality(s \ {x}) \in Nat
      BY <3>1, FS_RemoveElement, ThreadsAreFinite
    <3>3. QED
      BY <2>3, <3>1, <3>2
  <2>9. k - 1 \in T
    BY <2>7, <2>8
  <2>10. <<k - 1, k>> \in OpToRel(<, Nat)
    BY <2>8 DEF OpToRel
  <2>11. QED
    BY <2>2, <2>9, <2>10
<1>7. iter[S] = h[S]
  <2>1. Cardinality(S) \in Nat
    BY ThreadsAreFinite
  <2>2. QED
    BY <1>6, <2>1
<1>8. QED
  BY <1>1, <1>7

\* The orders of SafeState are the ways to count the live threads.
LEMMA OrdersCount ==
  ASSUME NEW S \in SUBSET Threads, NEW f \in Orders(S)
  PROVE  f \in [1 .. Cardinality(S) -> S] /\ \A i \in S : \E k \in 1 .. Cardinality(S) : f[k] = i
<1>1. IsFiniteSet(S) /\ Cardinality(S) \in Nat
  BY ThreadsAreFinite
<1>2. f \in Injection(1 .. Cardinality(S), S)
  BY DEF Orders, Injection, IsInjective
<1>3. Cardinality(1 .. Cardinality(S)) = Cardinality(S)
  <2>1. PICK c \in Nat : c = Cardinality(S)
    BY <1>1
  <2>2. 1 \in Int /\ c \in Int
    BY <2>1
  <2>3. Cardinality(1 .. c) = IF 1 > c THEN 0 ELSE c - 1 + 1
    BY <2>2, FS_Interval
  <2>4. Cardinality(1 .. c) = c
    BY <2>1, <2>3
  <2>5. QED
    BY <2>1, <2>4
<1>4. f \in Surjection(1 .. Cardinality(S), S)
  BY <1>1, <1>2, <1>3, FS_Injection
<1>5. QED
  BY <1>4 DEF Surjection

\* The first k threads of f can finish one after the other.
FinishInTurn(f, k, A, N, V, act) ==
  /\ f \in [1 .. k -> act] /\ \A i, l \in 1 .. k : f[i] = f[l] => i = l
  /\ \A i \in 1 .. k : N[f[i]] \preceq V \oplus Together(A, {f[l] : l \in 1 .. i - 1})

\* Where no set is stuck, any beginning of an order can be continued.
LEMMA OneMoreFinishes ==
  ASSUME NEW A \in Tables, NEW N \in Tables, NEW V \in Vectors, NEW act \in SUBSET Threads,
         NoStuckSet(A, N, V, act), NEW k \in Nat, k < Cardinality(act),
         NEW f, FinishInTurn(f, k, A, N, V, act)
  PROVE  \E g : FinishInTurn(g, k + 1, A, N, V, act)
<1> DEFINE X == {f[l] : l \in 1 .. k}
<1>1. X \in SUBSET act
  BY DEF FinishInTurn
<1>2. X # act
  <2>1. SUFFICES ASSUME X = act PROVE FALSE
    OBVIOUS
  <2>2. f \in Injection(1 .. k, act) /\ f \in Surjection(1 .. k, act)
    BY <2>1 DEF FinishInTurn, Injection, IsInjective, Surjection
  <2>3. Cardinality(1 .. k) = Cardinality(act)
    BY <2>2, ThreadsAreFinite, FS_Injection
  <2>4. 1 \in Int /\ k \in Int
    OBVIOUS
  <2>5. Cardinality(1 .. k) = IF 1 > k THEN 0 ELSE k - 1 + 1
    BY <2>4, FS_Interval
  <2>6. QED
    BY <2>3, <2>5
<1>3. act \ (act \ X) = X
  BY <1>1
<1>4. PICK i \in act \ X : N[i] \preceq V \oplus Together(A, X)
  <2>1. act \ X \in SUBSET act /\ act \ X # {}
    BY <1>1, <1>2
  <2>2. PICK i \in act \ X : N[i] \preceq V \oplus Together(A, act \ (act \ X))
    BY <2>1 DEF NoStuckSet
  <2>3. QED
    BY <1>3, <2>2
<1> DEFINE g == [l \in 1 .. k + 1 |-> IF l = k + 1 THEN i ELSE f[l]]
<1>5. g \in [1 .. k + 1 -> act] /\ g[k+1] = i /\ \A l \in 1 .. k : g[l] = f[l] /\ g[l] # i
  BY <1>1, <1>4 DEF FinishInTurn
<1> HIDE DEF g
<1>6. \A l \in 1 .. k + 1 : l = k + 1 \/ l \in 1 .. k
  OBVIOUS
<1>7. \A a, b \in 1 .. k + 1 : g[a] = g[b] => a = b
  BY <1>5, <1>6 DEF FinishInTurn
<1>8. ASSUME NEW a \in 1 .. k + 1
      PROVE  N[g[a]] \preceq V \oplus Together(A, {g[l] : l \in 1 .. a - 1})
  <2>1. \A l \in 1 .. a - 1 : l \in 1 .. k
    OBVIOUS
  <2>2. {g[l] : l \in 1 .. a - 1} = {f[l] : l \in 1 .. a - 1}
    BY <1>5, <2>1
  <2>3. CASE a = k + 1
    <3>1. a - 1 = k /\ g[a] = i
      BY <1>5, <2>3
    <3>2. {g[l] : l \in 1 .. a - 1} = X
      BY <2>2, <3>1
    <3> HIDE DEF X
    <3>3. QED
      BY <1>4, <3>1, <3>2
  <2>4. CASE a # k + 1
    BY <1>5, <1>6, <2>2, <2>4 DEF FinishInTurn
  <2>5. QED
    BY <2>3, <2>4
<1>9. FinishInTurn(g, k + 1, A, N, V, act)
  BY <1>5, <1>7, <1>8 DEF FinishInTurn
<1>10. QED
  BY <1>9

\* A table is safe by the definition, some order of finishing exists, exactly if no
\* set of live threads is stuck.
LEMMA DefinitionMeansNoStuckSet ==
  ASSUME NEW A \in Tables, NEW N \in Tables, NEW V \in Vectors, NEW act \in SUBSET Threads,
         \A t \in Threads : Zero \preceq A[t]
  PROVE  SafeByDefinition(V, A, N, act, Resources) <=> NoStuckSet(A, N, V, act)
<1>1. /\ IsFiniteSet(act) /\ Cardinality(act) \in Nat /\ Cardinality(act) \in 0 .. n
      /\ n \in Nat \ {0}
  BY ThreadsAreFinite, CountsAssumption
<1>2. ASSUME NEW f, NEW k \in Nat, f \in [1 .. k -> act], NEW i \in 1 .. k
      PROVE  (\A j \in Resources :
                N[f[i]][j] <= V[j] + GivenBack(A, {f[l] : l \in 1 .. i - 1}, j))
               <=> N[f[i]] \preceq V \oplus Together(A, {f[l] : l \in 1 .. i - 1})
  <2>1. PICK X \in SUBSET Threads : X = {f[l] : l \in 1 .. i - 1}
    <3>1. \A l \in 1 .. i - 1 : l \in 1 .. k
      BY <1>2
    <3>2. \A l \in 1 .. i - 1 : f[l] \in Threads
      BY <1>2, <3>1
    <3>3. QED
      BY <3>2
  <2>2. \A j \in Resources : GivenBack(A, X, j) = Together(A, X)[j]
    BY GivenBackIsTogether
  <2>3. QED
    BY <2>1, <2>2 DEF \preceq, \oplus
<1>3. ASSUME NoStuckSet(A, N, V, act) PROVE SafeByDefinition(V, A, N, act, Resources)
  <2> DEFINE U == {k \in 0 .. n :
                     k <= Cardinality(act) => \E f : FinishInTurn(f, k, A, N, V, act)}
  <2>1. 0 \in U
    <3>1. \A i \in 1 .. 0 : FALSE
      OBVIOUS
    <3>2. [l \in 1 .. 0 |-> 0] \in [1 .. 0 -> act]
      BY <3>1
    <3>3. FinishInTurn([l \in 1 .. 0 |-> 0], 0, A, N, V, act)
      BY <3>1, <3>2 DEF FinishInTurn
    <3>4. QED
      BY <1>1, <3>3
  <2>2. ASSUME NEW k \in 0 .. n - 1, k \in U PROVE k + 1 \in U
    <3>1. k \in Nat /\ k + 1 \in 0 .. n
      BY <1>1
    <3>2. SUFFICES ASSUME k + 1 <= Cardinality(act)
                   PROVE  \E f : FinishInTurn(f, k + 1, A, N, V, act)
      BY <3>1
    <3>3. k < Cardinality(act) /\ k <= Cardinality(act)
      BY <1>1, <3>1, <3>2
    <3>4. PICK f : FinishInTurn(f, k, A, N, V, act)
      BY <2>2, <3>3
    <3>5. QED
      BY <1>3, <3>1, <3>3, <3>4, OneMoreFinishes
  <2>3. PICK f : FinishInTurn(f, Cardinality(act), A, N, V, act)
    <3>1. Cardinality(act) \in U
      <4> HIDE DEF U
      <4>1. Upward(U)
        BY <2>1, <2>2 DEF Upward
      <4>2. QED
        BY <1>1, <4>1, UpToN
    <3>2. QED
      BY <1>1, <3>1
  <2>4. PICK c \in Nat : c = Cardinality(act)
    BY <1>1
  <2>5. f \in [1 .. c -> act] /\ f \in Orders(act) /\ DOMAIN f = 1 .. c
    BY <2>3, <2>4 DEF FinishInTurn, Orders
  <2>6. ASSUME NEW i \in 1 .. c
        PROVE  \A j \in Resources :
                 N[f[i]][j] <= V[j] + GivenBack(A, {f[l] : l \in 1 .. i - 1}, j)
    <3>1. N[f[i]] \preceq V \oplus Together(A, {f[l] : l \in 1 .. i - 1})
      BY <2>3, <2>4 DEF FinishInTurn
    <3>2. QED
      BY <1>2, <2>5, <3>1
  <2>7. QED
    BY <2>5, <2>6 DEF SafeByDefinition
<1>4. ASSUME SafeByDefinition(V, A, N, act, Resources), NEW S \in SUBSET act, S # {}
      PROVE  \E i \in S : N[i] \preceq V \oplus Together(A, act \ S)
  <2>1. PICK f \in Orders(act) : \A k \in DOMAIN f : \A j \in Resources :
          N[f[k]][j] <= V[j] + GivenBack(A, {f[l] : l \in 1 .. k - 1}, j)
    BY <1>4 DEF SafeByDefinition
  <2>2. PICK c \in Nat : c = Cardinality(act)
    BY <1>1
  <2>3. f \in [1 .. c -> act] /\ DOMAIN f = 1 .. c /\ \A i \in act : \E k \in 1 .. c : f[k] = i
    BY <2>2, OrdersCount
  <2> DEFINE T == {k \in 1 .. c : f[k] \in S}
  <2>4. T \subseteq Nat /\ T # {}
    BY <1>4, <2>3
  <2>5. PICK k \in T : \A i \in T : ~ (<<i, k>> \in OpToRel(<, Nat))
    <3> HIDE DEF T
    <3>1. QED
      BY <2>4, NatLessThanWellFounded, WFMin
  <2>6. \A l \in 1 .. k - 1 : f[l] \in act \ S
    <3>1. SUFFICES ASSUME NEW l \in 1 .. k - 1, f[l] \in S PROVE FALSE
      BY <2>3
    <3>2. l \in T /\ l \in Nat /\ k \in Nat /\ l < k
      BY <3>1
    <3>3. <<l, k>> \in OpToRel(<, Nat)
      BY <3>2 DEF OpToRel
    <3>4. QED
      BY <2>5, <3>2, <3>3
  <2>7. PICK X \in SUBSET (act \ S) : X = {f[l] : l \in 1 .. k - 1}
    BY <2>6
  <2>8. N[f[k]] \preceq V \oplus Together(A, X)
    <3>1. k \in 1 .. c
      OBVIOUS
    <3>2. \A j \in Resources : N[f[k]][j] <= V[j] + GivenBack(A, X, j)
      BY <2>1, <2>3, <2>7, <3>1
    <3>3. X \in SUBSET Threads
      OBVIOUS
    <3>4. \A j \in Resources : GivenBack(A, X, j) = Together(A, X)[j]
      BY <3>3, GivenBackIsTogether
    <3>5. QED
      BY <3>2, <3>4 DEF \preceq, \oplus
  <2>9. Together(A, X) \preceq Together(A, act \ S)
    BY <2>7, TogetherMonotone
  <2>10. PICK x \in Vectors, y \in Vectors : x = Together(A, X) /\ y = Together(A, act \ S)
    <3>1. X \in SUBSET Threads /\ act \ S \in SUBSET Threads
      OBVIOUS
    <3>2. QED
      BY <3>1, TogetherIsVector
  <2>11. N[f[k]] \in Vectors /\ f[k] \in S
    BY DEF Tables
  <2>12. N[f[k]] \preceq V \oplus y
    BY <2>8, <2>9, <2>10, <2>11, CoveredByMore
  <2>13. QED
    BY <2>10, <2>11, <2>12
<1>5. QED
  BY <1>3, <1>4 DEF NoStuckSet

\* The scan of resource.cpp decides safety as it is defined: it says yes exactly if the
\* live threads can finish in some order.
THEOREM SafetyTestMeetsDefinition ==
  ASSUME NEW A \in Tables, NEW N \in Tables, NEW V \in Vectors, NEW act \in SUBSET Threads,
         \A t \in Threads : Zero \preceq A[t]
  PROVE  is_safe_state(A, N, V, act) <=> SafeByDefinition(V, A, N, act, Resources)
BY SafetyTestExact, DefinitionMeansNoStuckSet

-----------------------------------------------------------------------------
(* The inductive invariant: where the two sides of a handshake stand, who    *)
(* holds which mutex, who is blocked in which barrier, and what is in        *)
(* transit between them.                                                     *)

MasterLabels == {"bos", "in_bos", "reqb", "in_reqb", "copy", "ackb", "in_ackb",
                 "handle", "scan", "signal", "signalling", "join", "done"}
UserLabels   == {"bos", "in_bos", "ready", "write", "lock_c", "reqb", "in_reqb",
                 "ackb", "in_ackb", "unlock_r", "cond_wait", "waiting", "woken",
                 "granted", "done"}
Handshaking  == {"write", "lock_c", "reqb", "in_reqb", "ackb", "in_ackb", "unlock_r"}

LabelInv == pc[Master] \in MasterLabels /\ \A t \in Threads : pc[t] \in UserLabels

\* rmtx is held by exactly the thread that is inside the handshake.
RmtxInv ==
  /\ rmtx # Master
  /\ \A t \in Threads : pc[t] \in Handshaking <=> rmtx = t

\* Who is blocked in a barrier; no barrier of two holds two.
BarrierInv ==
  /\ BOS = {p \in Procs : pc[p] = "in_bos"}
  /\ REQB = {p \in Procs : pc[p] = "in_reqb"}
  /\ pc[Master] = "in_reqb" => \A t \in Threads : pc[t] # "in_reqb"
  /\ \A t \in Threads :
       ACKB[t] = {p \in Procs : /\ pc[p] = "in_ackb"
                                /\ p = t \/ (p = Master /\ cur.thread_id = t)}

\* The master is between REQB and ACKB of a request.
InTransit == \/ pc[Master] \in {"copy", "ackb", "in_ackb"}
             \/ pc[Master] = "handle" /\ cur.type = QUIT

TransitInv ==
  /\ InTransit => rmtx \in Threads
  /\ \A t \in Threads :
       /\ pc[t] \in {"ackb", "in_ackb"} => InTransit
       /\ InTransit /\ rmtx = t =>
            /\ pc[t] \in {"ackb", "in_ackb"}
            /\ pc[Master] = "in_ackb" => pc[t] = "ackb"
            /\ pc[Master] = "copy" =>
                 g_request.thread_id = t /\ g_request.type = kind[t] /\ g_request # FREED
            /\ pc[Master] # "copy" => cur.thread_id = t /\ cur.type = kind[t]
       /\ pc[t] \in {"lock_c", "reqb", "in_reqb"} =>
            g_request.thread_id = t /\ g_request.type = kind[t] /\ g_request # FREED
  /\ pc[Master] = "handle" => cur.type \in {RELEASE, ADDITIONAL, QUIT}

KindInv ==
  \A t \in Threads :
    /\ pc[t] \in {"lock_c", "cond_wait", "waiting", "woken", "granted"} => kind[t] = ADDITIONAL

\* A thread holds its own cmtx from before REQB until it sleeps, and again
\* when it has been woken; the master holds it only while it signals.
CmtxInv ==
  \A t \in Threads :
    /\ cmtx[t] = t <=>
         \/ pc[t] \in {"cond_wait", "granted"}
         \/ /\ kind[t] = ADDITIONAL
            /\ pc[t] \in {"reqb", "in_reqb", "ackb", "in_ackb", "unlock_r"}
    /\ cmtx[t] = Master <=>
         pc[Master] = "signalling" /\ Head(fulfilled_queue).thread_id = t
    /\ cmtx[t] \in {t, Master, NOBODY}

\* Where the three queues may be non-empty.
PhaseInv ==
  /\ pc[Master] \notin {"scan", "signal", "signalling"} =>
       temp_queue = <<>> /\ fulfilled_queue = <<>>
  /\ pc[Master] \in {"signal", "signalling"} => Q = <<>>
  /\ pc[Master] = "signalling" => fulfilled_queue # <<>>

\* A thread whose QUIT has been booked takes no further part.
ActiveInv ==
  \A t \in Threads : t \notin active =>
    kind[t] = QUIT /\ pc[t] \in {"ackb", "in_ackb", "unlock_r", "done"}

HandshakeInv == LabelInv /\ RmtxInv /\ BarrierInv /\ TransitInv /\ KindInv

QueueInv == CmtxInv /\ PhaseInv /\ OneRequestPerSleeper /\ NoLostSignal

IInv == TypeOK /\ HandshakeInv /\ ActiveInv /\ QueueInv

-----------------------------------------------------------------------------

USE CountsAssumption, InputAssumption, BoundAssumption

\* Every total a thread may reach is a vector.
LEMMA HoldingsAreVectors ==
  ASSUME NEW t \in Threads, NEW h \in Holdings(t)
  PROVE  h \in Vectors
<1>1. \A j \in Resources : h[j] \in Int
  <2>1. SUFFICES ASSUME NEW j \in Resources PROVE h[j] \in Int
    OBVIOUS
  <2>2. PICK k \in Resources : h[j] \in 0 .. MAX_NEED[t][k]
    BY DEF Holdings
  <2>3. QED
    BY <2>2
<1>2. QED
  BY <1>1 DEF Holdings, Vectors

\* The helpers on vectors return vectors.
LEMMA VectorOperations ==
  ASSUME NEW u \in Vectors, NEW v \in Vectors
  PROVE  /\ u \oplus v \in Vectors
         /\ u \ominus v \in Vectors
         /\ Zero \in Vectors
         /\ Freed(u) \in Vectors
         /\ Wanted(u) \in Vectors
BY DEF Vectors, \oplus, \ominus, Zero, Freed, Wanted

\* The initial state and every step keep the variables in their types; the
\* step is proved action by action below.
LEMMA InitType == Init => TypeOK
<1>1. Zero \in Vectors
  BY DEF Zero, Vectors
<1>2. TOTAL \in Vectors /\ \A t \in Threads : MAX_NEED[t] \in Vectors
  BY DEF Vectors
<1>3. <<>> \in Seq(QueueEntries)
  OBVIOUS
<1>4. QED
  BY <1>1, <1>2, <1>3 DEF Init, TypeOK, Procs, Threads

\* The barriers move threads between program points and nothing else.
LEMMA JoinType ==
  ASSUME TypeOK, NEW p \in Procs, NEW t \in Threads,
         JoinBOS(p) \/ JoinREQB(p) \/ JoinACKB(p, t)
  PROVE  TypeOK'
<1>1. CASE JoinBOS(p)
  <2>1. CASE BOS' = BOS \cup {p} /\ Goto(p, "in_bos")
    BY <1>1, <2>1 DEF TypeOK, JoinBOS, Goto, user, books, queue
  <2>2. CASE BOS' = {} /\ pc' = Released(BOS, p, AfterBOS)
    BY <1>1, <2>2 DEF TypeOK, JoinBOS, Released, AfterBOS, user, books, queue
  <2>3. QED
    BY <1>1, <2>1, <2>2 DEF JoinBOS
<1>2. CASE JoinREQB(p)
  BY <1>2 DEF TypeOK, JoinREQB, Released, AfterREQB, Goto, user, books, queue
<1>3. CASE JoinACKB(p, t)
  <2>1. ACKB' \in [Threads -> SUBSET Procs]
    <3>1. {p} \in SUBSET Procs /\ {} \in SUBSET Procs
      OBVIOUS
    <3>2. ACKB' = [ACKB EXCEPT ![t] = {p}] \/ ACKB' = [ACKB EXCEPT ![t] = {}]
      BY <1>3 DEF JoinACKB
    <3>3. ACKB \in [Threads -> SUBSET Procs]
      BY DEF TypeOK
    <3>4. QED
      BY <3>1, <3>2, <3>3
  <2>2. \A q \in Procs : AfterACKB(q) \in {"unlock_r", "join", "scan", "handle"}
    BY DEF AfterACKB, AfterRequest
  <2>3. pc' \in [Procs -> {"in_ackb", "unlock_r", "join", "scan", "handle"}
                           \cup {pc[q] : q \in Procs}]
    BY <1>3, <2>2 DEF TypeOK, JoinACKB, Released, Goto
  <2>4. QED
    BY <1>3, <2>1, <2>3 DEF TypeOK, JoinACKB, user, books, queue
<1>4. QED
  BY <1>1, <1>2, <1>3

\* A user's steps keep the types.
LEMMA UserType ==
  ASSUME TypeOK, NEW t \in Threads,
         \/ LockRmtx(t) \/ WriteRequest(t) \/ WriteQuit(t) \/ LockCmtx(t)
         \/ UnlockRmtx(t) \/ CondWait(t) \/ Reacquire(t) \/ UnlockCmtx(t)
  PROVE  TypeOK'
<1>0. t \in Procs
  BY DEF Threads, Procs
<1>1. CASE LockRmtx(t)
  BY <1>0, <1>1 DEF TypeOK, LockRmtx, Goto, user, books, queue
<1>2. CASE WriteRequest(t)
  <2>1. PICK h \in Holdings(t) :
          LET r    == h \ominus held[t]
              type == IF \E j \in Resources : r[j] > 0 THEN ADDITIONAL ELSE RELEASE
          IN  /\ g_request' = [type |-> type, thread_id |-> t, request |-> r]
              /\ kind' = [kind EXCEPT ![t] = type]
              /\ held' = [held EXCEPT ![t] = h]
              /\ Goto(t, IF type = ADDITIONAL THEN "lock_c" ELSE "reqb")
    BY <1>2 DEF WriteRequest
  <2> DEFINE r == h \ominus held[t]
             type == IF \E j \in Resources : r[j] > 0 THEN ADDITIONAL ELSE RELEASE
  <2>2. h \in Vectors /\ r \in Vectors /\ type \in {RELEASE, ADDITIONAL}
    BY HoldingsAreVectors, VectorOperations DEF TypeOK
  <2> HIDE DEF r, type
  <2>3. g_request' \in Requests
    <3>1. g_request' = [type |-> type, thread_id |-> t, request |-> r]
      BY <2>1 DEF r, type
    <3>2. QED
      BY <3>1, <2>2 DEF Requests
  <2>4. kind' \in [Threads -> {RELEASE, ADDITIONAL, QUIT}] /\ held' \in [Threads -> Vectors]
    BY <2>1, <2>2 DEF TypeOK, r, type
  <2>5. left' \in [Threads -> Nat]
    BY <1>2 DEF WriteRequest, TypeOK
  <2>6. QED
    BY <1>0, <1>2, <2>1, <2>3, <2>4, <2>5 DEF TypeOK, WriteRequest, Goto, sync, books, queue, r, type
<1>3. CASE WriteQuit(t)
  <2>1. g_request' \in Requests /\ held' \in [Threads -> Vectors]
    BY <1>3 DEF WriteQuit, TypeOK, Requests, Zero, Vectors
  <2>2. QED
    BY <1>0, <1>3, <2>1 DEF TypeOK, WriteQuit, Goto, sync, books, queue
<1>4. CASE LockCmtx(t)
  BY <1>0, <1>4 DEF TypeOK, LockCmtx, Goto, user, books, queue
<1>5. CASE UnlockRmtx(t)
  BY <1>0, <1>5 DEF TypeOK, UnlockRmtx, Goto, user, books, queue
<1>6. CASE CondWait(t)
  BY <1>0, <1>6 DEF TypeOK, CondWait, Goto, user, books, queue
<1>7. CASE Reacquire(t)
  BY <1>0, <1>7 DEF TypeOK, Reacquire, Goto, user, books, queue
<1>8. CASE UnlockCmtx(t)
  BY <1>0, <1>8 DEF TypeOK, UnlockCmtx, Goto, user, books, queue
<1>9. QED
  BY <1>1, <1>2, <1>3, <1>4, <1>5, <1>6, <1>7, <1>8

\* What a request record is made of.
LEMMA RequestFields ==
  ASSUME TypeOK, cur.type \in {RELEASE, ADDITIONAL, QUIT}
  PROVE  cur \in Requests /\ cur.thread_id \in Threads /\ cur.request \in Vectors
<1>1. cur # FREED
  BY DEF FREED, RELEASE, ADDITIONAL, QUIT
<1>2. QED
  BY <1>1 DEF TypeOK, Requests

\* What a release, of its own or with an additional request, does to the books.
LEMMA BookReleasesType ==
  ASSUME TypeOK, BookReleases, cur.type \in {RELEASE, ADDITIONAL}
  PROVE  /\ AVAILABLE' \in Vectors
         /\ ALLOC' \in [Threads -> Vectors] /\ NEED' \in [Threads -> Vectors]
         /\ active' = active /\ terminated_threads' = terminated_threads
<1>1. cur.thread_id \in Threads /\ cur.request \in Vectors
  BY RequestFields
<1>2. Freed(cur.request) \in Vectors
  BY <1>1, VectorOperations
<1>3. /\ AVAILABLE \in Vectors
      /\ ALLOC[cur.thread_id] \in Vectors /\ NEED[cur.thread_id] \in Vectors
  BY <1>1 DEF TypeOK
<1>4. /\ AVAILABLE \oplus Freed(cur.request) \in Vectors
      /\ ALLOC[cur.thread_id] \ominus Freed(cur.request) \in Vectors
      /\ NEED[cur.thread_id] \oplus Freed(cur.request) \in Vectors
  BY <1>2, <1>3, VectorOperations
<1>5. QED
  BY <1>1, <1>4 DEF TypeOK, BookReleases

\* The first entry of a queue and what is left without it.
LEMMA QueueHead ==
  ASSUME NEW q \in Seq(QueueEntries), q # <<>>
  PROVE  /\ Head(q) \in QueueEntries /\ Tail(q) \in Seq(QueueEntries)
         /\ Head(q).thread_id \in Threads /\ Head(q).req \in Vectors
<1>1. Head(q) \in QueueEntries /\ Tail(q) \in Seq(QueueEntries)
  BY HeadTailProperties
<1>2. QED
  BY <1>1 DEF QueueEntries

\* The master's steps keep the types.
LEMMA MasterType ==
  ASSUME TypeOK,
         \/ CopyRequest \/ HandleQuit \/ HandleAdditional \/ HandleRelease
         \/ Grant \/ PassOver \/ EndScan
         \/ SignalLock \/ Signal \/ PutBack \/ Join
  PROVE  TypeOK'
<1>0. Master \in Procs
  BY DEF Master, Procs
<1>1. CASE CopyRequest
  BY <1>0, <1>1 DEF TypeOK, CopyRequest, Goto, sync, user, books, queue
<1>2. CASE HandleQuit
  <2>1. cur.thread_id \in Threads
    BY <1>2, RequestFields DEF HandleQuit
  <2>2. AVAILABLE \oplus ALLOC[cur.thread_id] \in Vectors /\ Zero \in Vectors
    BY <2>1, VectorOperations DEF TypeOK
  <2>3. MAX_NEED[cur.thread_id] \in Vectors
    BY <2>1 DEF Vectors
  <2>4. /\ AVAILABLE' \in Vectors /\ ALLOC' \in [Threads -> Vectors]
        /\ NEED' \in [Threads -> Vectors] /\ active' \in SUBSET Threads
        /\ terminated_threads' \in Int
    BY <1>2, <2>1, <2>2, <2>3 DEF TypeOK, HandleQuit
  <2>5. QED
    BY <1>0, <1>2, <2>4 DEF TypeOK, HandleQuit, Goto, sync, user, queue
<1>3. CASE HandleAdditional
  <2>1. [thread_id |-> cur.thread_id, req |-> Wanted(cur.request)] \in QueueEntries
    BY <1>3, RequestFields, VectorOperations DEF HandleAdditional, QueueEntries
  <2>2. Q' \in Seq(QueueEntries)
    BY <1>3, <2>1 DEF TypeOK, HandleAdditional
  <2>3. QED
    BY <1>0, <1>3, <2>2, BookReleasesType
       DEF TypeOK, HandleAdditional, Goto, AfterRequest, sync, user
<1>4. CASE HandleRelease
  BY <1>0, <1>4, BookReleasesType
     DEF TypeOK, HandleRelease, Goto, AfterRequest, sync, user, queue
<1>5. CASE Grant
  <2>1. /\ Lr \in QueueEntries /\ Tail(Q) \in Seq(QueueEntries)
        /\ Lr.thread_id \in Threads /\ Lr.req \in Vectors
    BY <1>5, QueueHead DEF TypeOK, Grant, Scanning, Lr
  <2>2. /\ AVAILABLE \ominus Lr.req \in Vectors
        /\ ALLOC[Lr.thread_id] \oplus Lr.req \in Vectors
        /\ NEED[Lr.thread_id] \ominus Lr.req \in Vectors
    BY <2>1, VectorOperations DEF TypeOK
  <2>3. /\ AVAILABLE' \in Vectors /\ ALLOC' \in [Threads -> Vectors]
        /\ NEED' \in [Threads -> Vectors]
    BY <1>5, <2>1, <2>2 DEF TypeOK, Grant
  <2>4. fulfilled_queue' \in Seq(QueueEntries) /\ Q' \in Seq(QueueEntries)
    BY <1>5, <2>1 DEF TypeOK, Grant
  <2>5. QED
    BY <1>5, <2>3, <2>4 DEF TypeOK, Grant, sync, user
<1>6. CASE PassOver
  <2>1. Lr \in QueueEntries /\ Tail(Q) \in Seq(QueueEntries)
    BY <1>6, QueueHead DEF TypeOK, PassOver, Scanning, Lr
  <2>2. temp_queue' \in Seq(QueueEntries) /\ Q' \in Seq(QueueEntries)
    BY <1>6, <2>1 DEF TypeOK, PassOver
  <2>3. QED
    BY <1>6, <2>2 DEF TypeOK, PassOver, sync, user, books
<1>7. CASE EndScan
  BY <1>0, <1>7 DEF TypeOK, EndScan, Goto, sync, user, books, queue
<1>8. CASE SignalLock
  BY <1>0, <1>8 DEF TypeOK, SignalLock, Goto, user, books, queue
<1>9. CASE Signal
  <2>1. Tail(fulfilled_queue) \in Seq(QueueEntries)
    BY <1>9, QueueHead DEF TypeOK, Signal
  <2>2. QED
    BY <1>0, <1>9, <2>1 DEF TypeOK, Signal, user, books
<1>10. CASE PutBack
  BY <1>0, <1>10 DEF TypeOK, PutBack, Goto, sync, user, books
<1>11. CASE Join
  BY <1>0, <1>11 DEF TypeOK, Join, Goto, sync, user, books, queue
<1>12. QED
  BY <1>1, <1>2, <1>3, <1>4, <1>5, <1>6, <1>7, <1>8, <1>9, <1>10, <1>11

\* Every step keeps the types.
LEMMA StepType == TypeOK /\ [Next]_vars => TypeOK'
<1>1. SUFFICES ASSUME TypeOK, [Next]_vars PROVE TypeOK'
  OBVIOUS
<1>2. CASE UNCHANGED vars
  BY <1>1, <1>2 DEF TypeOK, vars, sync, user, books, queue
<1>3. CASE MasterStep
  BY <1>1, <1>3, JoinType, MasterType DEF MasterStep, Master, Procs, Threads
<1>4. ASSUME NEW t \in Threads, UserStep(t) PROVE TypeOK'
  <2>1. t \in Procs
    BY DEF Threads, Procs
  <2>2. QED
    BY <1>1, <1>4, <2>1, JoinType, UserType DEF UserStep
<1>5. QED
  BY <1>1, <1>2, <1>3, <1>4 DEF Next, Finished

\* TypeOK holds in every reachable state, whatever the numbers of threads and
\* resources and whatever the request files.
THEOREM TypeCorrect == Spec => []TypeOK
BY InitType, StepType, PTL DEF Spec

-----------------------------------------------------------------------------
(* The handshake.                                                            *)

\* Master is a process of its own, and the request types are distinct.
LEMMA Names ==
  /\ Master \in Procs /\ Master \notin Threads
  /\ Threads \subseteq Procs /\ \A p \in Procs : p = Master \/ p \in Threads
  /\ NOBODY \notin Procs
  /\ RELEASE # ADDITIONAL /\ RELEASE # QUIT /\ ADDITIONAL # QUIT
BY DEF Master, Procs, Threads, NOBODY, RELEASE, ADDITIONAL, QUIT

\* A step that moves one thread to a label of its kind keeps the labels apart.
LEMMA OneMoves ==
  ASSUME TypeOK, LabelInv, NEW p \in Procs,
         NEW label \in (IF p = Master THEN MasterLabels ELSE UserLabels),
         pc' = [pc EXCEPT ![p] = label]
  PROVE  LabelInv'
<1>1. pc = [q \in Procs |-> pc[q]]
  BY DEF TypeOK
<1>2. \A q \in Procs : pc'[q] = IF q = p THEN label ELSE pc[q]
  BY <1>1
<1>3. QED
  BY <1>2, Names DEF LabelInv

\* The invariant of the handshake holds at the start.
LEMMA InitHandshake == Init => HandshakeInv
BY Names DEF Init, HandshakeInv, LabelInv, MasterLabels, UserLabels, RmtxInv,
   Handshaking, BarrierInv, TransitInv, InTransit, KindInv

\* It is kept when a user takes rmtx.
LEMMA LockRmtxHandshake ==
  ASSUME TypeOK, HandshakeInv, NEW t \in Threads, LockRmtx(t)
  PROVE  HandshakeInv'
<1> USE Names DEF HandshakeInv, TypeOK, Goto, sync, user, books, queue
<1>1. LabelInv'
  BY DEF LockRmtx, LabelInv, MasterLabels, UserLabels
<1>2. RmtxInv'
  BY DEF LockRmtx, RmtxInv, Handshaking, LabelInv, MasterLabels, UserLabels
<1>3. BarrierInv'
  BY DEF LockRmtx, BarrierInv, LabelInv, MasterLabels, UserLabels
<1>4. TransitInv'
  BY DEF LockRmtx, TransitInv, InTransit, LabelInv, MasterLabels, UserLabels, RmtxInv, Handshaking, BarrierInv
<1>5. KindInv'
  BY DEF LockRmtx, KindInv, TransitInv, LabelInv, MasterLabels, UserLabels
<1>6. QED
  BY <1>1, <1>2, <1>3, <1>4, <1>5

\* ... when a user writes a request.
LEMMA WriteRequestHandshake ==
  ASSUME TypeOK, HandshakeInv, NEW t \in Threads, WriteRequest(t)
  PROVE  HandshakeInv'
<1> USE Names DEF HandshakeInv, TypeOK, Goto, sync, user, books, queue
<1>1. LabelInv'
  BY DEF WriteRequest, LabelInv, MasterLabels, UserLabels
<1>2. RmtxInv'
  BY DEF WriteRequest, RmtxInv, Handshaking, LabelInv, MasterLabels, UserLabels
<1>3. BarrierInv'
  BY DEF WriteRequest, BarrierInv, LabelInv, MasterLabels, UserLabels
<1>a. g_request' # FREED /\ g_request'.thread_id = t /\ g_request'.type = kind'[t]
  BY DEF WriteRequest, FREED, RELEASE, ADDITIONAL, QUIT
<1>4. TransitInv'
  BY <1>a DEF WriteRequest, TransitInv, InTransit, LabelInv, MasterLabels, UserLabels, RmtxInv, Handshaking, BarrierInv
<1>5. KindInv'
  BY DEF WriteRequest, KindInv, TransitInv, LabelInv, MasterLabels, UserLabels
<1>6. QED
  BY <1>1, <1>2, <1>3, <1>4, <1>5

\* ... when a user writes its QUIT.
LEMMA WriteQuitHandshake ==
  ASSUME TypeOK, HandshakeInv, NEW t \in Threads, WriteQuit(t)
  PROVE  HandshakeInv'
<1> USE Names DEF HandshakeInv, TypeOK, Goto, sync, user, books, queue
<1>1. LabelInv'
  BY DEF WriteQuit, LabelInv, MasterLabels, UserLabels
<1>2. RmtxInv'
  BY DEF WriteQuit, RmtxInv, Handshaking, LabelInv, MasterLabels, UserLabels
<1>3. BarrierInv'
  BY DEF WriteQuit, BarrierInv, LabelInv, MasterLabels, UserLabels
<1>a. g_request' # FREED /\ g_request'.thread_id = t /\ g_request'.type = kind'[t]
  BY DEF WriteQuit, FREED, RELEASE, ADDITIONAL, QUIT
<1>4. TransitInv'
  BY <1>a DEF WriteQuit, TransitInv, InTransit, LabelInv, MasterLabels, UserLabels, RmtxInv, Handshaking, BarrierInv
<1>5. KindInv'
  BY DEF WriteQuit, KindInv, TransitInv, LabelInv, MasterLabels, UserLabels
<1>6. QED
  BY <1>1, <1>2, <1>3, <1>4, <1>5

\* ... when a user takes its cmtx.
LEMMA LockCmtxHandshake ==
  ASSUME TypeOK, HandshakeInv, NEW t \in Threads, LockCmtx(t)
  PROVE  HandshakeInv'
<1> USE Names DEF HandshakeInv, TypeOK, Goto, sync, user, books, queue
<1>1. LabelInv'
  BY DEF LockCmtx, LabelInv, MasterLabels, UserLabels
<1>2. RmtxInv'
  BY DEF LockCmtx, RmtxInv, Handshaking, LabelInv, MasterLabels, UserLabels
<1>3. BarrierInv'
  BY DEF LockCmtx, BarrierInv, LabelInv, MasterLabels, UserLabels
<1>4. TransitInv'
  BY DEF LockCmtx, TransitInv, InTransit, LabelInv, MasterLabels, UserLabels, RmtxInv, Handshaking, BarrierInv
<1>5. KindInv'
  BY DEF LockCmtx, KindInv, TransitInv, LabelInv, MasterLabels, UserLabels
<1>6. QED
  BY <1>1, <1>2, <1>3, <1>4, <1>5

\* ... when a user gives rmtx up.
LEMMA UnlockRmtxHandshake ==
  ASSUME TypeOK, HandshakeInv, NEW t \in Threads, UnlockRmtx(t)
  PROVE  HandshakeInv'
<1> USE Names DEF HandshakeInv, TypeOK, Goto, sync, user, books, queue
<1>1. LabelInv'
  BY DEF UnlockRmtx, LabelInv, MasterLabels, UserLabels
<1>2. RmtxInv'
  BY DEF UnlockRmtx, RmtxInv, Handshaking, LabelInv, MasterLabels, UserLabels
<1>3. BarrierInv'
  BY DEF UnlockRmtx, BarrierInv, LabelInv, MasterLabels, UserLabels
<1>4. TransitInv'
  BY DEF UnlockRmtx, TransitInv, InTransit, LabelInv, MasterLabels, UserLabels, RmtxInv, Handshaking, BarrierInv
<1>5. KindInv'
  BY DEF UnlockRmtx, KindInv, TransitInv, LabelInv, MasterLabels, UserLabels
<1>6. QED
  BY <1>1, <1>2, <1>3, <1>4, <1>5

\* ... when a user goes to sleep or wakes up.
LEMMA SleepHandshake ==
  ASSUME TypeOK, HandshakeInv, NEW t \in Threads, CondWait(t) \/ Reacquire(t) \/ UnlockCmtx(t)
  PROVE  HandshakeInv'
<1>0. \E label \in UserLabels : pc' = [pc EXCEPT ![t] = label]
  BY DEF CondWait, Reacquire, UnlockCmtx, Goto, UserLabels
<1>1. LabelInv'
  BY <1>0, OneMoves, Names DEF HandshakeInv
<1> USE Names DEF HandshakeInv, TypeOK, Goto, sync, user, books, queue
<1>2. RmtxInv'
  BY DEF CondWait, Reacquire, UnlockCmtx, RmtxInv, Handshaking, LabelInv, MasterLabels, UserLabels
<1>3. BarrierInv'
  BY DEF CondWait, Reacquire, UnlockCmtx, BarrierInv, LabelInv, MasterLabels, UserLabels
<1>4. TransitInv'
  BY DEF CondWait, Reacquire, UnlockCmtx, TransitInv, InTransit, LabelInv, MasterLabels, UserLabels, RmtxInv, Handshaking, BarrierInv
<1>5. KindInv'
  BY DEF CondWait, Reacquire, UnlockCmtx, KindInv, TransitInv, LabelInv, MasterLabels, UserLabels
<1>6. QED
  BY <1>1, <1>2, <1>3, <1>4, <1>5

\* ... at the barrier BOS.
LEMMA JoinBOSHandshake ==
  ASSUME TypeOK, HandshakeInv, NEW p \in Procs, JoinBOS(p)
  PROVE  HandshakeInv'
<1> USE Names DEF HandshakeInv
<1>0. /\ pc \in [Procs -> MasterLabels \cup UserLabels]
      /\ ACKB \in [Threads -> SUBSET Procs]
  BY DEF TypeOK, MasterLabels, UserLabels
<1>1. /\ \A q \in Procs : \/ pc'[q] = pc[q]
                          \/ /\ pc[q] \in {"bos", "in_bos"}
                             /\ pc'[q] \in (IF q = Master THEN {"in_bos", "reqb"}
                                                          ELSE {"in_bos", "ready"})
      /\ BOS' = {q \in Procs : pc'[q] = "in_bos"}
      /\ UNCHANGED <<rmtx, REQB, ACKB, kind, cur, g_request>>
  BY <1>0 DEF JoinBOS, Released, AfterBOS, Goto, BarrierInv, user
<1>2. LabelInv'
  BY <1>0, <1>1 DEF LabelInv, MasterLabels, UserLabels
<1>3. RmtxInv'
  BY <1>0, <1>1 DEF RmtxInv, Handshaking, LabelInv, MasterLabels, UserLabels
<1>4. BarrierInv'
  <2>1. \A q \in Procs : /\ pc'[q] = "in_reqb" <=> pc[q] = "in_reqb"
                         /\ pc'[q] = "in_ackb" <=> pc[q] = "in_ackb"
    BY <1>1
  <2>2. QED
    BY <1>1, <2>1 DEF BarrierInv
<1>5. TransitInv'
  BY <1>0, <1>1 DEF TransitInv, InTransit, RmtxInv, Handshaking, BarrierInv, LabelInv, MasterLabels, UserLabels
<1>6. KindInv'
  BY <1>0, <1>1 DEF KindInv, TransitInv, LabelInv, MasterLabels, UserLabels
<1>7. QED
  BY <1>2, <1>3, <1>4, <1>5, <1>6 DEF HandshakeInv

\* ... at the barrier REQB.
LEMMA JoinREQBHandshake ==
  ASSUME TypeOK, HandshakeInv, NEW p \in Procs, JoinREQB(p)
  PROVE  HandshakeInv'
<1> USE Names DEF HandshakeInv
<1>0. /\ pc \in [Procs -> MasterLabels \cup UserLabels]
      /\ ACKB \in [Threads -> SUBSET Procs]
  BY DEF TypeOK, MasterLabels, UserLabels
<1>1. CASE REQB = {}
  <2>1. /\ pc' = [pc EXCEPT ![p] = "in_reqb"] /\ pc[p] = "reqb" /\ REQB' = {p}
        /\ UNCHANGED <<rmtx, BOS, ACKB, kind, cur, g_request>>
    BY <1>1 DEF JoinREQB, Goto, user
  <2>2. LabelInv'
    BY <1>0, <1>1, <2>1 DEF LabelInv, MasterLabels, UserLabels
  <2>3. RmtxInv'
    BY <1>0, <1>1, <2>1 DEF RmtxInv, Handshaking, LabelInv, MasterLabels, UserLabels
  <2>4. BarrierInv'
    BY <1>0, <1>1, <2>1 DEF BarrierInv, LabelInv, MasterLabels, UserLabels
  <2>5. TransitInv'
    BY <1>0, <1>1, <2>1 DEF TransitInv, InTransit, RmtxInv, Handshaking, BarrierInv, LabelInv, MasterLabels, UserLabels
  <2>6. KindInv'
    BY <1>0, <1>1, <2>1 DEF KindInv, TransitInv, LabelInv, MasterLabels, UserLabels
  <2>7. QED
    BY <2>2, <2>3, <2>4, <2>5, <2>6 DEF HandshakeInv
\* The two that meet are the master and the holder of rmtx.
<1>2. CASE REQB # {}
  <2>1. PICK u \in Threads :
          /\ REQB \cup {p} = {Master, u} /\ rmtx = u
          /\ pc[u] \in {"reqb", "in_reqb"} /\ pc[Master] \in {"reqb", "in_reqb"}
    BY <1>0, <1>2 DEF JoinREQB, BarrierInv, RmtxInv, Handshaking
  <2>2. /\ pc' = [q \in Procs |-> IF q = Master THEN "copy"
                                  ELSE IF q = u THEN "ackb" ELSE pc[q]]
        /\ REQB' = {} /\ UNCHANGED <<rmtx, BOS, ACKB, kind, cur, g_request>>
    BY <1>2, <2>1 DEF JoinREQB, Released, AfterREQB, user
  <2>3. \A q \in Procs : pc[q] = "in_reqb" => q = Master \/ q = u
    BY <2>1 DEF BarrierInv
  <2>4. LabelInv'
    BY <1>0, <2>1, <2>2, <2>3 DEF LabelInv, MasterLabels, UserLabels
  <2>5. RmtxInv'
    BY <1>0, <2>1, <2>2, <2>3 DEF RmtxInv, Handshaking, LabelInv, MasterLabels, UserLabels
  <2>6. BarrierInv'
    BY <1>0, <2>1, <2>2, <2>3 DEF BarrierInv, LabelInv, MasterLabels, UserLabels
  <2>7. TransitInv'
    BY <1>0, <2>1, <2>2, <2>3 DEF TransitInv, InTransit, RmtxInv, Handshaking, BarrierInv, LabelInv, MasterLabels, UserLabels
  <2>8. KindInv'
    BY <1>0, <2>1, <2>2, <2>3 DEF KindInv, TransitInv, LabelInv, MasterLabels, UserLabels
  <2>9. QED
    BY <2>4, <2>5, <2>6, <2>7, <2>8 DEF HandshakeInv
<1>3. QED
  BY <1>1, <1>2

\* ... at a barrier ACKB[i].
LEMMA JoinACKBHandshake ==
  ASSUME TypeOK, HandshakeInv, NEW p \in Procs, NEW t \in Threads, JoinACKB(p, t)
  PROVE  HandshakeInv'
<1> USE Names DEF HandshakeInv
<1>0. /\ pc \in [Procs -> MasterLabels \cup UserLabels]
      /\ ACKB \in [Threads -> SUBSET Procs]
  BY DEF TypeOK, MasterLabels, UserLabels
<1>1. /\ rmtx = t /\ InTransit
      /\ pc[Master] # "copy" => cur.thread_id = t /\ cur.type = kind[t]
      /\ pc[t] \in {"ackb", "in_ackb"}
      /\ p = t \/ p = Master
      /\ p = Master => cur.thread_id = t
  BY <1>0 DEF JoinACKB, TransitInv, InTransit, RmtxInv, Handshaking, LabelInv, UserLabels
<1>2. CASE ACKB[t] = {}
  <2>1. /\ pc' = [pc EXCEPT ![p] = "in_ackb"] /\ pc[p] = "ackb"
        /\ ACKB' = [ACKB EXCEPT ![t] = {p}]
        /\ UNCHANGED <<rmtx, BOS, REQB, kind, cur, g_request>>
    BY <1>2 DEF JoinACKB, Goto, user
  <2>2. LabelInv'
    BY <1>0, <1>1, <1>2, <2>1 DEF LabelInv, MasterLabels, UserLabels
  <2>3. RmtxInv'
    BY <1>0, <1>1, <1>2, <2>1 DEF RmtxInv, Handshaking, LabelInv, MasterLabels, UserLabels
  <2>4. BarrierInv'
    BY <1>0, <1>1, <1>2, <2>1 DEF BarrierInv, LabelInv, MasterLabels, UserLabels
  <2>5. TransitInv'
    BY <1>0, <1>1, <1>2, <2>1 DEF TransitInv, InTransit, RmtxInv, Handshaking, BarrierInv, LabelInv, MasterLabels, UserLabels
  <2>6. KindInv'
    BY <1>0, <1>1, <1>2, <2>1 DEF KindInv, TransitInv, LabelInv, MasterLabels, UserLabels
  <2>7. QED
    BY <2>2, <2>3, <2>4, <2>5, <2>6 DEF HandshakeInv
\* The two that meet are the master and the thread it acknowledges.
<1>3. CASE ACKB[t] # {}
  <2>1. /\ ACKB[t] \cup {p} = {Master, t} /\ cur.thread_id = t /\ cur.type = kind[t]
        /\ pc[Master] \in {"ackb", "in_ackb"}
    BY <1>0, <1>1, <1>3, SMTT(30) DEF JoinACKB, BarrierInv
  <2>2. /\ pc' = [q \in Procs |-> IF q = t THEN "unlock_r" ELSE
                     IF q = Master THEN IF cur.type = QUIT THEN AfterRequest ELSE "handle"
                     ELSE pc[q]]
        /\ ACKB' = [ACKB EXCEPT ![t] = {}]
        /\ UNCHANGED <<rmtx, BOS, REQB, kind, cur, g_request>>
    BY <1>3, <2>1 DEF JoinACKB, Released, AfterACKB, user
  <2>3. AfterRequest \in {"join", "scan"} /\ kind[t] \in {RELEASE, ADDITIONAL, QUIT}
    BY DEF AfterRequest, TypeOK
  <2>4. \A u \in Threads : u # t => pc[u] \notin {"ackb", "in_ackb"}
    BY <1>1 DEF RmtxInv, Handshaking
  <2>5. LabelInv'
    BY <1>0, <1>1, <2>1, <2>2, <2>3, <2>4 DEF LabelInv, MasterLabels, UserLabels
  <2>6. RmtxInv'
    BY <1>0, <1>1, <2>1, <2>2, <2>3, <2>4 DEF RmtxInv, Handshaking, LabelInv, MasterLabels, UserLabels
  <2>7. BarrierInv'
    BY <1>0, <1>1, <2>1, <2>2, <2>3, <2>4 DEF BarrierInv, LabelInv, MasterLabels, UserLabels
  <2>8. TransitInv'
    BY <1>0, <1>1, <2>1, <2>2, <2>3, <2>4 DEF TransitInv, InTransit, RmtxInv, Handshaking, BarrierInv, LabelInv, MasterLabels, UserLabels
  <2>9. KindInv'
    BY <1>0, <1>1, <2>1, <2>2, <2>3, <2>4 DEF KindInv, TransitInv, LabelInv, MasterLabels, UserLabels
  <2>10. QED
    BY <2>5, <2>6, <2>7, <2>8, <2>9 DEF HandshakeInv
<1>4. QED
  BY <1>2, <1>3

\* ... when the master copies the request.
LEMMA CopyHandshake ==
  ASSUME TypeOK, HandshakeInv, CopyRequest
  PROVE  HandshakeInv'
<1>0. \E label \in MasterLabels : pc' = [pc EXCEPT ![Master] = label]
  BY DEF CopyRequest, Goto, MasterLabels
<1>1. LabelInv'
  BY <1>0, OneMoves, Names DEF HandshakeInv
<1> USE Names DEF HandshakeInv, TypeOK, Goto, sync, user, books, queue
<1>2. RmtxInv'
  BY DEF CopyRequest, RmtxInv, Handshaking, LabelInv, MasterLabels, UserLabels
<1>3. BarrierInv'
  BY DEF CopyRequest, BarrierInv, LabelInv, MasterLabels, UserLabels
<1>4. TransitInv'
  BY DEF CopyRequest, TransitInv, InTransit, LabelInv, MasterLabels, UserLabels, RmtxInv, Handshaking, BarrierInv
<1>5. KindInv'
  BY DEF CopyRequest, KindInv, TransitInv, LabelInv, MasterLabels, UserLabels
<1>6. QED
  BY <1>1, <1>2, <1>3, <1>4, <1>5

\* ... when the master books it.
LEMMA HandleHandshake ==
  ASSUME TypeOK, HandshakeInv, HandleQuit \/ HandleAdditional \/ HandleRelease
  PROVE  HandshakeInv'
<1>0. \E label \in MasterLabels : pc' = [pc EXCEPT ![Master] = label]
  BY DEF HandleQuit, HandleAdditional, HandleRelease, AfterRequest, Goto, MasterLabels
<1>1. LabelInv'
  BY <1>0, OneMoves, Names DEF HandshakeInv
<1> USE Names DEF HandshakeInv, TypeOK, Goto, sync, user, books, queue
<1>2. RmtxInv'
  BY DEF HandleQuit, HandleAdditional, HandleRelease, AfterRequest, RmtxInv, Handshaking, LabelInv, MasterLabels, UserLabels
<1>3. BarrierInv'
  BY DEF HandleQuit, HandleAdditional, HandleRelease, AfterRequest, BarrierInv, LabelInv, MasterLabels, UserLabels
<1>4. TransitInv'
  BY DEF HandleQuit, HandleAdditional, HandleRelease, AfterRequest, TransitInv, InTransit, LabelInv, MasterLabels, UserLabels, RmtxInv, Handshaking, BarrierInv
<1>5. KindInv'
  BY DEF HandleQuit, HandleAdditional, HandleRelease, AfterRequest, KindInv, TransitInv, LabelInv, MasterLabels, UserLabels
<1>6. QED
  BY <1>1, <1>2, <1>3, <1>4, <1>5

\* ... during the pass over the queue.
LEMMA PassHandshake ==
  ASSUME TypeOK, HandshakeInv, Grant \/ PassOver \/ EndScan \/ SignalLock \/ PutBack \/ Join
  PROVE  HandshakeInv'
<1>0. \/ pc' = pc
      \/ \E label \in MasterLabels : pc' = [pc EXCEPT ![Master] = label]
  BY DEF Grant, PassOver, EndScan, SignalLock, PutBack, Join, Goto, MasterLabels
<1>1. LabelInv'
  BY <1>0, OneMoves, Names DEF HandshakeInv, LabelInv
<1> USE Names DEF HandshakeInv, TypeOK, Goto, sync, user, books, queue
<1>2. RmtxInv'
  BY DEF Grant, PassOver, EndScan, SignalLock, PutBack, Join, Scanning, RmtxInv, Handshaking, LabelInv, MasterLabels, UserLabels
<1>3. BarrierInv'
  BY DEF Grant, PassOver, EndScan, SignalLock, PutBack, Join, Scanning, BarrierInv, LabelInv, MasterLabels, UserLabels
<1>4. TransitInv'
  BY DEF Grant, PassOver, EndScan, SignalLock, PutBack, Join, Scanning, TransitInv, InTransit, LabelInv, MasterLabels, UserLabels, RmtxInv, Handshaking, BarrierInv
<1>5. KindInv'
  BY DEF Grant, PassOver, EndScan, SignalLock, PutBack, Join, Scanning, KindInv, TransitInv, LabelInv, MasterLabels, UserLabels
<1>6. QED
  BY <1>1, <1>2, <1>3, <1>4, <1>5

\* ... when the master signals.
LEMMA SignalHandshake ==
  ASSUME TypeOK, HandshakeInv, Signal
  PROVE  HandshakeInv'
<1>0. /\ pc = [q \in Procs |-> pc[q]]
      /\ \E t \in DOMAIN pc \cup {Head(fulfilled_queue).thread_id} :
           pc' = [pc EXCEPT ![Master] = "signal", ![t] = IF @ = "waiting" THEN "woken" ELSE @]
  BY DEF TypeOK, Signal
<1>1. LabelInv'
  BY <1>0, Names DEF HandshakeInv, LabelInv, MasterLabels, UserLabels
<1> USE Names DEF HandshakeInv, TypeOK, Goto, sync, user, books, queue
<1>2. RmtxInv'
  BY DEF Signal, RmtxInv, Handshaking, LabelInv, MasterLabels, UserLabels
<1>3. BarrierInv'
  BY DEF Signal, BarrierInv, LabelInv, MasterLabels, UserLabels
<1>4. TransitInv'
  BY DEF Signal, TransitInv, InTransit, LabelInv, MasterLabels, UserLabels, RmtxInv, Handshaking, BarrierInv
<1>5. KindInv'
  BY DEF Signal, KindInv, TransitInv, LabelInv, MasterLabels, UserLabels
<1>6. QED
  BY <1>1, <1>2, <1>3, <1>4, <1>5

\* Every step keeps it.
LEMMA StepHandshake == TypeOK /\ HandshakeInv /\ [Next]_vars => HandshakeInv'
<1>1. SUFFICES ASSUME TypeOK, HandshakeInv, [Next]_vars PROVE HandshakeInv'
  OBVIOUS
<1>2. CASE UNCHANGED vars
  BY <1>1, <1>2 DEF vars, sync, user, books, queue, HandshakeInv, LabelInv, RmtxInv,
     BarrierInv, TransitInv, InTransit, KindInv
<1>3. CASE MasterStep
  BY <1>1, <1>3, Names, JoinBOSHandshake, JoinREQBHandshake, JoinACKBHandshake,
     CopyHandshake, HandleHandshake, PassHandshake, SignalHandshake DEF MasterStep
<1>4. ASSUME NEW t \in Threads, UserStep(t) PROVE HandshakeInv'
  BY <1>1, <1>4, Names, JoinBOSHandshake, JoinREQBHandshake, JoinACKBHandshake,
     LockRmtxHandshake, WriteRequestHandshake, WriteQuitHandshake, LockCmtxHandshake,
     UnlockRmtxHandshake, SleepHandshake DEF UserStep
<1>5. QED
  BY <1>1, <1>2, <1>3, <1>4 DEF Next, Finished

\* The record the master copies is never overwritten or freed under it: the
\* writer is still waiting for the acknowledgement and holds rmtx.
THEOREM RequestIsStable == Spec => []RequestStable
<1>1. TypeOK /\ HandshakeInv => RequestStable
  BY DEF HandshakeInv, RequestStable, TransitInv, InTransit
<1>2. QED
  BY <1>1, TypeCorrect, InitHandshake, StepHandshake, PTL DEF Spec

-----------------------------------------------------------------------------
(* The queues and the condition variables.                                   *)

\* What moving an entry does to the threads in line.
LEMMA QueueOperations ==
  ASSUME NEW q \in Seq(QueueEntries), NEW e \in QueueEntries
  PROVE  /\ Distinct(<<>>) /\ \A t \in Threads : ~ HasEntry(<<>>, t)
         /\ \A t \in Threads : HasEntry(Append(q, e), t) <=> HasEntry(q, t) \/ e.thread_id = t
         /\ Distinct(q) /\ ~ HasEntry(q, e.thread_id) => Distinct(Append(q, e))
         /\ q # <<>> =>
              /\ \A t \in Threads :
                   HasEntry(q, t) <=> HasEntry(Tail(q), t) \/ Head(q).thread_id = t
              /\ Distinct(q) =>
                   Distinct(Tail(q)) /\ ~ HasEntry(Tail(q), Head(q).thread_id)
<1>1. Distinct(<<>>) /\ \A t \in Threads : ~ HasEntry(<<>>, t)
  BY DEF Distinct, HasEntry
<1>2. /\ Len(Append(q, e)) = Len(q) + 1 /\ Len(q) \in Nat
      /\ \A i \in 1 .. Len(q) : Append(q, e)[i] = q[i]
      /\ Append(q, e)[Len(q) + 1] = e
  OBVIOUS
<1>3. \A t \in Threads : HasEntry(Append(q, e), t) <=> HasEntry(q, t) \/ e.thread_id = t
  BY <1>2 DEF HasEntry
<1>4. Distinct(q) /\ ~ HasEntry(q, e.thread_id) => Distinct(Append(q, e))
  <2>1. SUFFICES ASSUME Distinct(q), ~ HasEntry(q, e.thread_id),
                        NEW i \in 1 .. Len(q) + 1, NEW k \in 1 .. Len(q) + 1,
                        Append(q, e)[i].thread_id = Append(q, e)[k].thread_id
                 PROVE  i = k
    BY <1>2 DEF Distinct
  <2>2. CASE i \in 1 .. Len(q) /\ k \in 1 .. Len(q)
    BY <1>2, <2>1, <2>2 DEF Distinct
  <2>3. CASE i = Len(q) + 1 /\ k \in 1 .. Len(q)
    BY <1>2, <2>1, <2>3 DEF HasEntry
  <2>4. CASE i \in 1 .. Len(q) /\ k = Len(q) + 1
    BY <1>2, <2>1, <2>4 DEF HasEntry
  <2>5. QED
    BY <1>2, <2>1, <2>2, <2>3, <2>4
<1>5. ASSUME q # <<>>
      PROVE  /\ \A t \in Threads :
                  HasEntry(q, t) <=> HasEntry(Tail(q), t) \/ Head(q).thread_id = t
             /\ Distinct(q) =>
                  Distinct(Tail(q)) /\ ~ HasEntry(Tail(q), Head(q).thread_id)
  <2>1. /\ Len(q) \in Nat \ {0} /\ Len(Tail(q)) = Len(q) - 1 /\ Head(q) = q[1]
        /\ \A i \in 1 .. Len(Tail(q)) : Tail(q)[i] = q[i+1]
    BY <1>5, EmptySeq, HeadTailProperties
  <2>2. \A t \in Threads : HasEntry(q, t) => HasEntry(Tail(q), t) \/ Head(q).thread_id = t
    <3>1. SUFFICES ASSUME NEW t \in Threads, NEW i \in 1 .. Len(q), q[i].thread_id = t, i # 1
                   PROVE  HasEntry(Tail(q), t)
      BY <2>1 DEF HasEntry
    <3>2. i - 1 \in 1 .. Len(Tail(q)) /\ Tail(q)[i-1] = q[i]
      BY <2>1, <3>1
    <3>3. QED
      BY <3>1, <3>2 DEF HasEntry
  <2>3. \A t \in Threads : HasEntry(Tail(q), t) \/ Head(q).thread_id = t => HasEntry(q, t)
    BY <2>1 DEF HasEntry
  <2>4. Distinct(q) => Distinct(Tail(q)) /\ ~ HasEntry(Tail(q), Head(q).thread_id)
    BY <2>1 DEF HasEntry, Distinct
  <2>5. QED
    BY <2>2, <2>3, <2>4
<1>6. QED
  BY <1>1, <1>3, <1>4, <1>5

\* The invariant of the queues holds at the start.
LEMMA InitQueue == Init => QueueInv
BY Names DEF Init, QueueInv, CmtxInv, PhaseInv, OneRequestPerSleeper, NoLostSignal,
   InLine, HasEntry, Distinct, Booking, Sleeping

\* The thread the master signals next is in line and therefore asleep, or
\* still holds its own mutex.
LEMMA SignalledThread ==
  ASSUME TypeOK, HandshakeInv, QueueInv, fulfilled_queue # <<>>
  PROVE  LET t == Head(fulfilled_queue).thread_id
         IN  /\ t \in Threads /\ t # Master /\ HasEntry(fulfilled_queue, t)
             /\ kind[t] = ADDITIONAL
             /\ pc[t] \in {"unlock_r", "cond_wait", "waiting"}
             /\ cmtx[t] = NOBODY => pc[t] = "waiting"
<1> DEFINE t == Head(fulfilled_queue).thread_id
<1>1. t \in Threads
  BY QueueHead DEF TypeOK
<1>2. Head(fulfilled_queue) \in QueueEntries
  BY QueueHead DEF TypeOK
<1>3. HasEntry(fulfilled_queue, t)
  BY <1>1, <1>2, QueueOperations DEF TypeOK
<1>4. Sleeping(t)
  BY <1>1, <1>3 DEF QueueInv, OneRequestPerSleeper, InLine
<1>5. QED
  BY <1>1, <1>3, <1>4, Names DEF Sleeping, QueueInv, CmtxInv

\* It is kept when a user takes rmtx.
LEMMA LockRmtxQueue ==
  ASSUME TypeOK, HandshakeInv, QueueInv, NEW t \in Threads, LockRmtx(t)
  PROVE  QueueInv'
<1> USE Names DEF HandshakeInv, QueueInv, TypeOK, Goto, sync, user, books, queue,
        LabelInv, MasterLabels, UserLabels
<1>1. CmtxInv'
  BY DEF LockRmtx, CmtxInv, KindInv, RmtxInv, Handshaking, PhaseInv
<1>2. PhaseInv'
  BY DEF LockRmtx, PhaseInv
<1>3. OneRequestPerSleeper'
  BY DEF LockRmtx, OneRequestPerSleeper, InLine, Booking, Sleeping, KindInv, PhaseInv, TransitInv, InTransit, RmtxInv, Handshaking
<1>4. NoLostSignal'
  BY DEF LockRmtx, NoLostSignal, PhaseInv, CmtxInv, OneRequestPerSleeper, InLine, Sleeping
<1>5. QED
  BY <1>1, <1>2, <1>3, <1>4

\* ... when a user writes a request.
LEMMA WriteRequestQueue ==
  ASSUME TypeOK, HandshakeInv, QueueInv, NEW t \in Threads, WriteRequest(t)
  PROVE  QueueInv'
<1> USE Names DEF HandshakeInv, QueueInv, TypeOK, Goto, sync, user, books, queue,
        LabelInv, MasterLabels, UserLabels
<1>1. CmtxInv'
  BY DEF WriteRequest, CmtxInv, KindInv, RmtxInv, Handshaking, PhaseInv
<1>2. PhaseInv'
  BY DEF WriteRequest, PhaseInv
<1>3. OneRequestPerSleeper'
  BY DEF WriteRequest, OneRequestPerSleeper, InLine, Booking, Sleeping, KindInv, PhaseInv, TransitInv, InTransit, RmtxInv, Handshaking
<1>4. NoLostSignal'
  BY DEF WriteRequest, NoLostSignal, PhaseInv, CmtxInv, OneRequestPerSleeper, InLine, Sleeping
<1>5. QED
  BY <1>1, <1>2, <1>3, <1>4

\* ... when a user writes its QUIT.
LEMMA WriteQuitQueue ==
  ASSUME TypeOK, HandshakeInv, QueueInv, NEW t \in Threads, WriteQuit(t)
  PROVE  QueueInv'
<1> USE Names DEF HandshakeInv, QueueInv, TypeOK, Goto, sync, user, books, queue,
        LabelInv, MasterLabels, UserLabels
<1>1. CmtxInv'
  BY DEF WriteQuit, CmtxInv, KindInv, RmtxInv, Handshaking, PhaseInv
<1>2. PhaseInv'
  BY DEF WriteQuit, PhaseInv
<1>3. OneRequestPerSleeper'
  BY DEF WriteQuit, OneRequestPerSleeper, InLine, Booking, Sleeping, KindInv, PhaseInv, TransitInv, InTransit, RmtxInv, Handshaking
<1>4. NoLostSignal'
  BY DEF WriteQuit, NoLostSignal, PhaseInv, CmtxInv, OneRequestPerSleeper, InLine, Sleeping
<1>5. QED
  BY <1>1, <1>2, <1>3, <1>4

\* ... when a user takes its cmtx.
LEMMA LockCmtxQueue ==
  ASSUME TypeOK, HandshakeInv, QueueInv, NEW t \in Threads, LockCmtx(t)
  PROVE  QueueInv'
<1> USE Names DEF HandshakeInv, QueueInv, TypeOK, Goto, sync, user, books, queue,
        LabelInv, MasterLabels, UserLabels
<1>1. CmtxInv'
  BY DEF LockCmtx, CmtxInv, KindInv, RmtxInv, Handshaking, PhaseInv
<1>2. PhaseInv'
  BY DEF LockCmtx, PhaseInv
<1>3. OneRequestPerSleeper'
  BY DEF LockCmtx, OneRequestPerSleeper, InLine, Booking, Sleeping, KindInv, PhaseInv, TransitInv, InTransit, RmtxInv, Handshaking
<1>4. NoLostSignal'
  BY DEF LockCmtx, NoLostSignal, PhaseInv, CmtxInv, OneRequestPerSleeper, InLine, Sleeping
<1>5. QED
  BY <1>1, <1>2, <1>3, <1>4

\* ... when a user gives rmtx up.
LEMMA UnlockRmtxQueue ==
  ASSUME TypeOK, HandshakeInv, QueueInv, NEW t \in Threads, UnlockRmtx(t)
  PROVE  QueueInv'
<1> USE Names DEF HandshakeInv, QueueInv, TypeOK, Goto, sync, user, books, queue,
        LabelInv, MasterLabels, UserLabels
<1>1. CmtxInv'
  BY DEF UnlockRmtx, CmtxInv, KindInv, RmtxInv, Handshaking, PhaseInv
<1>2. PhaseInv'
  BY DEF UnlockRmtx, PhaseInv
<1>3. OneRequestPerSleeper'
  BY DEF UnlockRmtx, OneRequestPerSleeper, InLine, Booking, Sleeping, KindInv, PhaseInv, TransitInv, InTransit, RmtxInv, Handshaking
<1>4. NoLostSignal'
  BY DEF UnlockRmtx, NoLostSignal, PhaseInv, CmtxInv, OneRequestPerSleeper, InLine, Sleeping
<1>5. QED
  BY <1>1, <1>2, <1>3, <1>4

\* ... when a user goes to sleep or wakes up.
LEMMA SleepQueue ==
  ASSUME TypeOK, HandshakeInv, QueueInv, NEW t \in Threads, CondWait(t) \/ Reacquire(t) \/ UnlockCmtx(t)
  PROVE  QueueInv'
<1>0. /\ fulfilled_queue' = fulfilled_queue /\ pc[t] # "waiting"
      /\ \A q \in Procs \ {t} : pc'[q] = pc[q]
  BY DEF CondWait, Reacquire, UnlockCmtx, Goto, TypeOK, queue
<1>4. NoLostSignal'
  BY <1>0, SignalledThread, Names DEF NoLostSignal, QueueInv, PhaseInv
<1> USE Names DEF HandshakeInv, QueueInv, TypeOK, Goto, sync, user, books, queue,
        LabelInv, MasterLabels, UserLabels
<1>1. CmtxInv'
  <2>1. CASE CondWait(t)
    BY <2>1 DEF CondWait, CmtxInv, KindInv, RmtxInv, Handshaking, PhaseInv
  <2>2. CASE Reacquire(t)
    BY <2>2 DEF Reacquire, CmtxInv, KindInv, RmtxInv, Handshaking, PhaseInv
  <2>3. CASE UnlockCmtx(t)
    BY <2>3 DEF UnlockCmtx, CmtxInv, KindInv, RmtxInv, Handshaking, PhaseInv
  <2>4. QED
    BY <2>1, <2>2, <2>3
<1>2. PhaseInv'
  BY DEF CondWait, Reacquire, UnlockCmtx, PhaseInv
<1>3. OneRequestPerSleeper'
  BY DEF CondWait, Reacquire, UnlockCmtx, OneRequestPerSleeper, InLine, Booking, Sleeping, KindInv, PhaseInv, TransitInv, InTransit, RmtxInv, Handshaking
<1>5. QED
  BY <1>1, <1>2, <1>3, <1>4

\* ... when the master copies the request.
LEMMA CopyQueue ==
  ASSUME TypeOK, HandshakeInv, QueueInv, CopyRequest
  PROVE  QueueInv'
<1> USE Names DEF HandshakeInv, QueueInv, TypeOK, Goto, sync, user, books, queue,
        LabelInv, MasterLabels, UserLabels
<1>1. CmtxInv'
  BY DEF CopyRequest, CmtxInv, KindInv, RmtxInv, Handshaking, PhaseInv
<1>2. PhaseInv'
  BY DEF CopyRequest, PhaseInv
<1>3. OneRequestPerSleeper'
  BY DEF CopyRequest, OneRequestPerSleeper, InLine, Booking, Sleeping, KindInv, PhaseInv, TransitInv, InTransit, RmtxInv, Handshaking
<1>4. NoLostSignal'
  BY DEF CopyRequest, NoLostSignal, PhaseInv, CmtxInv, OneRequestPerSleeper, InLine, Sleeping
<1>5. QED
  BY <1>1, <1>2, <1>3, <1>4

\* ... when the master books a QUIT.
LEMMA HandleQuitQueue ==
  ASSUME TypeOK, HandshakeInv, QueueInv, HandleQuit
  PROVE  QueueInv'
<1> USE Names DEF HandshakeInv, QueueInv, TypeOK, Goto, sync, user, books, queue,
        LabelInv, MasterLabels, UserLabels
<1>1. CmtxInv'
  BY DEF HandleQuit, CmtxInv, KindInv, RmtxInv, Handshaking, PhaseInv
<1>2. PhaseInv'
  BY DEF HandleQuit, PhaseInv
<1>3. OneRequestPerSleeper'
  BY DEF HandleQuit, OneRequestPerSleeper, InLine, Booking, Sleeping, KindInv, PhaseInv, TransitInv, InTransit, RmtxInv, Handshaking
<1>4. NoLostSignal'
  BY DEF HandleQuit, NoLostSignal, PhaseInv, CmtxInv, OneRequestPerSleeper, InLine, Sleeping
<1>5. QED
  BY <1>1, <1>2, <1>3, <1>4

\* ... when the master books a release.
LEMMA HandleReleaseQueue ==
  ASSUME TypeOK, HandshakeInv, QueueInv, HandleRelease
  PROVE  QueueInv'
<1> USE Names DEF HandshakeInv, QueueInv, TypeOK, Goto, sync, user, books, queue,
        LabelInv, MasterLabels, UserLabels
<1>1. CmtxInv'
  BY DEF HandleRelease, AfterRequest, CmtxInv, KindInv, RmtxInv, Handshaking, PhaseInv
<1>2. PhaseInv'
  BY DEF HandleRelease, AfterRequest, PhaseInv
<1>3. OneRequestPerSleeper'
  BY DEF HandleRelease, AfterRequest, OneRequestPerSleeper, InLine, Booking, Sleeping, KindInv, PhaseInv, TransitInv, InTransit, RmtxInv, Handshaking
<1>4. NoLostSignal'
  BY DEF HandleRelease, AfterRequest, NoLostSignal, PhaseInv, CmtxInv, OneRequestPerSleeper, InLine, Sleeping
<1>5. QED
  BY <1>1, <1>2, <1>3, <1>4

\* ... when the pass ends, a cmtx is taken for a signal, or the users are joined.
LEMMA PassQueue ==
  ASSUME TypeOK, HandshakeInv, QueueInv, EndScan \/ SignalLock \/ Join
  PROVE  QueueInv'
<1>0. \/ pc'[Master] # "signalling"
      \/ /\ fulfilled_queue' = fulfilled_queue /\ fulfilled_queue # <<>>
         /\ cmtx[Head(fulfilled_queue).thread_id] = NOBODY
         /\ \A q \in Procs \ {Master} : pc'[q] = pc[q]
  BY Names DEF EndScan, SignalLock, Join, Goto, TypeOK, queue
<1>4. NoLostSignal'
  BY <1>0, SignalledThread, Names DEF NoLostSignal
<1> USE Names DEF HandshakeInv, QueueInv, TypeOK, Goto, sync, user, books, queue,
        LabelInv, MasterLabels, UserLabels
<1>1. CmtxInv'
  <2>1. CASE EndScan
    BY <2>1 DEF EndScan, CmtxInv, KindInv, RmtxInv, Handshaking, PhaseInv
  <2>2. CASE SignalLock
    BY <2>2 DEF SignalLock, CmtxInv, KindInv, RmtxInv, Handshaking, PhaseInv
  <2>3. CASE Join
    BY <2>3 DEF Join, CmtxInv, KindInv, RmtxInv, Handshaking, PhaseInv
  <2>4. QED
    BY <2>1, <2>2, <2>3
<1>2. PhaseInv'
  BY DEF EndScan, SignalLock, Join, PhaseInv
<1>3. OneRequestPerSleeper'
  BY DEF EndScan, SignalLock, Join, OneRequestPerSleeper, InLine, Booking, Sleeping, KindInv, PhaseInv, TransitInv, InTransit, RmtxInv, Handshaking
<1>5. QED
  BY <1>1, <1>2, <1>3, <1>4

\* ... when what was passed over is put back.
LEMMA PutBackQueue ==
  ASSUME TypeOK, HandshakeInv, QueueInv, PutBack
  PROVE  QueueInv'
<1> USE Names DEF HandshakeInv, QueueInv, TypeOK, Goto, sync, user, books, queue,
        LabelInv, MasterLabels, UserLabels
<1>1. CmtxInv'
  BY DEF PutBack, CmtxInv, KindInv, RmtxInv, Handshaking, PhaseInv
<1>2. PhaseInv'
  BY DEF PutBack, PhaseInv
<1>3. OneRequestPerSleeper'
  BY DEF PutBack, OneRequestPerSleeper, InLine, Booking, Sleeping, KindInv, PhaseInv, TransitInv, InTransit, RmtxInv, Handshaking
<1>4. NoLostSignal'
  BY DEF PutBack, NoLostSignal, PhaseInv, CmtxInv, OneRequestPerSleeper, InLine, Sleeping
<1>5. QED
  BY <1>1, <1>2, <1>3, <1>4

\* ... at the barriers.
LEMMA JoinQueue ==
  ASSUME TypeOK, HandshakeInv, QueueInv, NEW p \in Procs, NEW t \in Threads,
         JoinBOS(p) \/ JoinREQB(p) \/ JoinACKB(p, t)
  PROVE  QueueInv'
<1> USE Names
<1>0. pc \in [Procs -> MasterLabels \cup UserLabels]
  BY DEF TypeOK, MasterLabels, UserLabels
<1>1. UNCHANGED <<rmtx, cmtx, user, g_request, cur, books, queue>>
  BY DEF JoinBOS, JoinREQB, JoinACKB
\* Only the program points of the threads that meet change.
<1>2. /\ pc' \in [Procs -> MasterLabels \cup UserLabels]
      /\ \A u \in Threads :
           \/ pc'[u] = pc[u]
           \/ pc[u] \in {"bos", "in_bos"} /\ pc'[u] \in {"in_bos", "ready"}
           \/ pc[u] \in {"reqb", "in_reqb"} /\ pc'[u] \in {"in_reqb", "ackb"}
           \/ pc[u] \in {"ackb", "in_ackb"} /\ pc'[u] = "in_ackb"
           \/ /\ pc[u] \in {"ackb", "in_ackb"} /\ pc'[u] = "unlock_r"
              /\ cur.thread_id = u /\ cur.type = kind[u]
              /\ pc[Master] # "handle"
              /\ cur.type # QUIT => pc'[Master] = "handle"
      /\ \/ pc'[Master] = pc[Master]
         \/ pc'[Master] = "handle" /\ cur.type # QUIT /\ cur.thread_id \in Threads
            /\ pc[cur.thread_id] \in {"ackb", "in_ackb"} /\ pc'[cur.thread_id] = "unlock_r"
            /\ cur.type = kind[cur.thread_id]
            /\ pc[Master] \in {"ackb", "in_ackb"}
         \/ /\ pc[Master] \in {"bos", "in_bos", "reqb", "in_reqb", "ackb", "in_ackb"}
            /\ pc'[Master] \in {"in_bos", "reqb", "in_reqb", "copy", "in_ackb", "join", "scan"}
  <2>1. CASE JoinBOS(p)
    BY <1>0, <2>1 DEF JoinBOS, Released, AfterBOS, Goto, HandshakeInv, BarrierInv, MasterLabels, UserLabels
  <2>2. CASE JoinREQB(p)
    BY <1>0, <2>2 DEF JoinREQB, Released, AfterREQB, Goto, HandshakeInv, BarrierInv, MasterLabels, UserLabels
  <2>3. CASE JoinACKB(p, t)
    <3>1. /\ rmtx = t /\ InTransit
          /\ pc[Master] # "copy" => cur.thread_id = t /\ cur.type = kind[t]
          /\ pc[t] \in {"ackb", "in_ackb"}
          /\ p = t \/ p = Master
          /\ p = Master => cur.thread_id = t
      BY <1>0, <2>3 DEF JoinACKB, HandshakeInv, TransitInv, InTransit, RmtxInv, Handshaking, LabelInv, UserLabels
    <3>2. CASE ACKB[t] = {}
      BY <1>0, <2>3, <3>1, <3>2 DEF JoinACKB, Goto, MasterLabels, UserLabels
    <3>3. CASE ACKB[t] # {}
      <4>1. /\ ACKB[t] \cup {p} = {Master, t} /\ cur.thread_id = t /\ cur.type = kind[t]
            /\ pc[Master] \in {"ackb", "in_ackb"}
        BY <1>0, <2>3, <3>1, <3>3 DEF JoinACKB, HandshakeInv, BarrierInv
      <4>2. /\ pc' = [q \in Procs |-> IF q = t THEN "unlock_r" ELSE
                       IF q = Master THEN IF cur.type = QUIT THEN AfterRequest ELSE "handle"
                       ELSE pc[q]]
        BY <2>3, <3>3, <4>1 DEF JoinACKB, Released, AfterACKB
      <4>3. AfterRequest \in {"join", "scan"}
        BY DEF AfterRequest
      <4>4. QED
        BY <1>0, <3>1, <4>1, <4>2, <4>3 DEF MasterLabels, UserLabels
    <3>4. QED
      BY <3>2, <3>3
  <2>4. QED
    BY <2>1, <2>2, <2>3
<1>3. CmtxInv'
  BY <1>0, <1>1, <1>2 DEF QueueInv, CmtxInv, HandshakeInv, KindInv, user, queue
<1>4. PhaseInv'
  BY <1>0, <1>1, <1>2 DEF QueueInv, PhaseInv, queue
<1>5. OneRequestPerSleeper'
  BY <1>0, <1>1, <1>2 DEF QueueInv, OneRequestPerSleeper, InLine, Booking, Sleeping, user, queue
<1>6. NoLostSignal'
  <2>1. pc'[Master] = "signalling" => pc[Master] = "signalling"
    BY <1>2
  <2>2. QED
    BY <1>1, <1>2, <2>1, SignalledThread DEF QueueInv, NoLostSignal, PhaseInv, queue
<1>7. QED
  BY <1>3, <1>4, <1>5, <1>6 DEF QueueInv

\* Every step keeps what is known of the threads seen off.
LEMMA StepActive ==
  TypeOK /\ HandshakeInv /\ ActiveInv /\ [Next]_vars => ActiveInv'
<1> SUFFICES ASSUME TypeOK, HandshakeInv, ActiveInv, [Next]_vars PROVE ActiveInv'
  OBVIOUS
<1> USE Names
<1>1. pc \in [Procs -> MasterLabels \cup UserLabels] /\ kind \in [Threads -> {RELEASE, ADDITIONAL, QUIT}]
  BY DEF TypeOK, MasterLabels, UserLabels
<1>2. CASE UNCHANGED vars
  BY <1>2 DEF vars, user, books, ActiveInv
<1>3. CASE HandleQuit
  BY <1>1, <1>3 DEF HandleQuit, ActiveInv, Goto, user, HandshakeInv, TransitInv, InTransit
<1>4. CASE HandleAdditional \/ HandleRelease
  BY <1>1, <1>4 DEF HandleAdditional, HandleRelease, BookReleases, ActiveInv, Goto, user
<1>5. CASE CopyRequest \/ EndScan \/ SignalLock \/ PutBack \/ Join
  BY <1>1, <1>5 DEF CopyRequest, EndScan, SignalLock, PutBack, Join, ActiveInv, Goto, user, books
<1>6. CASE Grant \/ PassOver
  BY <1>1, <1>6 DEF Grant, PassOver, ActiveInv, user, books
<1>7. CASE Signal
  BY <1>1, <1>7 DEF Signal, ActiveInv, user, books
<1>8. ASSUME NEW t \in Threads,
             \/ LockRmtx(t) \/ WriteRequest(t) \/ WriteQuit(t) \/ LockCmtx(t)
             \/ UnlockRmtx(t) \/ CondWait(t) \/ Reacquire(t) \/ UnlockCmtx(t)
      PROVE  ActiveInv'
  BY <1>1, <1>8 DEF LockRmtx, WriteRequest, WriteQuit, LockCmtx, UnlockRmtx, CondWait,
     Reacquire, UnlockCmtx, ActiveInv, Goto, user, books
<1>9. ASSUME NEW p \in Procs, JoinBOS(p) \/ JoinREQB(p) PROVE ActiveInv'
  BY <1>1, <1>9 DEF JoinBOS, JoinREQB, Released, AfterBOS, AfterREQB, Goto, ActiveInv,
     HandshakeInv, BarrierInv, user, books
<1>10. ASSUME NEW p \in Procs, NEW t \in Threads, JoinACKB(p, t) PROVE ActiveInv'
  BY <1>1, <1>10 DEF JoinACKB, Released, AfterACKB, Goto, ActiveInv,
     HandshakeInv, BarrierInv, user, books
<1>11. QED
  BY <1>2, <1>3, <1>4, <1>5, <1>6, <1>7, <1>8, <1>9, <1>10
     DEF Next, MasterStep, UserStep, Finished

\* The thread whose additional request is booked gets in line.
LEMMA HandleAdditionalQueue ==
  ASSUME TypeOK, HandshakeInv, QueueInv, HandleAdditional
  PROVE  QueueInv'
<1> USE Names
<1> DEFINE u == cur.thread_id
           e == [thread_id |-> u, req |-> Wanted(cur.request)]
<1>1. u \in Threads /\ e \in QueueEntries /\ e.thread_id = u /\ Q \in Seq(QueueEntries)
  BY RequestFields, VectorOperations DEF HandleAdditional, QueueEntries, TypeOK
<1>2. /\ pc[Master] = "handle" /\ cur.type = ADDITIONAL
      /\ pc' = [pc EXCEPT ![Master] = AfterRequest] /\ AfterRequest \in {"join", "scan"}
      /\ Q' = Append(Q, e)
      /\ UNCHANGED <<cmtx, kind, cur, temp_queue, fulfilled_queue>>
  BY DEF HandleAdditional, AfterRequest, Goto, sync, user
<1>3. pc \in [Procs -> MasterLabels \cup UserLabels]
  BY DEF TypeOK, MasterLabels, UserLabels
<1>4. ~ HasEntry(Q, u) /\ ~ InLine(u)
  BY <1>1, <1>2 DEF QueueInv, OneRequestPerSleeper, Booking, InLine
<1> HIDE DEF e
<1>5. Distinct(Q') /\ \A t \in Threads : HasEntry(Q', t) <=> HasEntry(Q, t) \/ t = u
  BY <1>1, <1>2, <1>4, QueueOperations DEF QueueInv, OneRequestPerSleeper
<1>6. CmtxInv'
  BY <1>1, <1>2, <1>3 DEF QueueInv, CmtxInv
<1>7. PhaseInv'
  BY <1>2, <1>3 DEF QueueInv, PhaseInv
<1>8. OneRequestPerSleeper'
  BY <1>1, <1>2, <1>3, <1>4, <1>5
     DEF QueueInv, OneRequestPerSleeper, InLine, Booking, Sleeping
<1>9. NoLostSignal'
  BY <1>2, <1>3 DEF NoLostSignal
<1>10. QED
  BY <1>6, <1>7, <1>8, <1>9 DEF QueueInv

\* The pass moves the first entry of Q to one of the other queues.
LEMMA ServeQueue ==
  ASSUME TypeOK, HandshakeInv, ActiveInv, QueueInv, Grant \/ PassOver
  PROVE  QueueInv'
<1> USE Names
<1>1. /\ Lr \in QueueEntries /\ Lr.thread_id \in Threads /\ Q # <<>>
      /\ Q \in Seq(QueueEntries) /\ temp_queue \in Seq(QueueEntries)
      /\ fulfilled_queue \in Seq(QueueEntries)
  BY QueueHead DEF Grant, PassOver, Scanning, Lr, TypeOK
<1>2. /\ Distinct(Tail(Q)) /\ ~ HasEntry(Tail(Q), Lr.thread_id)
      /\ \A t \in Threads : HasEntry(Q, t) <=> HasEntry(Tail(Q), t) \/ t = Lr.thread_id
  BY <1>1, QueueOperations DEF QueueInv, OneRequestPerSleeper, Lr
<1>3. Sleeping(Lr.thread_id)
  BY <1>1, <1>2 DEF QueueInv, OneRequestPerSleeper, InLine
<1>4. Lr.thread_id \in active
  BY <1>1, <1>3 DEF ActiveInv, Sleeping
<1>5. /\ pc[Master] = "scan" /\ Q' = Tail(Q) /\ UNCHANGED <<pc, cmtx, kind, cur>>
      /\ \/ temp_queue' = temp_queue /\ fulfilled_queue' = Append(fulfilled_queue, Lr)
         \/ temp_queue' = Append(temp_queue, Lr) /\ fulfilled_queue' = fulfilled_queue
  BY <1>4 DEF Grant, PassOver, Scanning, sync, user
<1>6. ~ HasEntry(temp_queue, Lr.thread_id) /\ ~ HasEntry(fulfilled_queue, Lr.thread_id)
  BY <1>1, <1>2 DEF QueueInv, OneRequestPerSleeper
<1>7. \A q \in {temp_queue, fulfilled_queue} :
        Distinct(q) => /\ Distinct(Append(q, Lr))
                       /\ \A t \in Threads :
                            HasEntry(Append(q, Lr), t) <=> HasEntry(q, t) \/ t = Lr.thread_id
  BY <1>1, <1>6, QueueOperations
<1>8. OneRequestPerSleeper'
  <2>1. CASE temp_queue' = temp_queue /\ fulfilled_queue' = Append(fulfilled_queue, Lr)
    BY <1>1, <1>2, <1>5, <1>6, <1>7, <2>1
       DEF QueueInv, OneRequestPerSleeper, InLine, Booking, Sleeping
  <2>2. CASE temp_queue' = Append(temp_queue, Lr) /\ fulfilled_queue' = fulfilled_queue
    BY <1>1, <1>2, <1>5, <1>6, <1>7, <2>2
       DEF QueueInv, OneRequestPerSleeper, InLine, Booking, Sleeping
  <2>3. QED
    BY <1>5, <2>1, <2>2
<1>9. CmtxInv' /\ PhaseInv' /\ NoLostSignal'
  BY <1>5 DEF QueueInv, CmtxInv, PhaseInv, NoLostSignal
<1>10. QED
  BY <1>8, <1>9 DEF QueueInv

\* The signal takes its thread out of line and wakes it.
LEMMA SignalQueue ==
  ASSUME TypeOK, HandshakeInv, QueueInv, Signal
  PROVE  QueueInv'
<1> USE Names
<1> DEFINE t == Head(fulfilled_queue).thread_id
<1>1. fulfilled_queue # <<>> /\ pc[Master] = "signalling" /\ Q = <<>>
  BY DEF Signal, QueueInv, PhaseInv
<1>2. t \in Threads /\ t # Master /\ kind[t] = ADDITIONAL /\ pc[t] = "waiting"
  BY <1>1, SignalledThread DEF QueueInv, NoLostSignal
<1>3. /\ pc' = [pc EXCEPT ![Master] = "signal", ![t] = "woken"]
      /\ cmtx' = [cmtx EXCEPT ![t] = NOBODY]
      /\ fulfilled_queue' = Tail(fulfilled_queue)
      /\ UNCHANGED <<kind, cur, Q, temp_queue>>
  <2>1. [pc EXCEPT ![Master] = "signal"][t] = "waiting"
    BY <1>2 DEF TypeOK
  <2>2. QED
    BY <1>2, <2>1 DEF Signal, user, TypeOK
<1>4. /\ Distinct(fulfilled_queue') /\ ~ HasEntry(fulfilled_queue', t)
      /\ \A u \in Threads :
           HasEntry(fulfilled_queue, u) <=> HasEntry(fulfilled_queue', u) \/ u = t
  <2>1. Head(fulfilled_queue) \in QueueEntries /\ fulfilled_queue \in Seq(QueueEntries)
    BY <1>1, QueueHead DEF TypeOK
  <2>2. QED
    BY <1>1, <1>3, <2>1, QueueOperations DEF QueueInv, OneRequestPerSleeper
<1>5. pc \in [Procs -> MasterLabels \cup UserLabels] /\ cmtx \in [Threads -> Procs \cup {NOBODY}]
  BY DEF TypeOK, MasterLabels, UserLabels
<1> HIDE DEF t
<1>6. CmtxInv'
  <2>1. \A u \in Threads : cmtx[u] = Master <=> u = t
    BY <1>1, <1>2 DEF QueueInv, CmtxInv, t
  <2>2. QED
    BY <1>2, <1>3, <1>5, <2>1 DEF QueueInv, CmtxInv
<1>7. PhaseInv' /\ NoLostSignal'
  BY <1>1, <1>2, <1>3, <1>5 DEF QueueInv, PhaseInv, NoLostSignal
<1>8. OneRequestPerSleeper'
  BY <1>1, <1>2, <1>3, <1>4, <1>5
     DEF QueueInv, OneRequestPerSleeper, InLine, Booking, Sleeping
<1>9. QED
  BY <1>6, <1>7, <1>8 DEF QueueInv

\* Every step keeps the invariant of the queues.
LEMMA StepQueue ==
  TypeOK /\ HandshakeInv /\ ActiveInv /\ QueueInv /\ [Next]_vars => QueueInv'
<1>1. SUFFICES ASSUME TypeOK, HandshakeInv, ActiveInv, QueueInv, [Next]_vars
               PROVE  QueueInv'
  OBVIOUS
<1>2. CASE UNCHANGED vars
  BY <1>1, <1>2 DEF vars, sync, user, queue, QueueInv, CmtxInv, PhaseInv,
     OneRequestPerSleeper, NoLostSignal, InLine, Booking, Sleeping
<1>3. CASE MasterStep
  <2>1. CASE JoinBOS(Master) \/ JoinREQB(Master)
    <3>1. 0 \in Threads
      BY CountsAssumption DEF Threads
    <3>2. QED
      BY <1>1, <2>1, <3>1, Names, JoinQueue
  <2>2. CASE \E t \in Threads : JoinACKB(Master, t)
    BY <1>1, <2>2, Names, JoinQueue
  <2>3. CASE CopyRequest \/ HandleQuit \/ HandleAdditional \/ HandleRelease
    BY <1>1, <2>3, CopyQueue, HandleQuitQueue, HandleAdditionalQueue, HandleReleaseQueue
  <2>4. CASE Grant \/ PassOver
    BY <1>1, <2>4, ServeQueue
  <2>5. CASE EndScan \/ SignalLock \/ Join
    BY <1>1, <2>5, PassQueue
  <2>6. CASE Signal \/ PutBack
    BY <1>1, <2>6, SignalQueue, PutBackQueue
  <2>7. QED
    BY <1>3, <2>1, <2>2, <2>3, <2>4, <2>5, <2>6 DEF MasterStep
<1>4. ASSUME NEW t \in Threads, UserStep(t) PROVE QueueInv'
  <2>1. CASE JoinBOS(t) \/ JoinREQB(t) \/ JoinACKB(t, t)
    BY <1>1, <2>1, Names, JoinQueue
  <2>2. CASE LockRmtx(t) \/ WriteRequest(t) \/ WriteQuit(t)
    BY <1>1, <2>2, LockRmtxQueue, WriteRequestQueue, WriteQuitQueue
  <2>3. CASE LockCmtx(t) \/ UnlockRmtx(t)
    BY <1>1, <2>3, LockCmtxQueue, UnlockRmtxQueue
  <2>4. CASE CondWait(t) \/ Reacquire(t) \/ UnlockCmtx(t)
    BY <1>1, <2>4, SleepQueue
  <2>5. QED
    BY <1>4, <2>1, <2>2, <2>3, <2>4 DEF UserStep
<1>5. QED
  BY <1>1, <1>2, <1>3, <1>4 DEF Next, Finished

\* The invariant of handshake and queues holds in every reachable state.
LEMMA Inductive == Spec => []IInv
<1>1. Init => ActiveInv
  BY DEF Init, ActiveInv
<1>2. QED
  BY <1>1, TypeCorrect, InitHandshake, InitQueue, StepHandshake, StepActive, StepQueue,
     PTL DEF Spec, IInv

\* The master never signals a thread that is not asleep: no signal is lost.
THEOREM SignalsArrive == Spec => []NoLostSignal
BY Inductive, PTL DEF IInv, QueueInv

\* A thread sleeps exactly while one request of its is in the queues.
THEOREM SleepersAreInLine == Spec => []OneRequestPerSleeper
BY Inductive, PTL DEF IInv, QueueInv

-----------------------------------------------------------------------------
(* The books: what each thread holds by its file, by the master's tables and *)
(* by the requests that are on their way between the two.                    *)

\* The master has taken t's request and has not booked it.
Carrying(t) ==
  /\ pc[Master] \in {"ackb", "in_ackb", "handle"} /\ cur.type \in {RELEASE, ADDITIONAL}
  /\ cur.thread_id = t

\* t has written a request the master has not taken.
Written(t) ==
  \/ pc[t] \in {"lock_c", "reqb", "in_reqb"}
  \/ pc[Master] = "copy" /\ rmtx = t

\* The requests that have been booked and not granted.
Pending == Entries(Q) \cup Entries(temp_queue)

Waiting(t) == \E e \in Pending : e.thread_id = t

\* d is what t will hold by the tables when its requests have been booked and granted.
Due(t, d) ==
  /\ Carrying(t) => d = ALLOC[t] \oplus cur.request
  /\ \A e \in Pending : e.thread_id = t => d = ALLOC[t] \oplus e.req
  /\ ~ Carrying(t) /\ ~ Waiting(t) => d = ALLOC[t]

DueInv ==
  \A t \in Threads : \E d \in Vectors :
    /\ Due(t, d) /\ Zero \preceq d /\ d \preceq MAX_NEED[t]
    /\ kind[t] # QUIT => held[t] = IF Written(t) THEN d \oplus g_request.request ELSE d

\* What a thread holds by its file is within its maximum; a thread that has sent QUIT
\* sends nothing more, and a release asks for nothing.
FileInv ==
  \A t \in Threads :
    /\ Zero \preceq held[t] /\ held[t] \preceq MAX_NEED[t]
    /\ kind[t] = QUIT => pc[t] \in {"reqb", "in_reqb", "ackb", "in_ackb", "unlock_r", "done"}
    /\ Written(t) /\ g_request.type = RELEASE => g_request.request \preceq Zero
    /\ Carrying(t) /\ cur.type = RELEASE => cur.request \preceq Zero

BookInv == FileInv /\ DueInv /\ Conservation /\ NeedBalances /\ NoOverdraft

-----------------------------------------------------------------------------

\* The entries of a queue, as a set.
LEMMA EntryOperations ==
  ASSUME NEW q \in Seq(QueueEntries), NEW e \in QueueEntries
  PROVE  /\ Entries(<<>>) = {} /\ Entries(q) \subseteq QueueEntries
         /\ Entries(Append(q, e)) = Entries(q) \cup {e}
         /\ q # <<>> => Entries(q) = {Head(q)} \cup Entries(Tail(q))
         /\ \A t \in Threads : HasEntry(q, t) <=> \E x \in Entries(q) : x.thread_id = t
<1>1. Entries(<<>>) = {} /\ Entries(q) \subseteq QueueEntries
  BY DEF Entries
<1>2. /\ Len(Append(q, e)) = Len(q) + 1 /\ Len(q) \in Nat
      /\ \A i \in 1 .. Len(q) : Append(q, e)[i] = q[i]
      /\ Append(q, e)[Len(q) + 1] = e
  OBVIOUS
<1>3. Entries(Append(q, e)) = Entries(q) \cup {e}
  BY <1>2 DEF Entries
<1>4. ASSUME q # <<>> PROVE Entries(q) = {Head(q)} \cup Entries(Tail(q))
  <2>1. /\ Len(q) \in Nat \ {0} /\ Len(Tail(q)) = Len(q) - 1 /\ Head(q) = q[1]
        /\ \A i \in 1 .. Len(Tail(q)) : Tail(q)[i] = q[i+1]
    BY <1>4, EmptySeq, HeadTailProperties
  <2>2. ASSUME NEW i \in 1 .. Len(q), i # 1 PROVE q[i] \in Entries(Tail(q))
    <3>1. i - 1 \in 1 .. Len(Tail(q)) /\ Tail(q)[i-1] = q[i]
      BY <2>1, <2>2
    <3>2. QED
      BY <3>1 DEF Entries
  <2>3. ASSUME NEW i \in 1 .. Len(Tail(q)) PROVE Tail(q)[i] \in Entries(q)
    BY <2>1 DEF Entries
  <2>4. Head(q) \in Entries(q)
    BY <2>1 DEF Entries
  <2>5. Entries(Tail(q)) \subseteq Entries(q)
    BY <2>3 DEF Entries
  <2>6. Entries(q) \subseteq {Head(q)} \cup Entries(Tail(q))
    <3>1. SUFFICES ASSUME NEW i \in 1 .. Len(q)
                   PROVE  q[i] \in {Head(q)} \cup Entries(Tail(q))
      BY DEF Entries
    <3>2. QED
      BY <2>1, <2>2
  <2>7. QED
    BY <2>4, <2>5, <2>6
<1>5. \A t \in Threads : HasEntry(q, t) <=> \E x \in Entries(q) : x.thread_id = t
  BY DEF HasEntry, Entries
<1>6. QED
  BY <1>1, <1>3, <1>4, <1>5

\* Two vectors are equal when they agree on every resource.
LEMMA VectorsEqual ==
  ASSUME NEW u \in Vectors, NEW v \in Vectors, \A j \in Resources : u[j] = v[j]
  PROVE  u = v
BY DEF Vectors

\* A waiting thread sleeps: it is live and its requests are behind it.
LEMMA WaitingSleeps ==
  ASSUME TypeOK, QueueInv, ActiveInv
  PROVE  /\ Pending \subseteq QueueEntries
         /\ \A t \in Threads :
              /\ Waiting(t) <=> HasEntry(Q, t) \/ HasEntry(temp_queue, t)
              /\ Waiting(t) => Sleeping(t) /\ ~ Booking(t) /\ t \in active
<1>1. Q \in Seq(QueueEntries) /\ temp_queue \in Seq(QueueEntries)
  BY DEF TypeOK
<1>2. /\ Entries(Q) \subseteq QueueEntries /\ Entries(temp_queue) \subseteq QueueEntries
      /\ \A t \in Threads :
           /\ HasEntry(Q, t) <=> \E x \in Entries(Q) : x.thread_id = t
           /\ HasEntry(temp_queue, t) <=> \E x \in Entries(temp_queue) : x.thread_id = t
  <2>1. PICK e : e \in QueueEntries
    <3>1. [thread_id |-> 0, req |-> Zero] \in QueueEntries
      BY CountsAssumption DEF QueueEntries, Threads, Vectors, Zero
    <3>2. QED
      BY <3>1
  <2>2. QED
    BY <1>1, <2>1, EntryOperations
<1>3. ASSUME NEW t \in Threads
      PROVE  Waiting(t) <=> HasEntry(Q, t) \/ HasEntry(temp_queue, t)
  BY <1>2 DEF Waiting, Pending
<1>4. ASSUME NEW t \in Threads, HasEntry(Q, t) \/ HasEntry(temp_queue, t)
      PROVE  Sleeping(t) /\ ~ Booking(t) /\ t \in active
  BY <1>4 DEF QueueInv, OneRequestPerSleeper, InLine, Sleeping, ActiveInv, QUIT, ADDITIONAL
<1>5. QED
  BY <1>2, <1>3, <1>4 DEF Pending

\* Where neither the pool nor the table changes, no sum does.
LEMMA ConservationKept ==
  ASSUME Conservation, AVAILABLE' = AVAILABLE, ALLOC' = ALLOC
  PROVE  Conservation'
<1>1. \A j \in Resources : TotalAllocated(j) = Totals(ALLOC, j)[n]
  BY DEF TotalAllocated, Totals
<1>2. \A j \in Resources : TotalAllocated(j)' = Totals(ALLOC', j)[n]
  BY DEF TotalAllocated, Totals
<1>3. QED
  BY <1>1, <1>2 DEF Conservation

\* A step that leaves the books and the requests as they are.
LEMMA QuietStep ==
  ASSUME BookInv, UNCHANGED <<held, kind, g_request, AVAILABLE, ALLOC, NEED>>,
         Pending' = Pending,
         \A t \in Threads :
           /\ Carrying(t)' <=> Carrying(t)
           /\ Carrying(t) => cur' = cur
           /\ Written(t)' <=> Written(t)
           /\ kind[t] = QUIT =>
                pc'[t] \in {"reqb", "in_reqb", "ackb", "in_ackb", "unlock_r", "done"}
  PROVE  BookInv'
<1>1. FileInv'
  BY DEF BookInv, FileInv
<1>2. DueInv'
  <2>1. SUFFICES ASSUME NEW t \in Threads
                 PROVE  \E d \in Vectors :
                   /\ Due(t, d)' /\ Zero \preceq d /\ d \preceq MAX_NEED[t]
                   /\ kind'[t] # QUIT =>
                        held'[t] = IF Written(t)' THEN d \oplus g_request'.request ELSE d
    BY DEF DueInv
  <2>2. PICK d \in Vectors :
           /\ Due(t, d) /\ Zero \preceq d /\ d \preceq MAX_NEED[t]
           /\ kind[t] # QUIT => held[t] = IF Written(t) THEN d \oplus g_request.request ELSE d
    BY DEF BookInv, DueInv
  <2>3. Due(t, d)'
    BY <2>2 DEF Due, Waiting
  <2>4. QED
    BY <2>2, <2>3
<1>3. Conservation' /\ NeedBalances' /\ NoOverdraft'
  BY ConservationKept DEF BookInv, NeedBalances, NoOverdraft
<1>4. QED
  BY <1>1, <1>2, <1>3 DEF BookInv

\* A user thread that only takes or leaves a mutex, sleeps or wakes.
LEMMA QuietUserSteps ==
  ASSUME TypeOK, HandshakeInv, BookInv, NEW t \in Threads,
         \/ LockRmtx(t) \/ LockCmtx(t) \/ UnlockRmtx(t)
         \/ CondWait(t) \/ Reacquire(t) \/ UnlockCmtx(t)
  PROVE  BookInv'
<1> USE Names
<1>1. /\ UNCHANGED <<held, kind, g_request, cur, AVAILABLE, ALLOC, NEED, Q, temp_queue>>
      /\ \E label : pc' = [pc EXCEPT ![t] = label]
  BY DEF LockRmtx, LockCmtx, UnlockRmtx, CondWait, Reacquire, UnlockCmtx, Goto,
     user, books, queue
<1>2. pc \in [Procs -> MasterLabels \cup UserLabels] /\ kind \in [Threads -> {RELEASE, ADDITIONAL, QUIT}]
  BY DEF TypeOK, MasterLabels, UserLabels
<1>3. pc'[Master] = pc[Master] /\ Pending' = Pending
  BY <1>1, <1>2 DEF Pending, Entries
<1>4. ASSUME NEW u \in Threads
      PROVE  /\ Carrying(u)' <=> Carrying(u)
             /\ Written(u)' <=> Written(u)
  BY <1>1, <1>2, <1>3 DEF Carrying, Written, LockRmtx, LockCmtx, UnlockRmtx, CondWait,
     Reacquire, UnlockCmtx, Goto, HandshakeInv, TransitInv, InTransit, RmtxInv, Handshaking
<1>5. ASSUME NEW u \in Threads, kind[u] = QUIT
      PROVE  pc'[u] \in {"reqb", "in_reqb", "ackb", "in_ackb", "unlock_r", "done"}
  BY <1>2, <1>5 DEF BookInv, FileInv, LockRmtx, LockCmtx, UnlockRmtx, CondWait,
     Reacquire, UnlockCmtx, Goto, QUIT, RELEASE, ADDITIONAL
<1>6. QED
  BY <1>1, <1>3, <1>4, <1>5, QuietStep

\* The barriers leave the books alone.
LEMMA QuietJoins ==
  ASSUME TypeOK, HandshakeInv, BookInv, NEW p \in Procs, NEW t \in Threads,
         JoinBOS(p) \/ JoinREQB(p) \/ JoinACKB(p, t), p = Master \/ p = t
  PROVE  BookInv'
<1> USE Names
<1>1. UNCHANGED <<held, kind, g_request, cur, AVAILABLE, ALLOC, NEED, Q, temp_queue, rmtx>>
  BY DEF JoinBOS, JoinREQB, JoinACKB, user, books, queue
<1>2. pc \in [Procs -> MasterLabels \cup UserLabels] /\ kind \in [Threads -> {RELEASE, ADDITIONAL, QUIT}]
  BY DEF TypeOK, MasterLabels, UserLabels
<1>3. Pending' = Pending
  BY <1>1 DEF Pending, Entries
<1>4. CASE JoinBOS(p)
  <2>1. \A q \in Procs : \/ pc'[q] = pc[q]
                         \/ pc[q] = "bos" /\ pc'[q] = "in_bos"
                         \/ pc[q] \in {"bos", "in_bos"} /\ pc'[q] = AfterBOS(q)
    BY <1>2, <1>4 DEF JoinBOS, Released, Goto, HandshakeInv, BarrierInv
  <2>2. \A u \in Threads :
           /\ Carrying(u)' <=> Carrying(u)
           /\ Written(u)' <=> Written(u)
    BY <1>1, <2>1 DEF Carrying, Written, AfterBOS
  <2>3. \A u \in Threads : kind[u] = QUIT =>
           pc'[u] \in {"reqb", "in_reqb", "ackb", "in_ackb", "unlock_r", "done"}
    BY <2>1 DEF BookInv, FileInv, AfterBOS
  <2>4. QED
    BY <1>1, <1>3, <2>2, <2>3, QuietStep
<1>5. CASE JoinREQB(p)
  <2>1. \/ pc[p] = "reqb" /\ pc' = [pc EXCEPT ![p] = "in_reqb"]
        \/ \E u \in Threads :
             /\ {pc[u], pc[Master]} = {"reqb", "in_reqb"}
             /\ pc' = [pc EXCEPT ![u] = "ackb", ![Master] = "copy"]
             /\ rmtx = u
    <3>1. SUFFICES ASSUME REQB # {}
                   PROVE  \E u \in Threads :
                             /\ {pc[u], pc[Master]} = {"reqb", "in_reqb"}
                             /\ pc' = [pc EXCEPT ![u] = "ackb", ![Master] = "copy"]
                             /\ rmtx = u
      BY <1>5 DEF JoinREQB, Goto
    <3>2. PICK q \in REQB : TRUE
      BY <3>1
    <3>3. pc[p] = "reqb" /\ pc[q] = "in_reqb" /\ q \in Procs
      BY <1>5, <3>2 DEF JoinREQB, HandshakeInv, BarrierInv
    <3>4. \/ p = Master /\ q \in Threads
          \/ p \in Threads /\ q = Master
      <4>1. p # q
        BY <3>3
      <4>2. ~ (p \in Threads /\ q \in Threads)
        BY <3>3, <4>1 DEF HandshakeInv, RmtxInv, Handshaking
      <4>3. QED
        BY <3>3, <4>1, <4>2
    <3>5. \A r \in REQB : r = q
      <4>1. SUFFICES ASSUME NEW r \in Procs, pc[r] = "in_reqb" PROVE r = q
        BY DEF HandshakeInv, BarrierInv
      <4>2. CASE r \in Threads /\ q \in Threads
        BY <3>3, <4>1, <4>2 DEF HandshakeInv, RmtxInv, Handshaking
      <4>3. CASE ~ (r \in Threads /\ q \in Threads)
        BY <3>3, <3>4, <4>1, <4>3 DEF HandshakeInv, BarrierInv, RmtxInv, Handshaking
      <4>4. QED
        BY <4>2, <4>3
    <3>6. pc' = Released({q}, p, AfterREQB)
      BY <1>5, <3>1, <3>2, <3>5 DEF JoinREQB, Released
    <3>7. CASE p = Master /\ q \in Threads
      BY <1>2, <3>3, <3>6, <3>7 DEF Released, AfterREQB, HandshakeInv, RmtxInv, Handshaking
    <3>8. CASE p \in Threads /\ q = Master
      BY <1>2, <3>3, <3>6, <3>8 DEF Released, AfterREQB, HandshakeInv, RmtxInv, Handshaking
    <3>9. QED
      BY <3>4, <3>7, <3>8
  <2>2. \A u \in Threads :
           /\ Carrying(u)' <=> Carrying(u)
           /\ Written(u)' <=> Written(u)
    <3>1. CASE pc[p] = "reqb" /\ pc' = [pc EXCEPT ![p] = "in_reqb"]
      BY <1>1, <1>2, <3>1 DEF Carrying, Written
    <3>2. ASSUME NEW v \in Threads, {pc[v], pc[Master]} = {"reqb", "in_reqb"},
                 pc' = [pc EXCEPT ![v] = "ackb", ![Master] = "copy"], rmtx = v
          PROVE  \A u \in Threads :
                    /\ Carrying(u)' <=> Carrying(u)
                    /\ Written(u)' <=> Written(u)
      <4>1. /\ pc[v] \in {"reqb", "in_reqb"} /\ pc[Master] \in {"reqb", "in_reqb"}
            /\ pc'[v] = "ackb" /\ pc'[Master] = "copy"
            /\ \A u \in Threads : u # v => pc'[u] = pc[u]
        BY <1>2, <3>2
      <4>2. \A u \in Threads : ~ Carrying(u) /\ ~ Carrying(u)'
        BY <4>1 DEF Carrying
      <4>3. \A u \in Threads : Written(u) <=> u = v
        BY <3>2, <4>1 DEF Written, HandshakeInv, RmtxInv, Handshaking
      <4>4. \A u \in Threads : Written(u)' <=> u = v
        BY <1>1, <3>2, <4>1 DEF Written, HandshakeInv, RmtxInv, Handshaking
      <4>5. QED
        BY <4>2, <4>3, <4>4
    <3>3. QED
      BY <2>1, <3>1, <3>2
  <2>3. \A u \in Threads : kind[u] = QUIT =>
           pc'[u] \in {"reqb", "in_reqb", "ackb", "in_ackb", "unlock_r", "done"}
    BY <1>2, <2>1 DEF BookInv, FileInv
  <2>4. QED
    BY <1>1, <1>3, <2>2, <2>3, QuietStep
<1>6. CASE JoinACKB(p, t)
  <2>1. \A q \in Procs : \/ pc'[q] = pc[q]
                         \/ pc[q] = "ackb" /\ pc'[q] = "in_ackb"
                         \/ pc[q] \in {"ackb", "in_ackb"} /\ pc'[q] = AfterACKB(q)
    BY <1>2, <1>6 DEF JoinACKB, Released, Goto, HandshakeInv, BarrierInv
  <2>2. \A u \in Threads : Carrying(u)' <=> Carrying(u)
    BY <1>1, <2>1 DEF Carrying, AfterACKB, AfterRequest, QUIT, RELEASE, ADDITIONAL
  <2>3. \A u \in Threads : Written(u)' <=> Written(u)
    BY <1>1, <2>1 DEF Written, AfterACKB, AfterRequest
  <2>4. \A u \in Threads : kind[u] = QUIT =>
           pc'[u] \in {"reqb", "in_reqb", "ackb", "in_ackb", "unlock_r", "done"}
    BY <2>1 DEF BookInv, FileInv, AfterACKB
  <2>5. QED
    BY <1>1, <1>3, <2>2, <2>3, <2>4, QuietStep
<1>7. QED
  BY <1>4, <1>5, <1>6

\* The steps of the master that move requests about without booking or granting any.
LEMMA PendingKept ==
  ASSUME TypeOK, ActiveInv, QueueInv,
         EndScan \/ SignalLock \/ Signal \/ PutBack \/ Join \/ PassOver
  PROVE  Pending' = Pending
<1>1. Q \in Seq(QueueEntries) /\ temp_queue \in Seq(QueueEntries)
  BY DEF TypeOK
<1>2. CASE EndScan \/ SignalLock \/ Signal \/ Join
  BY <1>2 DEF EndScan, SignalLock, Signal, Join, queue, Pending, Entries
<1>3. CASE PutBack
  <2>1. Q = <<>> /\ Q' = temp_queue /\ temp_queue' = <<>>
    BY <1>3 DEF PutBack, QueueInv, PhaseInv
  <2>2. QED
    BY <2>1 DEF Pending, Entries
<1>4. CASE PassOver
  <2>1. Q # <<>> /\ Lr \in QueueEntries /\ Lr.thread_id \in Threads
    BY <1>1, <1>4, QueueHead DEF PassOver, Scanning, Lr, QueueEntries
  <2>2. Lr \in Entries(Q)
    BY <1>1, <2>1, EntryOperations DEF Lr
  <2>3. Lr.thread_id \in active
    BY <2>1, <2>2, WaitingSleeps DEF Waiting, Pending
  <2>4. temp_queue' = Append(temp_queue, Lr) /\ Q' = Tail(Q)
    BY <1>4, <2>3 DEF PassOver
  <2>5. Entries(temp_queue') = Entries(temp_queue) \cup {Lr}
    BY <1>1, <2>1, <2>4, EntryOperations
  <2>6. Entries(Q) = {Lr} \cup Entries(Q')
    BY <1>1, <2>1, <2>4, EntryOperations DEF Lr
  <2>7. QED
    BY <2>5, <2>6 DEF Pending
<1>5. QED
  BY <1>2, <1>3, <1>4

\* An additional request is queued when it is booked.
LEMMA PendingBooked ==
  ASSUME TypeOK, HandleAdditional \/ HandleRelease, NEW e \in QueueEntries,
         e = [thread_id |-> cur.thread_id, req |-> Wanted(cur.request)]
  PROVE  Pending' = IF cur.type = ADDITIONAL THEN Pending \cup {e} ELSE Pending
<1>1. temp_queue' = temp_queue /\ Q \in Seq(QueueEntries)
  BY DEF TypeOK, HandleAdditional, HandleRelease, queue
<1>2. CASE HandleAdditional
  <2>1. cur.type = ADDITIONAL /\ Q' = Append(Q, e)
    BY <1>2 DEF HandleAdditional
  <2>2. Entries(Q') = Entries(Q) \cup {e}
    BY <1>1, <2>1, EntryOperations
  <2>3. QED
    BY <1>1, <2>1, <2>2 DEF Pending
<1>3. CASE HandleRelease
  BY <1>3, Names DEF HandleRelease, queue, Pending, Entries
<1>4. QED
  BY <1>2, <1>3

\* A grant takes the thread's only request out.
LEMMA PendingGranted ==
  ASSUME TypeOK, QueueInv, Grant, NEW t \in Threads, t = Lr.thread_id
  PROVE  /\ Lr \in QueueEntries /\ Lr \in Pending /\ Pending = Pending' \cup {Lr}
         /\ ~ Waiting(t)'
<1>1. /\ Q \in Seq(QueueEntries) /\ temp_queue \in Seq(QueueEntries)
      /\ Q # <<>> /\ Q' = Tail(Q) /\ temp_queue' = temp_queue
  BY DEF TypeOK, Grant, Scanning
<1>2. Lr \in QueueEntries /\ Lr.thread_id \in Threads
  BY <1>1, QueueHead DEF Lr
<1>3. Lr \in Pending /\ Pending = Pending' \cup {Lr}
  <2>1. Entries(Q) = {Lr} \cup Entries(Q')
    BY <1>1, <1>2, EntryOperations DEF Lr
  <2>2. QED
    BY <1>1, <2>1 DEF Pending
<1>4. ~ Waiting(t)'
  <2>1. HasEntry(Q, t) /\ ~ HasEntry(Tail(Q), t)
    BY <1>1, <1>2, QueueOperations DEF QueueInv, OneRequestPerSleeper, Lr
  <2>2. ~ HasEntry(temp_queue, t)
    BY <2>1 DEF QueueInv, OneRequestPerSleeper
  <2>3. Tail(Q) \in Seq(QueueEntries)
    BY <1>1, QueueHead
  <2>4. \A x \in Entries(Tail(Q)) \cup Entries(temp_queue) : x.thread_id # t
    BY <1>1, <1>2, <2>1, <2>2, <2>3, EntryOperations
  <2>5. QED
    BY <1>1, <2>4 DEF Waiting, Pending
<1>5. QED
  BY <1>2, <1>3, <1>4

\* The books do not change while requests are moved about and threads are woken.
LEMMA QuietMasterSteps ==
  ASSUME TypeOK, HandshakeInv, ActiveInv, QueueInv, BookInv,
         EndScan \/ SignalLock \/ Signal \/ PutBack \/ Join \/ PassOver
  PROVE  BookInv'
<1> USE Names
<1>1. UNCHANGED <<held, kind, g_request, cur, AVAILABLE, ALLOC, NEED, rmtx>>
  BY DEF EndScan, SignalLock, Signal, PutBack, Join, PassOver, user, books, sync
<1>2. pc \in [Procs -> MasterLabels \cup UserLabels] /\ kind \in [Threads -> {RELEASE, ADDITIONAL, QUIT}]
      /\ Q \in Seq(QueueEntries) /\ temp_queue \in Seq(QueueEntries)
  BY DEF TypeOK, MasterLabels, UserLabels
<1>3. Pending' = Pending
  BY PendingKept
<1>4. /\ pc'[Master] \notin {"ackb", "in_ackb", "handle", "copy"}
      /\ pc[Master] \notin {"ackb", "in_ackb", "handle", "copy"}
      /\ \A u \in Threads : pc'[u] = pc[u] \/ (pc[u] = "waiting" /\ pc'[u] = "woken")
  <2>1. CASE EndScan \/ SignalLock \/ PutBack \/ Join
    BY <1>2, <2>1 DEF EndScan, SignalLock, PutBack, Join, Goto
  <2>2. CASE Signal
    BY <1>2, <2>2 DEF Signal, HandshakeInv, LabelInv, UserLabels
  <2>3. CASE PassOver
    BY <2>3 DEF PassOver, Scanning
  <2>4. QED
    BY <2>1, <2>2, <2>3
<1>5. \A u \in Threads :
        /\ Carrying(u)' <=> Carrying(u)
        /\ Written(u)' <=> Written(u)
  BY <1>1, <1>4 DEF Carrying, Written
<1>6. \A u \in Threads : kind[u] = QUIT =>
        pc'[u] \in {"reqb", "in_reqb", "ackb", "in_ackb", "unlock_r", "done"}
  BY <1>4 DEF BookInv, FileInv
<1>7. QED
  BY <1>1, <1>3, <1>5, <1>6, QuietStep

\* What one changed row means for the sums of the columns.
LEMMA ConservationStays ==
  ASSUME TypeOK, Conservation, NEW t \in Threads, NEW v \in Vectors,
         ALLOC' = [ALLOC EXCEPT ![t] = v],
         \A j \in Resources : AVAILABLE'[j] = AVAILABLE[j] + ALLOC[t][j] - v[j]
  PROVE  Conservation'
<1>1. /\ ALLOC \in [Threads -> Vectors] /\ ALLOC' \in [Threads -> Vectors]
      /\ AVAILABLE \in Vectors
  BY DEF TypeOK
<1>2. ASSUME NEW j \in Resources
      PROVE  AVAILABLE'[j] + TotalAllocated(j)' = TOTAL[j]
  <2> DEFINE d == v[j] - ALLOC[t][j]
  <2>1. d \in Int /\ AVAILABLE[j] \in Int /\ v[j] \in Int /\ ALLOC[t][j] \in Int
    BY <1>1 DEF Vectors
  <2>2. ALLOC'[t][j] = ALLOC[t][j] + d /\ \A u \in Threads \ {t} : ALLOC'[u][j] = ALLOC[u][j]
    BY <1>1, <2>1
  <2> HIDE DEF d
  <2>3. /\ Totals(ALLOC, j)[n] \in Int
        /\ Totals(ALLOC', j)[n] = Totals(ALLOC, j)[n] + d
    <3>1. PICK A \in Tables : A = ALLOC
      BY <1>1 DEF Tables
    <3>2. PICK B \in Tables : B = ALLOC'
      BY <1>1 DEF Tables
    <3>3. B[t][j] = A[t][j] + d /\ \A u \in Threads \ {t} : B[u][j] = A[u][j]
      BY <2>2, <3>1, <3>2
    <3>4. Totals(A, j)[n] \in Int /\ Totals(B, j)[n] = Totals(A, j)[n] + d
      BY <2>1, <3>3, TotalChanges
    <3>5. QED
      BY <3>1, <3>2, <3>4
  <2>4. TotalAllocated(j) = Totals(ALLOC, j)[n] /\ TotalAllocated(j)' = Totals(ALLOC', j)[n]
    BY DEF TotalAllocated, Totals
  <2>5. AVAILABLE[j] + TotalAllocated(j) = TOTAL[j]
    BY DEF Conservation
  <2>6. AVAILABLE'[j] = AVAILABLE[j] - d
    BY <2>1 DEF d
  <2>7. QED
    BY <2>1, <2>3, <2>4, <2>5, <2>6
<1>3. QED
  BY <1>2 DEF Conservation

\* The step is not about anyone but t.
OthersStay(t) ==
  \A u \in Threads \ {t} :
    /\ held'[u] = held[u] /\ kind'[u] = kind[u]
    /\ ALLOC'[u] = ALLOC[u] /\ NEED'[u] = NEED[u]
    /\ Carrying(u)' <=> Carrying(u)
    /\ Carrying(u) => cur' = cur
    /\ Written(u)' <=> Written(u)
    /\ Written(u) => g_request' = g_request
    /\ \A e \in Pending : e.thread_id = u => e \in Pending'
    /\ \A e \in Pending' : e.thread_id = u => e \in Pending
    /\ kind[u] = QUIT =>
         pc'[u] \in {"reqb", "in_reqb", "ackb", "in_ackb", "unlock_r", "done"}

\* A step of t's own that changes what is due from it or to it; the other
\* threads see nothing of it.
LEMMA OwnStep ==
  ASSUME BookInv, NEW t \in Threads,
         OthersStay(t)
  PROVE  \A u \in Threads \ {t} :
           /\ \E d \in Vectors :
                /\ Due(u, d)' /\ Zero \preceq d /\ d \preceq MAX_NEED[u]
                /\ kind'[u] # QUIT => held'[u] = IF Written(u)' THEN d \oplus g_request'.request ELSE d
           /\ Zero \preceq held'[u] /\ held'[u] \preceq MAX_NEED[u]
           /\ kind'[u] = QUIT =>
                pc'[u] \in {"reqb", "in_reqb", "ackb", "in_ackb", "unlock_r", "done"}
           /\ Written(u)' /\ g_request'.type = RELEASE => g_request'.request \preceq Zero
           /\ Carrying(u)' /\ cur'.type = RELEASE => cur'.request \preceq Zero
<1>1. SUFFICES ASSUME NEW u \in Threads \ {t}
               PROVE  \E d \in Vectors :
                        /\ Due(u, d)' /\ Zero \preceq d /\ d \preceq MAX_NEED[u]
                        /\ kind'[u] # QUIT =>
                             held'[u] = IF Written(u)' THEN d \oplus g_request'.request ELSE d
  BY DEF BookInv, FileInv, OthersStay
<1>2. PICK d \in Vectors :
        /\ Due(u, d) /\ Zero \preceq d /\ d \preceq MAX_NEED[u]
        /\ kind[u] # QUIT => held[u] = IF Written(u) THEN d \oplus g_request.request ELSE d
  BY DEF BookInv, DueInv
<1>3. Waiting(u)' <=> Waiting(u)
  BY DEF Waiting, OthersStay
<1>4. Due(u, d)'
  BY <1>2, <1>3 DEF Due, OthersStay
<1>5. QED
  BY <1>2, <1>4 DEF OthersStay

\* What remains to be shown of t itself.
LEMMA OneThread ==
  ASSUME BookInv, NEW t \in Threads, NEW d \in Vectors,
         OthersStay(t),
         Due(t, d)', Zero \preceq d, d \preceq MAX_NEED[t],
         kind'[t] # QUIT => held'[t] = IF Written(t)' THEN d \oplus g_request'.request ELSE d,
         Zero \preceq held'[t], held'[t] \preceq MAX_NEED[t],
         kind'[t] = QUIT => pc'[t] \in {"reqb", "in_reqb", "ackb", "in_ackb", "unlock_r", "done"},
         Written(t)' /\ g_request'.type = RELEASE => g_request'.request \preceq Zero,
         Carrying(t)' /\ cur'.type = RELEASE => cur'.request \preceq Zero,
         NEED'[t] \oplus ALLOC'[t] = MAX_NEED[t],
         Zero \preceq ALLOC'[t], Zero \preceq NEED'[t], Zero \preceq AVAILABLE',
         Conservation'
  PROVE  BookInv'
<1>1. \A u \in Threads \ {t} :
           /\ \E x \in Vectors :
                /\ Due(u, x)' /\ Zero \preceq x /\ x \preceq MAX_NEED[u]
                /\ kind'[u] # QUIT => held'[u] = IF Written(u)' THEN x \oplus g_request'.request ELSE x
           /\ Zero \preceq held'[u] /\ held'[u] \preceq MAX_NEED[u]
           /\ kind'[u] = QUIT =>
                pc'[u] \in {"reqb", "in_reqb", "ackb", "in_ackb", "unlock_r", "done"}
           /\ Written(u)' /\ g_request'.type = RELEASE => g_request'.request \preceq Zero
           /\ Carrying(u)' /\ cur'.type = RELEASE => cur'.request \preceq Zero
  BY OwnStep
<1>2. FileInv'
  BY <1>1 DEF FileInv
<1>3. DueInv'
  BY <1>1 DEF DueInv
<1>4. NeedBalances' /\ NoOverdraft'
  BY DEF BookInv, NeedBalances, NoOverdraft, OthersStay
<1>5. QED
  BY <1>2, <1>3, <1>4 DEF BookInv

\* While t writes its request nothing is on its way: the master is not between
\* REQB and ACKB.
LEMMA WriterAlone ==
  ASSUME TypeOK, HandshakeInv, BookInv, NEW t \in Threads, pc[t] = "write"
  PROVE  /\ rmtx = t /\ ~ InTransit /\ kind[t] # QUIT
         /\ \A u \in Threads : ~ Written(u)
<1> USE Names
<1>1. rmtx = t /\ ~ InTransit
  BY DEF HandshakeInv, RmtxInv, TransitInv, Handshaking
<1>2. kind[t] # QUIT
  BY DEF BookInv, FileInv
<1>3. \A u \in Threads : ~ Written(u)
  BY <1>1 DEF HandshakeInv, RmtxInv, Handshaking, Written, InTransit
<1>4. QED
  BY <1>1, <1>2, <1>3

\* A request line moves what its thread will hold by as much as it asks for.
LEMMA WriteRequestBooks ==
  ASSUME TypeOK, HandshakeInv, BookInv, NEW t \in Threads, WriteRequest(t)
  PROVE  BookInv'
<1> USE Names
<1> DEFINE Type(h) == IF \E j \in Resources : (h \ominus held[t])[j] > 0
                      THEN ADDITIONAL ELSE RELEASE
<1>0. PICK h \in Holdings(t) :
        /\ g_request' = [type |-> Type(h), thread_id |-> t, request |-> h \ominus held[t]]
        /\ kind' = [kind EXCEPT ![t] = Type(h)]
        /\ held' = [held EXCEPT ![t] = h]
        /\ pc' = [pc EXCEPT ![t] = IF Type(h) = ADDITIONAL THEN "lock_c" ELSE "reqb"]
  BY DEF WriteRequest, Goto
<1>1. /\ g_request'.type = Type(h) /\ g_request'.request = h \ominus held[t]
      /\ kind' = [kind EXCEPT ![t] = Type(h)]
      /\ held' = [held EXCEPT ![t] = h]
      /\ pc' = [pc EXCEPT ![t] = IF Type(h) = ADDITIONAL THEN "lock_c" ELSE "reqb"]
  BY <1>0
<1>2. /\ pc \in [Procs -> MasterLabels \cup UserLabels]
      /\ kind \in [Threads -> {RELEASE, ADDITIONAL, QUIT}] /\ held \in [Threads -> Vectors]
  BY DEF TypeOK, MasterLabels, UserLabels
<1>3. /\ pc[t] = "write" /\ UNCHANGED <<rmtx, cur, AVAILABLE, ALLOC, NEED, Q, temp_queue>>
      /\ Pending' = Pending
  BY DEF WriteRequest, sync, books, queue, Pending, Entries
<1>4. /\ rmtx = t /\ ~ InTransit /\ kind[t] # QUIT
      /\ \A u \in Threads : ~ Written(u)
  BY <1>3, WriterAlone
<1>5. /\ pc'[t] \in {"lock_c", "reqb"} /\ \A p \in Procs : p # t => pc'[p] = pc[p]
      /\ kind'[t] = g_request'.type /\ kind'[t] # QUIT /\ held'[t] = h
  BY <1>1, <1>2
<1>6. OthersStay(t)
  <2>1. SUFFICES ASSUME NEW u \in Threads \ {t}
                 PROVE  /\ held'[u] = held[u] /\ kind'[u] = kind[u]
                        /\ Carrying(u)' <=> Carrying(u)
                        /\ ~ Written(u)'
                        /\ kind[u] = QUIT =>
                             pc'[u] \in {"reqb", "in_reqb", "ackb", "in_ackb", "unlock_r", "done"}
    BY <1>3, <1>4 DEF OthersStay
  <2>2. held'[u] = held[u] /\ kind'[u] = kind[u]
    BY <1>1, <1>2
  <2>3. pc'[u] = pc[u] /\ pc'[Master] = pc[Master]
    BY <1>5
  <2>4. QED
    BY <1>3, <1>4, <2>2, <2>3 DEF Carrying, Written, BookInv, FileInv
<1>7. PICK d \in Vectors : /\ Due(t, d) /\ Zero \preceq d /\ d \preceq MAX_NEED[t]
                           /\ held[t] = d
  BY <1>4 DEF BookInv, DueInv
<1>8. Due(t, d)' /\ (Carrying(t)' <=> Carrying(t))
  <2>1. Carrying(t)' <=> Carrying(t)
    BY <1>3, <1>5 DEF Carrying
  <2>2. QED
    BY <1>3, <1>7, <2>1 DEF Due, Waiting
<1>9. /\ h \in Vectors /\ Zero \preceq h /\ h \preceq MAX_NEED[t]
  <2>1. \A j \in Resources : h[j] \in UNION {0 .. MAX_NEED[t][k] : k \in Resources}
    BY DEF Holdings
  <2>2. \A j \in Resources : h[j] >= 0
    BY <2>1
  <2>3. QED
    BY <2>2, HoldingsAreVectors DEF Zero, \preceq, Vectors, Holdings
<1>10. held'[t] = d \oplus g_request'.request
  <2>1. d \oplus (h \ominus d) = h
    BY <1>9 DEF Vectors, \oplus, \ominus
  <2>2. QED
    BY <1>1, <1>5, <1>7, <2>1
<1>11. Written(t)' /\ (g_request'.type = RELEASE => g_request'.request \preceq Zero)
  <2>1. h \ominus held[t] \in Vectors
    BY <1>2, <1>9, VectorOperations
  <2>2. (\A j \in Resources : ~ ((h \ominus held[t])[j] > 0)) => h \ominus held[t] \preceq Zero
    BY <2>1 DEF Vectors, Zero, \preceq
  <2>3. QED
    BY <1>1, <1>5, <2>2 DEF Written
<1>12. /\ NEED'[t] \oplus ALLOC'[t] = MAX_NEED[t]
       /\ Zero \preceq ALLOC'[t] /\ Zero \preceq NEED'[t] /\ Zero \preceq AVAILABLE'
       /\ Conservation'
  BY <1>3, ConservationKept DEF BookInv, NeedBalances, NoOverdraft
<1>13. Carrying(t)' /\ cur'.type = RELEASE => cur'.request \preceq Zero
  BY <1>3, <1>8 DEF BookInv, FileInv
<1>14. QED
  BY <1>5, <1>6, <1>7, <1>8, <1>9, <1>10, <1>11, <1>12, <1>13, OneThread

\* A QUIT asks for nothing; what is held is given back when it is booked.
LEMMA WriteQuitBooks ==
  ASSUME TypeOK, HandshakeInv, BookInv, NEW t \in Threads, WriteQuit(t)
  PROVE  BookInv'
<1> USE Names
<1>1. /\ g_request' = [type |-> QUIT, thread_id |-> t, request |-> Zero]
      /\ kind' = [kind EXCEPT ![t] = QUIT]
      /\ held' = [held EXCEPT ![t] = Zero]
      /\ pc' = [pc EXCEPT ![t] = "reqb"]
  BY DEF WriteQuit, Goto
<1>2. /\ pc \in [Procs -> MasterLabels \cup UserLabels]
      /\ kind \in [Threads -> {RELEASE, ADDITIONAL, QUIT}] /\ held \in [Threads -> Vectors]
  BY DEF TypeOK, MasterLabels, UserLabels
<1>3. /\ pc[t] = "write" /\ UNCHANGED <<rmtx, cur, AVAILABLE, ALLOC, NEED, Q, temp_queue>>
      /\ Pending' = Pending
  BY DEF WriteQuit, sync, books, queue, Pending, Entries
<1>4. /\ rmtx = t /\ ~ InTransit /\ kind[t] # QUIT
      /\ \A u \in Threads : ~ Written(u)
  BY <1>3, WriterAlone
<1>5. /\ pc'[t] = "reqb" /\ \A p \in Procs : p # t => pc'[p] = pc[p]
      /\ kind'[t] = QUIT /\ held'[t] = Zero
  BY <1>1, <1>2
<1>6. OthersStay(t)
  <2>1. SUFFICES ASSUME NEW u \in Threads \ {t}
                 PROVE  /\ held'[u] = held[u] /\ kind'[u] = kind[u]
                        /\ Carrying(u)' <=> Carrying(u)
                        /\ ~ Written(u)'
                        /\ kind[u] = QUIT =>
                             pc'[u] \in {"reqb", "in_reqb", "ackb", "in_ackb", "unlock_r", "done"}
    BY <1>3, <1>4 DEF OthersStay
  <2>2. held'[u] = held[u] /\ kind'[u] = kind[u]
    BY <1>1, <1>2
  <2>3. pc'[u] = pc[u] /\ pc'[Master] = pc[Master]
    BY <1>5
  <2>4. QED
    BY <1>3, <1>4, <2>2, <2>3 DEF Carrying, Written, BookInv, FileInv
<1>7. PICK d \in Vectors : Due(t, d) /\ Zero \preceq d /\ d \preceq MAX_NEED[t]
  BY DEF BookInv, DueInv
<1>8. Due(t, d)' /\ (Carrying(t)' <=> Carrying(t))
  <2>1. Carrying(t)' <=> Carrying(t)
    BY <1>3, <1>5 DEF Carrying
  <2>2. QED
    BY <1>3, <1>7, <2>1 DEF Due, Waiting
<1>9. Zero \preceq held'[t] /\ held'[t] \preceq MAX_NEED[t]
  BY <1>5, InputAssumption DEF Zero, \preceq
<1>10. g_request'.type # RELEASE
  BY <1>1
<1>11. /\ NEED'[t] \oplus ALLOC'[t] = MAX_NEED[t]
       /\ Zero \preceq ALLOC'[t] /\ Zero \preceq NEED'[t] /\ Zero \preceq AVAILABLE'
       /\ Conservation'
  BY <1>3, ConservationKept DEF BookInv, NeedBalances, NoOverdraft
<1>12. Carrying(t)' /\ cur'.type = RELEASE => cur'.request \preceq Zero
  BY <1>3, <1>8 DEF BookInv, FileInv
<1>13. QED
  BY <1>5, <1>6, <1>7, <1>8, <1>9, <1>10, <1>11, <1>12, OneThread

\* The master takes the request: what was written is now being carried.
LEMMA CopyBooks ==
  ASSUME TypeOK, HandshakeInv, ActiveInv, QueueInv, BookInv, CopyRequest
  PROVE  BookInv'
<1> USE Names
<1>1. /\ pc[Master] = "copy" /\ cur' = g_request
      /\ pc' = [pc EXCEPT ![Master] = IF g_request.type = QUIT THEN "handle" ELSE "ackb"]
      /\ g_request.type = QUIT => g_request' = g_request
      /\ g_request.type # QUIT => g_request' = FREED
      /\ UNCHANGED <<rmtx, held, kind, AVAILABLE, ALLOC, NEED, Q, temp_queue>>
  BY DEF CopyRequest, Goto, sync, user, books, queue
<1>2. PICK t \in Threads : rmtx = t
  BY <1>1 DEF HandshakeInv, TransitInv, InTransit
<1>3. /\ pc[t] \in {"ackb", "in_ackb"} /\ g_request \in Requests
      /\ g_request.thread_id = t /\ g_request.type = kind[t]
  BY <1>1, <1>2 DEF HandshakeInv, TransitInv, InTransit, TypeOK
<1>4. pc \in [Procs -> MasterLabels \cup UserLabels] /\ held \in [Threads -> Vectors]
      /\ ALLOC \in [Threads -> Vectors]
  BY DEF TypeOK, MasterLabels, UserLabels
<1>5. /\ pc'[Master] \in {"handle", "ackb"} /\ \A p \in Threads : pc'[p] = pc[p]
      /\ Pending' = Pending
  BY <1>1, <1>4 DEF Pending, Entries
<1>6. \A u \in Threads : (Written(u) <=> u = t) /\ ~ Written(u)' /\ ~ Carrying(u)
  BY <1>1, <1>2, <1>3, <1>5 DEF Written, Carrying, HandshakeInv, RmtxInv, Handshaking
<1>7. OthersStay(t)
  <2>1. SUFFICES ASSUME NEW u \in Threads \ {t}
                 PROVE  /\ ~ Carrying(u)'
                        /\ kind[u] = QUIT =>
                             pc'[u] \in {"reqb", "in_reqb", "ackb", "in_ackb", "unlock_r", "done"}
    BY <1>1, <1>5, <1>6 DEF OthersStay
  <2>2. QED
    BY <1>1, <1>3, <1>5 DEF Carrying, BookInv, FileInv
<1>8. ~ Waiting(t)
  BY <1>3, WaitingSleeps DEF Sleeping
<1>9. PICK d \in Vectors : /\ Due(t, d) /\ Zero \preceq d /\ d \preceq MAX_NEED[t]
                           /\ kind[t] # QUIT => held[t] = d \oplus g_request.request
  BY <1>6 DEF BookInv, DueInv
<1>10. d = ALLOC[t]
  BY <1>6, <1>8, <1>9 DEF Due
<1>11. /\ NEED'[t] \oplus ALLOC'[t] = MAX_NEED[t]
       /\ Zero \preceq ALLOC'[t] /\ Zero \preceq NEED'[t] /\ Zero \preceq AVAILABLE'
       /\ Conservation'
       /\ Zero \preceq held'[t] /\ held'[t] \preceq MAX_NEED[t]
       /\ kind'[t] = QUIT => pc'[t] \in {"reqb", "in_reqb", "ackb", "in_ackb", "unlock_r", "done"}
  <2>1. Conservation'
    BY <1>1, ConservationKept DEF BookInv
  <2>2. /\ NEED'[t] \oplus ALLOC'[t] = MAX_NEED[t]
        /\ Zero \preceq ALLOC'[t] /\ Zero \preceq NEED'[t] /\ Zero \preceq AVAILABLE'
    BY <1>1 DEF BookInv, NeedBalances, NoOverdraft
  <2>3. Zero \preceq held'[t] /\ held'[t] \preceq MAX_NEED[t]
    BY <1>1 DEF BookInv, FileInv
  <2>4. QED
    BY <1>3, <1>5, <2>1, <2>2, <2>3
<1>12. Carrying(t)' /\ cur'.type = RELEASE => cur'.request \preceq Zero
  BY <1>1, <1>6 DEF BookInv, FileInv
<1>13. ~ Waiting(t)'
  BY <1>5, <1>8 DEF Waiting
<1>14. CASE g_request.type = QUIT
  <2>1. kind'[t] = QUIT /\ ~ Carrying(t)'
    BY <1>1, <1>3, <1>14 DEF Carrying
  <2>2. Due(t, d)'
    BY <1>1, <1>10, <1>13, <2>1 DEF Due, Waiting
  <2>3. QED
    BY <1>6, <1>7, <1>9, <1>11, <1>12, <2>1, <2>2, OneThread
<1>15. CASE g_request.type # QUIT
  <2>1. PICK x \in Vectors : x = held[t]
    BY <1>4
  <2>2. x = ALLOC[t] \oplus g_request.request
    BY <1>3, <1>9, <1>10, <1>15, <2>1
  <2>3. Carrying(t)'
    BY <1>1, <1>3, <1>5, <1>15 DEF Carrying, Requests
  <2>4. Due(t, x)'
    BY <1>1, <1>13, <2>2, <2>3 DEF Due, Waiting
  <2>5. Zero \preceq x /\ x \preceq MAX_NEED[t] /\ held'[t] = x
    BY <1>1, <2>1 DEF BookInv, FileInv
  <2>6. QED
    BY <1>6, <1>7, <1>11, <1>12, <2>4, <2>5, OneThread
<1>16. QED
  BY <1>14, <1>15

\* A QUIT gives back everything at once.
LEMMA HandleQuitBooks ==
  ASSUME TypeOK, HandshakeInv, ActiveInv, QueueInv, BookInv, HandleQuit
  PROVE  BookInv'
<1> USE Names
<1>1. PICK t \in Threads : rmtx = t
  BY DEF HandleQuit, HandshakeInv, TransitInv, InTransit
<1>2. /\ pc[t] \in {"ackb", "in_ackb"} /\ cur.thread_id = t /\ kind[t] = QUIT
      /\ cur.type = QUIT /\ pc[Master] = "handle"
  BY <1>1 DEF HandleQuit, HandshakeInv, TransitInv, InTransit
<1>3. /\ AVAILABLE' = AVAILABLE \oplus ALLOC[t]
      /\ ALLOC' = [ALLOC EXCEPT ![t] = Zero]
      /\ NEED' = [NEED EXCEPT ![t] = MAX_NEED[t]]
      /\ pc' = [pc EXCEPT ![Master] = "ackb"]
      /\ UNCHANGED <<rmtx, held, kind, g_request, cur, Q, temp_queue>>
  BY <1>2 DEF HandleQuit, Goto, sync, user, queue
<1>4. /\ pc \in [Procs -> MasterLabels \cup UserLabels] /\ ALLOC \in [Threads -> Vectors]
      /\ NEED \in [Threads -> Vectors] /\ AVAILABLE \in Vectors
  BY DEF TypeOK, MasterLabels, UserLabels
<1>5. /\ pc'[Master] = "ackb" /\ \A p \in Threads : pc'[p] = pc[p]
      /\ Pending' = Pending
  BY <1>3, <1>4 DEF Pending, Entries
<1>6. \A u \in Threads : (Written(u)' <=> Written(u)) /\ ~ Carrying(u) /\ ~ Carrying(u)'
  BY <1>2, <1>3, <1>5 DEF Written, Carrying
<1>7. OthersStay(t)
  BY <1>3, <1>4, <1>5, <1>6 DEF OthersStay, BookInv, FileInv
<1>8. ~ Waiting(t) /\ ~ Waiting(t)'
  <2>1. ~ Waiting(t)
    BY <1>2, WaitingSleeps DEF Sleeping
  <2>2. QED
    BY <1>5, <2>1 DEF Waiting
<1>9. ALLOC'[t] = Zero /\ NEED'[t] = MAX_NEED[t] /\ Zero \in Vectors
  BY <1>3, <1>4 DEF Vectors, Zero
<1>10. Due(t, Zero)'
  BY <1>6, <1>8, <1>9 DEF Due, Waiting
<1>11. /\ Zero \preceq Zero /\ Zero \preceq MAX_NEED[t] /\ MAX_NEED[t] \oplus Zero = MAX_NEED[t]
  BY InputAssumption DEF Zero, \preceq, \oplus
<1>12. Zero \preceq AVAILABLE'
  BY <1>3, <1>4 DEF BookInv, NoOverdraft, Zero, \preceq, \oplus, Vectors
<1>13. Conservation'
  <2>1. \A j \in Resources : AVAILABLE'[j] = AVAILABLE[j] + ALLOC[t][j] - Zero[j]
    BY <1>3, <1>4 DEF \oplus, Zero, Vectors
  <2>2. QED
    BY <1>3, <1>9, <2>1, ConservationStays DEF BookInv
<1>14. /\ Zero \preceq held'[t] /\ held'[t] \preceq MAX_NEED[t] /\ kind'[t] = QUIT
       /\ pc'[t] \in {"reqb", "in_reqb", "ackb", "in_ackb", "unlock_r", "done"}
       /\ (Written(t)' /\ g_request'.type = RELEASE => g_request'.request \preceq Zero)
  BY <1>2, <1>3, <1>5, <1>6 DEF BookInv, FileInv
<1>15. QED
  BY <1>6, <1>7, <1>9, <1>10, <1>11, <1>12, <1>13, <1>14, OneThread

\* What is given back leaves the table and the amount due in step.
LEMMA ReleaseBooks ==
  ASSUME TypeOK, BookInv, BookReleases, cur.type \in {RELEASE, ADDITIONAL},
         Carrying(cur.thread_id)
  PROVE  LET t == cur.thread_id IN
         /\ \E d \in Vectors :
              /\ d = ALLOC[t] \oplus cur.request /\ Zero \preceq d /\ d \preceq MAX_NEED[t]
              /\ kind[t] # QUIT =>
                   held[t] = IF Written(t) THEN d \oplus g_request.request ELSE d
              /\ d = ALLOC'[t] \oplus Wanted(cur.request)
              /\ cur.request \preceq Zero => d = ALLOC'[t]
         /\ \A u \in Threads \ {t} : ALLOC'[u] = ALLOC[u] /\ NEED'[u] = NEED[u]
         /\ NEED'[t] \oplus ALLOC'[t] = MAX_NEED[t]
         /\ Zero \preceq ALLOC'[t] /\ Zero \preceq NEED'[t] /\ Zero \preceq AVAILABLE'
         /\ Conservation'
<1> DEFINE t == cur.thread_id
           r == cur.request
           f == Freed(r)
<1>1. t \in Threads /\ r \in Vectors /\ f \in Vectors /\ Wanted(r) \in Vectors
  BY RequestFields, VectorOperations
<1>2. \A j \in Resources : /\ r[j] \in Int /\ f[j] \in Int /\ f[j] >= 0
                           /\ f[j] = IF r[j] < 0 THEN 0 - r[j] ELSE 0
                           /\ Wanted(r)[j] = IF r[j] < 0 THEN 0 ELSE r[j]
  BY <1>1 DEF Freed, Wanted, Vectors
<1>3. PICK d \in Vectors : /\ Due(t, d) /\ Zero \preceq d /\ d \preceq MAX_NEED[t]
                           /\ kind[t] # QUIT =>
                                held[t] = IF Written(t) THEN d \oplus g_request.request ELSE d
  BY <1>1 DEF BookInv, DueInv
<1>4. d = ALLOC[t] \oplus r
  BY <1>3 DEF Due
<1>5. /\ ALLOC' = [ALLOC EXCEPT ![t] = ALLOC[t] \ominus f]
      /\ NEED' = [NEED EXCEPT ![t] = NEED[t] \oplus f]
      /\ AVAILABLE' = AVAILABLE \oplus f
  BY DEF BookReleases
<1>6. /\ ALLOC \in [Threads -> Vectors] /\ NEED \in [Threads -> Vectors]
      /\ AVAILABLE \in Vectors
  BY DEF TypeOK
<1> HIDE DEF t, r, f
<1>7. /\ ALLOC'[t] = ALLOC[t] \ominus f /\ NEED'[t] = NEED[t] \oplus f
      /\ \A u \in Threads \ {t} : ALLOC'[u] = ALLOC[u] /\ NEED'[u] = NEED[u]
  BY <1>1, <1>5, <1>6
<1>8. ALLOC[t] \in Vectors /\ NEED[t] \in Vectors /\ ALLOC[t] \ominus f \in Vectors
  BY <1>1, <1>6, VectorOperations
<1>9. \A j \in Resources :
        /\ ALLOC[t][j] \in Int /\ ALLOC[t][j] >= 0 /\ NEED[t][j] \in Int /\ NEED[t][j] >= 0
        /\ AVAILABLE[j] \in Int /\ AVAILABLE[j] >= 0
        /\ d[j] = ALLOC[t][j] + r[j] /\ d[j] >= 0
  BY <1>1, <1>3, <1>4, <1>6, <1>8 DEF BookInv, NoOverdraft, Zero, \preceq, \oplus, Vectors
<1>10. \A j \in Resources :
         /\ (ALLOC[t] \ominus f)[j] = ALLOC[t][j] - f[j]
         /\ (NEED[t] \oplus f)[j] = NEED[t][j] + f[j]
         /\ (AVAILABLE \oplus f)[j] = AVAILABLE[j] + f[j]
  BY DEF \ominus, \oplus
<1>11. d = ALLOC'[t] \oplus Wanted(r)
  <2>1. \A j \in Resources : d[j] = (ALLOC'[t] \oplus Wanted(r))[j]
    BY <1>2, <1>7, <1>9, <1>10 DEF \oplus
  <2>2. d \in Vectors /\ ALLOC'[t] \oplus Wanted(r) \in Vectors
    BY <1>1, <1>3, <1>7, <1>8, VectorOperations
  <2>3. QED
    BY <2>1, <2>2, VectorsEqual
<1>12. r \preceq Zero => d = ALLOC'[t]
  <2>1. SUFFICES ASSUME r \preceq Zero PROVE d = ALLOC'[t]
    OBVIOUS
  <2>2. \A j \in Resources : d[j] = (ALLOC[t] \ominus f)[j]
    BY <1>2, <1>9, <1>10, <2>1 DEF \preceq, Zero
  <2>3. QED
    BY <1>7, <1>8, <2>2, VectorsEqual
<1>13. NEED'[t] \oplus ALLOC'[t] = MAX_NEED[t]
  <2>1. NEED[t] \oplus ALLOC[t] = MAX_NEED[t]
    BY <1>1 DEF BookInv, NeedBalances
  <2>2. \A j \in Resources : NEED'[t][j] + ALLOC'[t][j] = NEED[t][j] + ALLOC[t][j]
    BY <1>2, <1>7, <1>9, <1>10
  <2>3. NEED'[t] \oplus ALLOC'[t] = NEED[t] \oplus ALLOC[t]
    BY <2>2 DEF \oplus
  <2>4. QED
    BY <2>1, <2>3
<1>14. Zero \preceq ALLOC'[t] /\ Zero \preceq NEED'[t] /\ Zero \preceq AVAILABLE'
  <2>1. \A j \in Resources :
          0 <= ALLOC'[t][j] /\ 0 <= NEED'[t][j] /\ 0 <= AVAILABLE'[j]
    BY <1>2, <1>5, <1>7, <1>9, <1>10
  <2>2. QED
    BY <2>1 DEF Zero, \preceq
<1>15. Conservation'
  <2>1. \A j \in Resources : AVAILABLE'[j] = AVAILABLE[j] + ALLOC[t][j] - (ALLOC[t] \ominus f)[j]
    BY <1>2, <1>5, <1>9, <1>10
  <2>2. Conservation
    BY DEF BookInv
  <2>3. QED
    BY <1>1, <1>5, <1>8, <2>1, <2>2, ConservationStays
<1>16. QED
  BY <1>3, <1>4, <1>7, <1>11, <1>12, <1>13, <1>14, <1>15 DEF t, r

\* A booked release is no longer due; an additional request waits in Q instead.
LEMMA HandleResourceBooks ==
  ASSUME TypeOK, HandshakeInv, ActiveInv, QueueInv, BookInv, HandleAdditional \/ HandleRelease
  PROVE  BookInv'
<1> USE Names
<1>1. /\ pc[Master] = "handle" /\ BookReleases /\ cur.type \in {RELEASE, ADDITIONAL}
      /\ pc' = [pc EXCEPT ![Master] = AfterRequest]
      /\ UNCHANGED <<rmtx, held, kind, g_request, cur, temp_queue>>
  BY DEF HandleAdditional, HandleRelease, Goto, sync, user, queue
<1>2. /\ pc \in [Procs -> MasterLabels \cup UserLabels] /\ Q \in Seq(QueueEntries)
  BY DEF TypeOK, MasterLabels, UserLabels
<1>3. pc'[Master] \in {"join", "scan"} /\ \A p \in Threads : pc'[p] = pc[p]
  BY <1>1, <1>2 DEF AfterRequest
<1>4. cur.thread_id \in Threads /\ Wanted(cur.request) \in Vectors
  BY <1>1, RequestFields, VectorOperations
<1>5. PICK t \in Threads : t = cur.thread_id
  BY <1>4
<1>6. PICK w \in Vectors : w = Wanted(cur.request)
  BY <1>4
<1> DEFINE e == [thread_id |-> t, req |-> w]
<1>7. e \in QueueEntries /\ e.thread_id = t /\ e.req = w
  BY DEF QueueEntries
<1>8. Carrying(t)
  BY <1>1, <1>5 DEF Carrying
<1>9. ~ Waiting(t)
  BY <1>1, <1>5, WaitingSleeps DEF Booking
<1>10. PICK d \in Vectors :
        /\ d = ALLOC[t] \oplus cur.request /\ Zero \preceq d /\ d \preceq MAX_NEED[t]
        /\ kind[t] # QUIT => held[t] = IF Written(t) THEN d \oplus g_request.request ELSE d
        /\ d = ALLOC'[t] \oplus w
        /\ cur.request \preceq Zero => d = ALLOC'[t]
  BY <1>1, <1>8, <1>5, <1>6, ReleaseBooks
<1>11. /\ \A u \in Threads \ {t} : ALLOC'[u] = ALLOC[u] /\ NEED'[u] = NEED[u]
      /\ NEED'[t] \oplus ALLOC'[t] = MAX_NEED[t]
      /\ Zero \preceq ALLOC'[t] /\ Zero \preceq NEED'[t] /\ Zero \preceq AVAILABLE'
      /\ Conservation'
  BY <1>1, <1>8, <1>5, <1>6, ReleaseBooks
<1>12. \A u \in Threads : (Written(u)' <=> Written(u)) /\ ~ Carrying(u)'
  BY <1>1, <1>3 DEF Written, Carrying
<1>13. \A u \in Threads \ {t} : ~ Carrying(u)
  BY <1>5 DEF Carrying
<1>14. Pending' = IF cur.type = ADDITIONAL THEN Pending \cup {e} ELSE Pending
  BY <1>5, <1>6, <1>7, PendingBooked
<1> HIDE DEF e
<1>15. OthersStay(t)
  <2>1. SUFFICES ASSUME NEW u \in Threads \ {t}
                 PROVE  /\ \A x \in Pending : x.thread_id = u => x \in Pending'
                        /\ \A x \in Pending' : x.thread_id = u => x \in Pending
                        /\ kind[u] = QUIT =>
                             pc'[u] \in {"reqb", "in_reqb", "ackb", "in_ackb", "unlock_r", "done"}
    BY <1>1, <1>11, <1>12, <1>13 DEF OthersStay
  <2>2. kind[u] = QUIT =>
          pc'[u] \in {"reqb", "in_reqb", "ackb", "in_ackb", "unlock_r", "done"}
    BY <1>3 DEF BookInv, FileInv
  <2>3. QED
    BY <1>7, <1>14, <2>2
<1>16. /\ Zero \preceq held'[t] /\ held'[t] \preceq MAX_NEED[t]
       /\ kind'[t] = QUIT => pc'[t] \in {"reqb", "in_reqb", "ackb", "in_ackb", "unlock_r", "done"}
  BY <1>1, <1>3, <1>7 DEF BookInv, FileInv
<1>17. Written(t)' /\ g_request'.type = RELEASE => g_request'.request \preceq Zero
  BY <1>1, <1>7, <1>12 DEF BookInv, FileInv
<1>18. Due(t, d)'
  <2>1. CASE cur.type = ADDITIONAL
    <3>1. \A x \in Pending' : x.thread_id = t => x = e
      BY <1>9, <1>14, <2>1 DEF Waiting
    <3>2. Waiting(t)'
      BY <1>7, <1>14, <2>1 DEF Waiting
    <3>3. QED
      BY <1>7, <1>10, <1>12, <3>1, <3>2 DEF Due
  <2>2. CASE cur.type # ADDITIONAL
    <3>1. d = ALLOC'[t]
      BY <1>1, <1>7, <1>8, <1>10, <2>2 DEF BookInv, FileInv
    <3>2. ~ Waiting(t)'
      BY <1>9, <1>14, <2>2 DEF Waiting
    <3>3. QED
      BY <1>7, <1>12, <3>1, <3>2 DEF Due, Waiting
  <2>3. QED
    BY <2>1, <2>2
<1>19. kind'[t] # QUIT => held'[t] = IF Written(t)' THEN d \oplus g_request'.request ELSE d
  BY <1>1, <1>7, <1>10, <1>12
<1>20. QED
  BY <1>7, <1>10, <1>11, <1>12, <1>15, <1>16, <1>17, <1>18, <1>19, OneThread

\* A grant books what was waiting.
LEMMA GrantBooks ==
  ASSUME TypeOK, HandshakeInv, ActiveInv, QueueInv, BookInv, Grant
  PROVE  BookInv'
<1> USE Names
<1>1. Q # <<>> /\ Lr.thread_id \in Threads /\ Lr.req \in Vectors /\ Lr \in QueueEntries
  BY QueueHead DEF TypeOK, Grant, Scanning, Lr
<1>2. PICK t \in Threads : t = Lr.thread_id
  BY <1>1
<1>3. PICK r \in Vectors : r = Lr.req
  BY <1>1
<1>4. /\ Q # <<>> /\ pc[Master] = "scan"
      /\ r \preceq NEED[t] /\ r \preceq AVAILABLE
      /\ AVAILABLE' = AVAILABLE \ominus r
      /\ ALLOC' = [ALLOC EXCEPT ![t] = ALLOC[t] \oplus r]
      /\ NEED' = [NEED EXCEPT ![t] = NEED[t] \ominus r]
      /\ Q' = Tail(Q)
      /\ UNCHANGED <<pc, rmtx, held, kind, g_request, cur, temp_queue>>
  BY <1>2, <1>3 DEF Grant, Scanning, can_fulfill_req, sync, user
<1>5. /\ Q \in Seq(QueueEntries) /\ ALLOC \in [Threads -> Vectors]
      /\ NEED \in [Threads -> Vectors] /\ AVAILABLE \in Vectors
  BY DEF TypeOK
<1>6. Lr \in Pending /\ Pending = Pending' \cup {Lr}
  BY <1>2, PendingGranted
<1>7. ~ Waiting(t)'
  BY <1>2, PendingGranted
<1>8. PICK d \in Vectors :
        /\ Due(t, d) /\ Zero \preceq d /\ d \preceq MAX_NEED[t]
        /\ kind[t] # QUIT => held[t] = IF Written(t) THEN d \oplus g_request.request ELSE d
  BY <1>1 DEF BookInv, DueInv
<1>9. d = ALLOC[t] \oplus r
  BY <1>6, <1>8, <1>2, <1>3 DEF Due
<1>10. /\ ALLOC'[t] = d /\ NEED'[t] = NEED[t] \ominus r
      /\ \A u \in Threads \ {t} : ALLOC'[u] = ALLOC[u] /\ NEED'[u] = NEED[u]
  BY <1>4, <1>5, <1>1, <1>9
<1>11. \A u \in Threads : (Written(u)' <=> Written(u)) /\ ~ Carrying(u) /\ ~ Carrying(u)'
  BY <1>4 DEF Written, Carrying
<1>12. OthersStay(t)
  <2>1. SUFFICES ASSUME NEW u \in Threads \ {t}
                 PROVE  /\ \A x \in Pending : x.thread_id = u => x \in Pending'
                        /\ \A x \in Pending' : x.thread_id = u => x \in Pending
                        /\ kind[u] = QUIT =>
                             pc'[u] \in {"reqb", "in_reqb", "ackb", "in_ackb", "unlock_r", "done"}
    BY <1>4, <1>10, <1>11 DEF OthersStay
  <2>2. kind[u] = QUIT =>
          pc'[u] \in {"reqb", "in_reqb", "ackb", "in_ackb", "unlock_r", "done"}
    BY <1>4 DEF BookInv, FileInv
  <2>3. QED
    BY <1>6, <1>2, <2>2
<1>13. Due(t, d)'
  BY <1>7, <1>10, <1>11 DEF Due, Waiting
<1>14. ALLOC[t] \in Vectors /\ NEED[t] \in Vectors
  BY <1>5, <1>1
<1>15. \A j \in Resources :
         /\ ALLOC[t][j] \in Int /\ NEED[t][j] \in Int /\ r[j] \in Int /\ AVAILABLE[j] \in Int
         /\ d[j] = ALLOC[t][j] + r[j] /\ d[j] \in Int
         /\ NEED'[t][j] = NEED[t][j] - r[j] /\ AVAILABLE'[j] = AVAILABLE[j] - r[j]
         /\ r[j] <= NEED[t][j] /\ r[j] <= AVAILABLE[j]
  BY <1>4, <1>5, <1>1, <1>9, <1>10, <1>14 DEF Vectors, \oplus, \ominus, \preceq
<1>16. NEED'[t] \oplus ALLOC'[t] = MAX_NEED[t]
  <2>1. NEED[t] \oplus ALLOC[t] = MAX_NEED[t]
    BY <1>1 DEF BookInv, NeedBalances
  <2>2. \A j \in Resources : NEED'[t][j] + ALLOC'[t][j] = NEED[t][j] + ALLOC[t][j]
    BY <1>10, <1>15
  <2>3. NEED'[t] \oplus ALLOC'[t] = NEED[t] \oplus ALLOC[t]
    BY <2>2 DEF \oplus
  <2>4. QED
    BY <2>1, <2>3
<1>17. Zero \preceq ALLOC'[t] /\ Zero \preceq NEED'[t] /\ Zero \preceq AVAILABLE'
  <2>1. Zero \preceq ALLOC'[t]
    BY <1>8, <1>10
  <2>2. Zero \preceq NEED'[t] /\ Zero \preceq AVAILABLE'
    <3>1. \A j \in Resources : 0 <= NEED'[t][j] /\ 0 <= AVAILABLE'[j]
      BY <1>15
    <3>2. QED
      BY <3>1 DEF Zero, \preceq
  <2>3. QED
    BY <2>1, <2>2
<1>18. Conservation'
  <2>1. \A j \in Resources : AVAILABLE'[j] = AVAILABLE[j] + ALLOC[t][j] - d[j]
    BY <1>15
  <2>2. ALLOC' = [ALLOC EXCEPT ![t] = d]
    BY <1>4, <1>9
  <2>3. QED
    BY <1>1, <2>1, <2>2, ConservationStays DEF BookInv
<1>19. /\ Zero \preceq held'[t] /\ held'[t] \preceq MAX_NEED[t]
       /\ kind'[t] = QUIT => pc'[t] \in {"reqb", "in_reqb", "ackb", "in_ackb", "unlock_r", "done"}
       /\ (Written(t)' /\ g_request'.type = RELEASE => g_request'.request \preceq Zero)
  BY <1>4, <1>1, <1>11 DEF BookInv, FileInv
<1>20. kind'[t] # QUIT => held'[t] = IF Written(t)' THEN d \oplus g_request'.request ELSE d
  BY <1>4, <1>8, <1>11
<1>21. QED
  BY <1>1, <1>8, <1>11, <1>12, <1>13, <1>16, <1>17, <1>18, <1>19, <1>20, OneThread

\* Nothing is held, asked for or on its way at first.
LEMMA InitBooks == Init => BookInv
<1> SUFFICES ASSUME Init PROVE BookInv
  OBVIOUS
<1> USE Names
<1>1. \A t \in Threads : ~ Carrying(t) /\ ~ Written(t) /\ ~ Waiting(t)
  BY DEF Init, Carrying, Written, Waiting, Pending, Entries
<1>2. /\ Zero \in Vectors /\ Zero \preceq Zero
      /\ \A t \in Threads : /\ Zero \preceq MAX_NEED[t]
                            /\ MAX_NEED[t] \oplus Zero = MAX_NEED[t]
  BY InputAssumption DEF Zero, \preceq, \oplus, Vectors
<1>3. FileInv
  BY <1>1, <1>2 DEF FileInv, Init
<1>4. DueInv
  <2>1. SUFFICES ASSUME NEW t \in Threads
                 PROVE  /\ Due(t, Zero) /\ Zero \preceq Zero /\ Zero \preceq MAX_NEED[t]
                        /\ held[t] = Zero
    BY <1>1, <1>2 DEF DueInv
  <2>2. ALLOC[t] = Zero /\ held[t] = Zero
    BY DEF Init
  <2>3. QED
    BY <1>1, <1>2, <2>2 DEF Due, Waiting
<1>5. Conservation
  <2>1. SUFFICES ASSUME NEW j \in Resources PROVE AVAILABLE[j] + TotalAllocated(j) = TOTAL[j]
    BY DEF Conservation
  <2>2. TotalAllocated(j) = Totals([t \in Threads |-> Zero], j)[n]
    BY DEF TotalAllocated, Totals, Init
  <2>3. TotalAllocated(j) = 0
    BY <2>2, TotalOfNothing
  <2>4. QED
    BY <2>3, InputAssumption DEF Init
<1>6. NeedBalances
  BY <1>2 DEF NeedBalances, Init
<1>7. NoOverdraft
  BY <1>2, InputAssumption DEF NoOverdraft, Init, Zero, \preceq
<1>8. QED
  BY <1>3, <1>4, <1>5, <1>6, <1>7 DEF BookInv

\* The step, action by action.
LEMMA StepBooks == IInv /\ BookInv /\ [Next]_vars => BookInv'
<1>1. SUFFICES ASSUME TypeOK, HandshakeInv, ActiveInv, QueueInv, BookInv, [Next]_vars
               PROVE  BookInv'
  BY DEF IInv
<1>2. CASE UNCHANGED vars
  <2>1. /\ UNCHANGED <<held, kind, g_request, AVAILABLE, ALLOC, NEED, cur, pc, rmtx>>
        /\ Pending' = Pending
    BY <1>2 DEF vars, sync, user, books, queue, Pending, Entries
  <2>2. \A t \in Threads : (Carrying(t)' <=> Carrying(t)) /\ (Written(t)' <=> Written(t))
    BY <2>1 DEF Carrying, Written
  <2>3. QED
    BY <1>1, <2>1, <2>2, QuietStep DEF BookInv, FileInv
<1>3. CASE MasterStep
  <2>1. CASE JoinBOS(Master) \/ JoinREQB(Master)
    <3>1. 0 \in Threads
      BY CountsAssumption DEF Threads
    <3>2. QED
      BY <1>1, <2>1, <3>1, Names, QuietJoins
  <2>2. CASE \E t \in Threads : JoinACKB(Master, t)
    BY <1>1, <2>2, Names, QuietJoins
  <2>3. CASE CopyRequest \/ HandleQuit \/ HandleAdditional \/ HandleRelease
    BY <1>1, <2>3, CopyBooks, HandleQuitBooks, HandleResourceBooks
  <2>4. CASE Grant
    BY <1>1, <2>4, GrantBooks
  <2>5. CASE EndScan \/ SignalLock \/ Signal \/ PutBack \/ Join \/ PassOver
    BY <1>1, <2>5, QuietMasterSteps
  <2>6. QED
    BY <1>3, <2>1, <2>2, <2>3, <2>4, <2>5 DEF MasterStep
<1>4. ASSUME NEW t \in Threads, UserStep(t) PROVE BookInv'
  <2>1. CASE JoinBOS(t) \/ JoinREQB(t) \/ JoinACKB(t, t)
    BY <1>1, <2>1, Names, QuietJoins
  <2>2. CASE WriteRequest(t) \/ WriteQuit(t)
    BY <1>1, <2>2, WriteRequestBooks, WriteQuitBooks
  <2>3. CASE \/ LockRmtx(t) \/ LockCmtx(t) \/ UnlockRmtx(t)
             \/ CondWait(t) \/ Reacquire(t) \/ UnlockCmtx(t)
    BY <1>1, <2>3, QuietUserSteps
  <2>4. QED
    BY <1>4, <2>1, <2>2, <2>3 DEF UserStep
<1>5. QED
  BY <1>1, <1>2, <1>3, <1>4 DEF Next, Finished

\* The invariant of the books holds throughout.
LEMMA BooksInductive == Spec => [](IInv /\ BookInv)
BY Inductive, InitBooks, StepBooks, PTL DEF Spec

\* The master's tables agree with each other and with the pool at every step:
\* no instance is lost, made up or overdrawn by any mixture of releases, grants
\* and quits of any number of threads.
THEOREM BooksAlwaysBalance == Spec => []BooksBalance
<1>1. BookInv => BooksBalance
  BY DEF BookInv, BooksBalance
<1>2. QED
  BY <1>1, BooksInductive, PTL

\* No thread goes on before what it asked for has been booked: past a request
\* it holds by the master's table exactly what its file says.
THEOREM GrantsComeFirst == Spec => []GrantedBeforeProceeding
<1>1. IInv /\ BookInv => GrantedBeforeProceeding
  <2>1. SUFFICES ASSUME IInv, BookInv, NEW t \in Threads,
                        pc[t] \in {"ready", "write", "granted"},
                        ~ (pc[Master] = "handle" /\ cur.thread_id = t)
                 PROVE  ALLOC[t] = held[t]
    BY DEF GrantedBeforeProceeding
  <2>2. kind[t] # QUIT
    BY <2>1 DEF BookInv, FileInv
  <2>3. ~ Carrying(t) /\ ~ Written(t)
    BY <2>1 DEF IInv, HandshakeInv, TransitInv, InTransit, Carrying, Written
  <2>4. ~ Waiting(t)
    BY <2>1, WaitingSleeps DEF IInv, Sleeping
  <2>5. QED
    BY <2>1, <2>2, <2>3, <2>4 DEF BookInv, DueInv, Due
<1>2. QED
  BY <1>1, BooksInductive, PTL

-----------------------------------------------------------------------------
(* Safety: the tables stay without a stuck set, and the one pass over the    *)
(* queue serves everybody who can be served.                                 *)

\* What the safety test says of the master's tables.
LEMMA TestOfTables ==
  ASSUME TypeOK, NoOverdraft
  PROVE  is_safe_state(ALLOC, NEED, AVAILABLE, active)
           <=> NoStuckSet(ALLOC, NEED, AVAILABLE, active)
<1>1. ALLOC \in Tables /\ NEED \in Tables /\ AVAILABLE \in Vectors /\ active \in SUBSET Threads
  BY DEF TypeOK, Tables
<1>2. \A t \in Threads : Zero \preceq ALLOC[t]
  BY DEF NoOverdraft
<1>3. QED
  BY <1>1, <1>2, SafetyTestExact

\* And of the tables after a step.
LEMMA TestOfNextTables ==
  ASSUME TypeOK', NoOverdraft'
  PROVE  is_safe_state(ALLOC', NEED', AVAILABLE', active')
           <=> NoStuckSet(ALLOC', NEED', AVAILABLE', active')
<1>1. /\ ALLOC' \in Tables /\ NEED' \in Tables /\ AVAILABLE' \in Vectors
      /\ active' \in SUBSET Threads
  BY DEF TypeOK, Tables
<1>2. \A t \in Threads : Zero \preceq ALLOC'[t]
  BY DEF NoOverdraft
<1>3. QED
  BY <1>1, <1>2, SafetyTestExact

\* The session starts safe: nothing is held and no need exceeds the pool.
LEMMA InitSafe == Init => StaysSafe
<1>1. SUFFICES ASSUME Init PROVE is_safe_state(ALLOC, NEED, AVAILABLE, active)
  BY DEF StaysSafe
<1>2. TypeOK /\ NoOverdraft
  BY <1>1, InitType, InitBooks DEF BookInv
<1>3. ALLOC \in Tables /\ NEED \in Tables /\ AVAILABLE \in Vectors /\ active \in SUBSET Threads
  BY <1>2 DEF TypeOK, Tables
<1>4. \A t \in Threads : Zero \preceq ALLOC[t] /\ NEED[t] \preceq AVAILABLE
  BY <1>1, <1>2, InputAssumption DEF Init, NoOverdraft
<1>5. QED
  BY <1>2, <1>3, <1>4, NothingHeldIsSafe, TestOfTables

\* A step of the master keeps the tables safe: a grant has been tried, and
\* what is given back helps everyone.
LEMMA StepSafe ==
  ASSUME IInv, BookInv, TypeOK', BookInv', StaysSafe, [Next]_vars
  PROVE  StaysSafe'
<1>1. DLAVOID' = DLAVOID
  BY DEF Next, vars
<1>2. SUFFICES ASSUME DLAVOID
               PROVE  is_safe_state(ALLOC', NEED', AVAILABLE', active')
  BY <1>1 DEF StaysSafe
<1>3. /\ TypeOK /\ NoOverdraft /\ TypeOK' /\ NoOverdraft'
      /\ NoStuckSet(ALLOC, NEED, AVAILABLE, active)
  BY <1>2, TestOfTables DEF IInv, BookInv, StaysSafe
<1>4. /\ ALLOC \in Tables /\ NEED \in Tables /\ AVAILABLE \in Vectors
      /\ ALLOC' \in Tables /\ NEED' \in Tables /\ active \in SUBSET Threads
  BY <1>3 DEF TypeOK, Tables
<1>5. CASE UNCHANGED <<ALLOC, NEED, AVAILABLE, active>>
  BY <1>2, <1>5 DEF StaysSafe
<1>6. CASE HandleQuit
  <2>1. PICK t \in Threads : t = cur.thread_id
    BY <1>3, <1>6, RequestFields DEF HandleQuit
  <2>2. /\ ALLOC'[t] = Zero /\ AVAILABLE' = AVAILABLE \oplus ALLOC[t]
        /\ \A u \in Threads \ {t} : ALLOC'[u] = ALLOC[u] /\ NEED'[u] = NEED[u]
        /\ active' = active \ {t}
    BY <1>4, <1>6, <2>1 DEF HandleQuit, Tables
  <2>3. Zero \preceq ALLOC[t]
    BY <1>3 DEF NoOverdraft
  <2>4. PICK A \in Tables : A = ALLOC
    BY <1>4
  <2>5. PICK N \in Tables : N = NEED
    BY <1>4
  <2>6. PICK V \in Vectors : V = AVAILABLE
    BY <1>4
  <2>7. PICK act \in SUBSET Threads : act = active
    BY <1>4
  <2>8. NoStuckSet(ALLOC', NEED', V \oplus A[t], act \ {t})
    BY <1>3, <1>4, <2>2, <2>3, <2>4, <2>5, <2>6, <2>7, QuitKeepsSafe
  <2>9. QED
    BY <1>3, <2>2, <2>4, <2>6, <2>7, <2>8, TestOfNextTables
<1>7. CASE HandleAdditional \/ HandleRelease
  <2>1. cur.type \in {RELEASE, ADDITIONAL} /\ BookReleases
    BY <1>7 DEF HandleAdditional, HandleRelease
  <2>2. PICK t \in Threads : t = cur.thread_id
    BY <1>3, <2>1, RequestFields
  <2>3. PICK r \in Vectors : r = cur.request
    BY <1>3, <2>1, RequestFields
  <2>4. PICK f \in Vectors : f = Freed(r)
    BY VectorOperations
  <2>5. /\ AVAILABLE' = AVAILABLE \oplus f /\ active' = active
        /\ ALLOC'[t] = ALLOC[t] \ominus f /\ NEED'[t] = NEED[t] \oplus f
        /\ \A u \in Threads \ {t} : ALLOC'[u] = ALLOC[u] /\ NEED'[u] = NEED[u]
    BY <1>4, <2>1, <2>2, <2>3, <2>4 DEF BookReleases, Tables
  <2>6. Zero \preceq f
    <3>1. \A j \in Resources : r[j] \in Int
      BY DEF Vectors
    <3>2. QED
      BY <2>4, <3>1 DEF Freed, Zero, \preceq
  <2>7. PICK A \in Tables : A = ALLOC
    BY <1>4
  <2>8. PICK N \in Tables : N = NEED
    BY <1>4
  <2>9. PICK V \in Vectors : V = AVAILABLE
    BY <1>4
  <2>10. PICK act \in SUBSET Threads : act = active
    BY <1>4
  <2>11. NoStuckSet(ALLOC', NEED', V \oplus f, act)
    BY <1>3, <1>4, <2>5, <2>6, <2>7, <2>8, <2>9, <2>10, ReleaseKeepsSafe
  <2>12. QED
    BY <1>3, <2>5, <2>9, <2>10, <2>11, TestOfNextTables
<1>8. CASE Grant
  BY <1>2, <1>8 DEF Grant, can_fulfill_req
<1>9. QED
  <2>1. CASE UNCHANGED vars \/ Finished
    BY <1>5, <2>1 DEF vars, books, Finished
  <2>2. CASE MasterStep
    BY <1>5, <1>6, <1>7, <1>8, <2>2 DEF MasterStep, JoinBOS, JoinREQB, JoinACKB,
       CopyRequest, PassOver, EndScan, SignalLock, Signal, PutBack, Join, books
  <2>3. CASE \E t \in Threads : UserStep(t)
    BY <1>5, <2>3 DEF UserStep, JoinBOS, JoinREQB, JoinACKB, LockRmtx, WriteRequest,
       WriteQuit, LockCmtx, UnlockRmtx, CondWait, Reacquire, UnlockCmtx, books
  <2>4. QED
    BY <2>1, <2>2, <2>3 DEF Next

\* With avoidance every reachable state is safe, between the grants of one
\* pass as well, for any number of threads and resources.
THEOREM SafeThroughout == Spec => []StaysSafe
BY TypeCorrect, BooksInductive, InitSafe, StepSafe, PTL DEF Spec

\* What is asked for in the queues is no less than nothing; whoever has been passed
\* over cannot be served, and the master meets the next request with such a
\* queue, empty at first.
PassInv ==
  /\ \A e \in Pending : Zero \preceq e.req
  /\ pc[Master] \in {"bos", "in_bos"} => Q = <<>>
  /\ PassedOverOnlyIfUnservable

\* A request that can be served after a grant to another thread could have been
\* served before it: undoing the grant gives something back.
LEMMA GrantMakesNoRoom ==
  ASSUME TypeOK, NoOverdraft, TypeOK', NoOverdraft', Grant,
         Zero \preceq Lr.req, NEW e \in QueueEntries, Zero \preceq e.req,
         e.thread_id # Lr.thread_id, DLAVOID' = DLAVOID,
         can_fulfill_req(e, ALLOC', NEED', AVAILABLE', active', DLAVOID')
  PROVE  can_fulfill_req(e, ALLOC, NEED, AVAILABLE, active, DLAVOID)
<1>1. PICK u \in Threads, r \in Vectors : u = Lr.thread_id /\ r = Lr.req
  BY QueueHead DEF TypeOK, Grant, Scanning, Lr
<1>2. PICK t \in Threads, q \in Vectors : t = e.thread_id /\ q = e.req /\ t # u
  BY <1>1 DEF QueueEntries
<1>3. PICK A \in Tables, N \in Tables, V \in Vectors, act \in SUBSET Threads :
        A = ALLOC /\ N = NEED /\ V = AVAILABLE /\ act = active
  BY DEF TypeOK, Tables
<1>4. /\ AVAILABLE' = V \ominus r /\ active' = act
      /\ ALLOC' = [A EXCEPT ![u] = A[u] \oplus r]
      /\ NEED' = [N EXCEPT ![u] = N[u] \ominus r]
  BY <1>1, <1>3 DEF Grant
<1>5. /\ A[u] \in Vectors /\ A[t] \in Vectors /\ N[u] \in Vectors /\ N[t] \in Vectors
  BY DEF Tables
<1>6. /\ ALLOC'[t] = A[t] /\ NEED'[t] = N[t]
      /\ ALLOC'[u] = A[u] \oplus r /\ NEED'[u] = N[u] \ominus r
  BY <1>2, <1>4 DEF Tables
<1>7. q \preceq N[t] /\ q \preceq V \ominus r
  BY <1>2, <1>4, <1>6 DEF can_fulfill_req
<1>8. \A j \in Resources :
        /\ V[j] \in Int /\ r[j] \in Int /\ r[j] >= 0 /\ q[j] \in Int /\ q[j] >= 0
        /\ A[u][j] \in Int /\ N[u][j] \in Int /\ q[j] <= V[j] - r[j]
  BY <1>1, <1>2, <1>5, <1>7 DEF Vectors, Zero, \preceq, \ominus
<1>9. q \preceq V
  BY <1>8 DEF \preceq
<1>10. ASSUME DLAVOID
       PROVE  is_safe_state([A EXCEPT ![t] = A[t] \oplus q], [N EXCEPT ![t] = N[t] \ominus q],
                            V \ominus q, act)
  <2> DEFINE A1 == [ALLOC' EXCEPT ![t] = A[t] \oplus q]
             N1 == [NEED' EXCEPT ![t] = N[t] \ominus q]
             A2 == [A EXCEPT ![t] = A[t] \oplus q]
             N2 == [N EXCEPT ![t] = N[t] \ominus q]
  <2>1. is_safe_state(A1, N1, (V \ominus r) \ominus q, act)
    BY <1>2, <1>4, <1>6, <1>10 DEF can_fulfill_req
  <2>2. PICK B1 \in Tables, M1 \in Tables, B2 \in Tables, M2 \in Tables :
          B1 = A1 /\ M1 = N1 /\ B2 = A2 /\ M2 = N2
    <3>1. /\ A[u] \oplus r \in Vectors /\ N[u] \ominus r \in Vectors
          /\ A[t] \oplus q \in Vectors /\ N[t] \ominus q \in Vectors
      BY <1>5, VectorOperations
    <3>2. A1 \in Tables /\ N1 \in Tables /\ A2 \in Tables /\ N2 \in Tables
      BY <1>4, <3>1 DEF Tables
    <3>3. QED
      BY <3>2
  <2>3. /\ B1[t] = A[t] \oplus q /\ B2[t] = A[t] \oplus q
        /\ B1[u] = A[u] \oplus r /\ B2[u] = A[u]
        /\ M1[u] = N[u] \ominus r /\ M2[u] = N[u]
        /\ \A k \in Threads \ {u} : B2[k] = B1[k] /\ M2[k] = M1[k]
        /\ \A k \in Threads \ {t, u} : B1[k] = A[k]
    BY <1>2, <1>4, <2>2 DEF Tables
  <2>4. PICK W \in Vectors : W = (V \ominus r) \ominus q
    BY VectorOperations
  <2> HIDE DEF A1, N1, A2, N2
  <2>5. \A k \in Threads : Zero \preceq A[k]
    BY <1>3 DEF NoOverdraft
  <2>6. Zero \preceq A[t] \oplus q /\ Zero \preceq A[u] \oplus r
    BY <1>5, <1>8, <2>5 DEF Zero, \preceq, \oplus, Vectors
  <2>7. \A k \in Threads : Zero \preceq B1[k] /\ Zero \preceq B2[k]
    BY <1>2, <2>3, <2>5, <2>6
  <2>8. NoStuckSet(B1, M1, W, act)
    BY <2>1, <2>2, <2>4, <2>7, SafetyTestExact
  <2>9. B2[u] = B1[u] \ominus r /\ M2[u] = M1[u] \oplus r
    <3>1. \A j \in Resources : /\ A[u][j] = (A[u][j] + r[j]) - r[j]
                               /\ N[u][j] = (N[u][j] - r[j]) + r[j]
      BY <1>8
    <3>2. /\ (A[u] \oplus r) \ominus r = [j \in Resources |-> A[u][j]]
          /\ (N[u] \ominus r) \oplus r = [j \in Resources |-> N[u][j]]
      BY <3>1 DEF \oplus, \ominus
    <3>3. A[u] = [j \in Resources |-> A[u][j]] /\ N[u] = [j \in Resources |-> N[u][j]]
      BY <1>5 DEF Vectors
    <3>4. QED
      BY <2>3, <3>2, <3>3
  <2>10. Zero \preceq r
    BY <1>1
  <2>11. NoStuckSet(B2, M2, W \oplus r, act)
    BY <2>3, <2>8, <2>9, <2>10, ReleaseKeepsSafe
  <2>12. W \oplus r = V \ominus q
    <3>1. \A j \in Resources : ((V[j] - r[j]) - q[j]) + r[j] = V[j] - q[j]
      BY <1>8
    <3>2. QED
      BY <2>4, <3>1 DEF \oplus, \ominus
  <2>13. V \ominus q \in Vectors
    BY VectorOperations
  <2>14. is_safe_state(B2, M2, V \ominus q, act)
    BY <2>7, <2>11, <2>12, <2>13, SafetyTestExact
  <2>15. QED
    BY <2>2, <2>14 DEF A2, N2
<1>11. QED
  BY <1>2, <1>3, <1>7, <1>9, <1>10 DEF can_fulfill_req

\* Where a barrier takes the master.
LEMMA MasterMoves ==
  ASSUME TypeOK, HandshakeInv, NEW p \in Procs, NEW t \in Threads,
         JoinBOS(p) \/ JoinREQB(p) \/ JoinACKB(p, t)
  PROVE  /\ pc'[Master] \in {"bos", "in_bos"} => pc[Master] \in {"bos", "in_bos"}
         /\ pc'[Master] \in {"reqb", "in_reqb"} =>
              pc[Master] \in {"bos", "in_bos", "reqb", "in_reqb"}
<1> USE Names
<1>1. pc \in [Procs -> MasterLabels \cup UserLabels]
  BY DEF TypeOK, MasterLabels, UserLabels
<1>2. CASE JoinBOS(p)
  BY <1>1, <1>2 DEF JoinBOS, Released, Goto, AfterBOS, HandshakeInv, BarrierInv
<1>3. CASE JoinREQB(p)
  BY <1>1, <1>3 DEF JoinREQB, Released, Goto, AfterREQB, HandshakeInv, BarrierInv
<1>4. CASE JoinACKB(p, t)
  <2>1. \/ pc'[Master] = pc[Master]
        \/ pc[Master] = "ackb" /\ pc'[Master] = "in_ackb"
        \/ pc[Master] \in {"ackb", "in_ackb"} /\ pc'[Master] = AfterACKB(Master)
    BY <1>1, <1>4 DEF JoinACKB, Released, Goto, HandshakeInv, BarrierInv
  <2>2. QED
    BY <2>1 DEF AfterACKB, AfterRequest
<1>5. QED
  BY <1>2, <1>3, <1>4

\* A step that changes neither the books nor the queues.
LEMMA PassKept ==
  ASSUME PassInv, UNCHANGED <<AVAILABLE, ALLOC, NEED, active, DLAVOID, Q, temp_queue>>,
         pc'[Master] \in {"bos", "in_bos"} => pc[Master] \in {"bos", "in_bos"},
         pc'[Master] \in {"reqb", "in_reqb"} =>
           pc[Master] \in {"bos", "in_bos", "reqb", "in_reqb"}
  PROVE  PassInv'
<1>1. Pending' = Pending /\ Entries(Q') = Entries(Q) /\ Entries(temp_queue') = Entries(temp_queue)
  BY DEF Pending, Entries
<1>2. Q = <<>> => Entries(Q) = {}
  BY DEF Entries
<1>3. QED
  BY <1>1, <1>2 DEF PassInv, PassedOverOnlyIfUnservable

\* The handlers: no pass is under way, and what is asked for is made positive.
LEMMA HandlePass ==
  ASSUME TypeOK, QueueInv, PassInv, HandleQuit \/ HandleAdditional \/ HandleRelease
  PROVE  PassInv'
<1> USE Names
<1>1. pc[Master] = "handle" /\ temp_queue = <<>> /\ temp_queue' = <<>>
  BY DEF HandleQuit, HandleAdditional, HandleRelease, QueueInv, PhaseInv, queue
<1>2. pc \in [Procs -> MasterLabels \cup UserLabels] /\ Q \in Seq(QueueEntries)
  BY DEF TypeOK, MasterLabels, UserLabels
<1>3. pc'[Master] \in {"ackb", "join", "scan"}
  BY <1>2 DEF HandleQuit, HandleAdditional, HandleRelease, Goto, AfterRequest
<1>4. Entries(temp_queue) = {} /\ Entries(temp_queue') = {}
  BY <1>1 DEF Entries
<1>5. \A e \in Entries(Q') : Zero \preceq e.req
  <2>1. \A e \in Entries(Q) : Zero \preceq e.req
    BY DEF PassInv, Pending
  <2>2. CASE HandleAdditional
    <3>1. cur.thread_id \in Threads /\ cur.request \in Vectors
      BY <2>2, RequestFields DEF HandleAdditional
    <3>2. PICK e \in QueueEntries :
            e = [thread_id |-> cur.thread_id, req |-> Wanted(cur.request)]
      BY <3>1, VectorOperations DEF QueueEntries
    <3>3. Zero \preceq Wanted(cur.request)
      BY <3>1 DEF Wanted, Zero, \preceq, Vectors
    <3>4. Entries(Q') = Entries(Q) \cup {e}
      BY <1>2, <2>2, <3>2, EntryOperations DEF HandleAdditional
    <3>5. QED
      BY <2>1, <3>2, <3>3, <3>4
  <2>3. CASE HandleQuit \/ HandleRelease
    BY <2>1, <2>3 DEF HandleQuit, HandleRelease, queue, Entries
  <2>4. QED
    BY <2>2, <2>3
<1>6. QED
  BY <1>3, <1>4, <1>5 DEF PassInv, PassedOverOnlyIfUnservable, Pending

\* A grant leaves those passed over where they are, and unservable.
LEMMA GrantPass ==
  ASSUME IInv, BookInv, PassInv, TypeOK', BookInv', Grant, DLAVOID' = DLAVOID
  PROVE  PassInv'
<1> USE Names
<1>1. /\ pc[Master] = "scan" /\ Q # <<>> /\ Q' = Tail(Q) /\ temp_queue' = temp_queue
      /\ pc' = pc
  BY DEF Grant, Scanning
<1>2. /\ TypeOK /\ NoOverdraft /\ NoOverdraft' /\ QueueInv
      /\ Q \in Seq(QueueEntries) /\ temp_queue \in Seq(QueueEntries)
  BY DEF IInv, TypeOK, BookInv
<1>3. Lr \in QueueEntries /\ Lr.thread_id \in Threads
  BY <1>1, <1>2, QueueHead DEF Lr
<1>4. Entries(Q) = {Lr} \cup Entries(Q') /\ Entries(temp_queue') = Entries(temp_queue)
  <2>1. Entries(Q) = {Head(Q)} \cup Entries(Tail(Q))
    BY <1>1, <1>2, <1>3, EntryOperations
  <2>2. QED
    BY <1>1, <2>1 DEF Lr
<1>5. /\ \A e \in Entries(Q') \cup Entries(temp_queue') : Zero \preceq e.req
      /\ Zero \preceq Lr.req
  BY <1>4 DEF PassInv, Pending
<1>6. ASSUME NEW e \in Entries(temp_queue),
             can_fulfill_req(e, ALLOC', NEED', AVAILABLE', active', DLAVOID')
      PROVE  FALSE
  <2>1. e \in QueueEntries /\ e.thread_id \in Threads
    <3>1. Entries(temp_queue) \subseteq QueueEntries
      BY <1>2, <1>3, EntryOperations
    <3>2. QED
      BY <1>6, <3>1 DEF QueueEntries
  <2>2. HasEntry(temp_queue, e.thread_id)
    BY <1>2, <1>3, <2>1, EntryOperations
  <2>3. HasEntry(Q, Lr.thread_id)
    BY <1>2, <1>3, <1>4, EntryOperations
  <2>4. e.thread_id # Lr.thread_id
    BY <1>2, <2>1, <2>2, <2>3 DEF QueueInv, OneRequestPerSleeper
  <2>5. Zero \preceq e.req
    BY <1>4, <1>5
  <2>6. can_fulfill_req(e, ALLOC, NEED, AVAILABLE, active, DLAVOID)
    BY <1>2, <1>5, <1>6, <2>1, <2>4, <2>5, GrantMakesNoRoom
  <2>7. QED
    BY <2>6 DEF PassInv, PassedOverOnlyIfUnservable
<1>7. QED
  BY <1>1, <1>4, <1>5, <1>6 DEF PassInv, PassedOverOnlyIfUnservable, Pending

\* The two steps of the pass that keep a request.
LEMMA KeepPass ==
  ASSUME TypeOK, QueueInv, PassInv, PassOver \/ PutBack, DLAVOID' = DLAVOID
  PROVE  PassInv'
<1> USE Names
<1>1. UNCHANGED <<AVAILABLE, ALLOC, NEED, active>>
  BY DEF PassOver, PutBack, books
<1>2. /\ Q \in Seq(QueueEntries) /\ temp_queue \in Seq(QueueEntries)
      /\ pc \in [Procs -> MasterLabels \cup UserLabels]
  BY DEF TypeOK, MasterLabels, UserLabels
<1>3. CASE PutBack
  <2>1. /\ Q' = temp_queue /\ temp_queue' = <<>> /\ pc'[Master] = "reqb"
    BY <1>2, <1>3 DEF PutBack, Goto
  <2>2. Entries(Q') = Entries(temp_queue) /\ Entries(temp_queue') = {}
    BY <2>1 DEF Entries
  <2>3. QED
    BY <1>1, <2>1, <2>2 DEF PassInv, PassedOverOnlyIfUnservable, Pending
<1>4. CASE PassOver
  <2>1. /\ pc[Master] = "scan" /\ pc' = pc /\ Q # <<>> /\ Q' = Tail(Q)
        /\ \/ temp_queue' = temp_queue
           \/ /\ temp_queue' = Append(temp_queue, Lr)
              /\ ~ can_fulfill_req(Lr, ALLOC, NEED, AVAILABLE, active, DLAVOID)
    BY <1>4 DEF PassOver, Scanning
  <2>2. Lr \in QueueEntries
    BY <1>2, <2>1, QueueHead DEF Lr
  <2>3. Entries(Q) = {Lr} \cup Entries(Q')
    BY <1>2, <2>1, <2>2, EntryOperations DEF Lr
  <2>4. \/ Entries(temp_queue') = Entries(temp_queue)
        \/ /\ Entries(temp_queue') = Entries(temp_queue) \cup {Lr}
           /\ ~ can_fulfill_req(Lr, ALLOC, NEED, AVAILABLE, active, DLAVOID)
    <3>1. Entries(Append(temp_queue, Lr)) = Entries(temp_queue) \cup {Lr}
      BY <1>2, <2>2, EntryOperations
    <3>2. QED
      BY <2>1, <3>1
  <2>5. QED
    BY <1>1, <2>1, <2>3, <2>4 DEF PassInv, PassedOverOnlyIfUnservable, Pending
<1>5. QED
  BY <1>3, <1>4

\* The step, action by action.
LEMMA StepPass ==
  ASSUME IInv, BookInv, PassInv, TypeOK', BookInv', [Next]_vars
  PROVE  PassInv'
<1> USE Names
<1>1. DLAVOID' = DLAVOID /\ TypeOK /\ HandshakeInv /\ QueueInv
  BY DEF Next, vars, IInv
<1>2. pc \in [Procs -> MasterLabels \cup UserLabels]
  BY <1>1 DEF TypeOK, MasterLabels, UserLabels
<1>3. CASE UNCHANGED vars \/ Finished
  BY <1>3, PassKept DEF vars, books, queue, Finished
<1>4. ASSUME NEW p \in Procs, NEW t \in Threads, JoinBOS(p) \/ JoinREQB(p) \/ JoinACKB(p, t)
      PROVE  PassInv'
  <2>1. UNCHANGED <<AVAILABLE, ALLOC, NEED, active, Q, temp_queue>>
    BY <1>4 DEF JoinBOS, JoinREQB, JoinACKB, books, queue
  <2>2. QED
    BY <1>1, <1>4, <2>1, MasterMoves, PassKept
<1>5. CASE MasterStep
  <2>1. CASE CopyRequest \/ EndScan \/ SignalLock \/ Signal \/ Join
    <3>1. UNCHANGED <<AVAILABLE, ALLOC, NEED, active, Q, temp_queue>>
      BY <2>1 DEF CopyRequest, EndScan, SignalLock, Signal, Join, books, queue
    <3>2. pc'[Master] \notin {"bos", "in_bos", "reqb", "in_reqb"}
      <4>1. CASE Signal
        <5>1. Head(fulfilled_queue).thread_id \in Threads
          BY <1>1, <4>1, QueueHead DEF Signal, TypeOK
        <5>2. QED
          BY <1>2, <4>1, <5>1 DEF Signal
      <4>2. CASE CopyRequest \/ EndScan \/ SignalLock \/ Join
        BY <1>2, <4>2 DEF CopyRequest, EndScan, SignalLock, Join, Goto
      <4>3. QED
        BY <2>1, <4>1, <4>2
    <3>3. QED
      BY <1>1, <3>1, <3>2, PassKept
  <2>2. CASE JoinBOS(Master) \/ JoinREQB(Master)
    <3>1. 0 \in Threads
      BY CountsAssumption DEF Threads
    <3>2. QED
      BY <1>4, <2>2, <3>1
  <2>3. CASE \E t \in Threads : JoinACKB(Master, t)
    BY <1>4, <2>3
  <2>4. CASE HandleQuit \/ HandleAdditional \/ HandleRelease
    BY <1>1, <2>4, HandlePass
  <2>5. CASE Grant
    BY <1>1, <2>5, GrantPass
  <2>6. CASE PassOver \/ PutBack
    BY <1>1, <2>6, KeepPass
  <2>7. QED
    BY <1>5, <2>1, <2>2, <2>3, <2>4, <2>5, <2>6 DEF MasterStep
<1>6. ASSUME NEW t \in Threads, UserStep(t) PROVE PassInv'
  <2>1. CASE JoinBOS(t) \/ JoinREQB(t) \/ JoinACKB(t, t)
    BY <1>4, <2>1
  <2>2. CASE \/ LockRmtx(t) \/ WriteRequest(t) \/ WriteQuit(t) \/ LockCmtx(t)
             \/ UnlockRmtx(t) \/ CondWait(t) \/ Reacquire(t) \/ UnlockCmtx(t)
    <3>1. UNCHANGED <<AVAILABLE, ALLOC, NEED, active, Q, temp_queue>>
      BY <2>2 DEF LockRmtx, WriteRequest, WriteQuit, LockCmtx, UnlockRmtx, CondWait,
         Reacquire, UnlockCmtx, books, queue
    <3>2. pc'[Master] = pc[Master]
      BY <1>2, <2>2 DEF LockRmtx, WriteRequest, WriteQuit, LockCmtx, UnlockRmtx, CondWait,
         Reacquire, UnlockCmtx, Goto
    <3>3. QED
      BY <1>1, <3>1, <3>2, PassKept
  <2>3. QED
    BY <1>6, <2>1, <2>2 DEF UserStep
<1>7. QED
  BY <1>3, <1>5, <1>6 DEF Next

\* The invariant of the pass holds throughout.
LEMMA PassInductive == Spec => [](IInv /\ BookInv /\ PassInv)
<1>1. Init => PassInv
  BY DEF Init, PassInv, PassedOverOnlyIfUnservable, Pending, Entries
<1>2. IInv => TypeOK
  BY DEF IInv
<1>3. QED
  BY <1>1, <1>2, BooksInductive, StepPass, PTL DEF Spec

\* One pass over the queue, front to back, is enough: nobody who was passed over
\* could be served after it, whatever was granted behind him.
THEOREM NobodyIsOvertakenInVain == Spec => []PassedOverOnlyIfUnservable
BY PassInductive, PTL DEF PassInv

-----------------------------------------------------------------------------
(* Deadlock: with avoidance the threads never all wait for resources.        *)

\* While the master waits for a request, some live thread is on its way to make one.
SomebodyAwake ==
  DLAVOID /\ pc[Master] \in {"reqb", "in_reqb"} /\ active # {} =>
    \E t \in active : ~ Sleeping(t)

\* What a queued request asks for is within the need of its thread.
LEMMA AskedWithinNeed ==
  ASSUME TypeOK, BookInv, NEW e \in Pending, e \in QueueEntries
  PROVE  e.req \preceq NEED[e.thread_id]
<1>1. PICK t \in Threads, q \in Vectors : t = e.thread_id /\ q = e.req
  BY DEF QueueEntries
<1>2. PICK d \in Vectors : d = ALLOC[t] \oplus q /\ d \preceq MAX_NEED[t]
  BY <1>1 DEF BookInv, DueInv, Due
<1>3. MAX_NEED[t] = NEED[t] \oplus ALLOC[t]
  BY DEF BookInv, NeedBalances
<1>4. ALLOC[t] \in Vectors /\ NEED[t] \in Vectors
  BY DEF TypeOK
<1>5. ASSUME NEW j \in Resources PROVE q[j] <= NEED[t][j]
  <2>1. ALLOC[t][j] + q[j] <= NEED[t][j] + ALLOC[t][j]
    BY <1>2, <1>3 DEF \preceq, \oplus
  <2>2. ALLOC[t][j] \in Int /\ NEED[t][j] \in Int /\ q[j] \in Int
    BY <1>4 DEF Vectors
  <2>3. QED
    BY <2>1, <2>2
<1>6. QED
  BY <1>1, <1>5 DEF \preceq

\* Where all that a thread may still need could be granted safely, so could a part.
LEMMA PartOfNeedIsSafe ==
  ASSUME NEW A \in Tables, NEW N \in Tables, NEW V \in Vectors, NEW act \in SUBSET Threads,
         \A k \in Threads : Zero \preceq A[k],
         NEW t \in Threads, NEW q \in Vectors, Zero \preceq q, q \preceq N[t],
         \A B, M \in Tables :
           /\ B[t] = A[t] \oplus N[t] /\ M[t] = Zero
           /\ \A u \in Threads \ {t} : B[u] = A[u] /\ M[u] = N[u]
           => NoStuckSet(B, M, V \ominus N[t], act)
  PROVE  is_safe_state([A EXCEPT ![t] = A[t] \oplus q], [N EXCEPT ![t] = N[t] \ominus q],
                       V \ominus q, act)
<1> DEFINE f == N[t] \ominus q
<1>1. /\ A[t] \in Vectors /\ N[t] \in Vectors /\ f \in Vectors /\ Zero \in Vectors
      /\ V \ominus N[t] \in Vectors /\ V \ominus q \in Vectors
  BY VectorOperations DEF Tables
<1>2. \A j \in Resources :
        /\ A[t][j] \in Int /\ N[t][j] \in Int /\ V[j] \in Int /\ q[j] \in Int
        /\ 0 <= q[j] /\ q[j] <= N[t][j] /\ f[j] = N[t][j] - q[j] /\ 0 <= A[t][j]
  <2>1. Zero \preceq A[t]
    OBVIOUS
  <2>2. \A j \in Resources : 0 <= q[j] /\ q[j] <= N[t][j] /\ 0 <= A[t][j]
    BY <2>1 DEF Zero, \preceq
  <2>3. QED
    BY <1>1, <2>2 DEF Vectors, \ominus
<1>3. Zero \preceq f
  <2>1. \A j \in Resources : 0 <= f[j]
    BY <1>2
  <2>2. QED
    BY <2>1 DEF Zero, \preceq
<1> HIDE DEF f
<1>4. PICK B \in Tables, M \in Tables :
        /\ B = [A EXCEPT ![t] = A[t] \oplus N[t]] /\ M = [N EXCEPT ![t] = Zero]
  <2>1. A[t] \oplus N[t] \in Vectors
    BY <1>1, VectorOperations
  <2>2. QED
    BY <1>1, <2>1 DEF Tables
<1>5. PICK C \in Tables, P \in Tables :
        /\ C = [A EXCEPT ![t] = A[t] \oplus q] /\ P = [N EXCEPT ![t] = N[t] \ominus q]
  <2>1. A[t] \oplus q \in Vectors /\ N[t] \ominus q \in Vectors
    BY <1>1, VectorOperations
  <2>2. QED
    BY <1>1, <2>1 DEF Tables
<1>6. /\ B[t] = A[t] \oplus N[t] /\ M[t] = Zero
      /\ C[t] = A[t] \oplus q /\ P[t] = N[t] \ominus q
      /\ \A u \in Threads \ {t} : B[u] = A[u] /\ M[u] = N[u] /\ C[u] = A[u] /\ P[u] = N[u]
  BY <1>4, <1>5 DEF Tables
<1>7. NoStuckSet(B, M, V \ominus N[t], act)
  BY <1>6
<1>8. C[t] = B[t] \ominus f /\ P[t] = M[t] \oplus f /\ (V \ominus N[t]) \oplus f = V \ominus q
  <2>1. \A j \in Resources :
          /\ A[t][j] + q[j] = (A[t][j] + N[t][j]) - f[j]
          /\ N[t][j] - q[j] = 0 + f[j]
          /\ (V[j] - N[t][j]) + f[j] = V[j] - q[j]
    BY <1>2
  <2>2. QED
    BY <1>6, <2>1 DEF \oplus, \ominus, Zero
<1>9. NoStuckSet(C, P, V \ominus q, act)
  <2>1. \A u \in Threads \ {t} : C[u] = B[u] /\ P[u] = M[u]
    BY <1>6
  <2>2. NoStuckSet(C, P, (V \ominus N[t]) \oplus f, act)
    BY <1>1, <1>3, <1>7, <1>8, <2>1, ReleaseKeepsSafe
  <2>3. QED
    BY <1>8, <2>2
<1>10. \A k \in Threads : Zero \preceq C[k]
  <2>1. \A j \in Resources : 0 <= A[t][j] + q[j]
    BY <1>2
  <2>2. Zero \preceq C[t]
    BY <1>6, <2>1 DEF Zero, \preceq, \oplus
  <2>3. QED
    BY <1>6, <2>2
<1>11. QED
  BY <1>1, <1>5, <1>9, <1>10, SafetyTestExact

\* With avoidance there is no deadlock over the resources: if every live thread
\* slept, the request of one of them could be granted, and the pass before had
\* left it ungranted.
THEOREM NoDeadlockWithAvoidance == Spec => []SomebodyAwake
<1>1. ASSUME IInv, BookInv, PassInv, StaysSafe PROVE SomebodyAwake
  <2>1. SUFFICES ASSUME DLAVOID, pc[Master] \in {"reqb", "in_reqb"}, active # {},
                        \A t \in active : Sleeping(t)
                 PROVE  FALSE
    BY DEF SomebodyAwake
  <2>2. TypeOK /\ NoOverdraft /\ QueueInv /\ Q \in Seq(QueueEntries)
    BY <1>1 DEF IInv, BookInv, TypeOK
  <2>3. PICK A \in Tables, N \in Tables, V \in Vectors, act \in SUBSET Threads :
          A = ALLOC /\ N = NEED /\ V = AVAILABLE /\ act = active
    BY <2>2 DEF TypeOK, Tables
  <2>4. NoStuckSet(A, N, V, act) /\ \A k \in Threads : Zero \preceq A[k]
    BY <1>1, <2>1, <2>2, <2>3, TestOfTables DEF StaysSafe, NoOverdraft
  <2>5. PICK t \in act :
          /\ N[t] \preceq V
          /\ \A B, M \in Tables :
               /\ B[t] = A[t] \oplus N[t] /\ M[t] = Zero
               /\ \A u \in Threads \ {t} : B[u] = A[u] /\ M[u] = N[u]
               => NoStuckSet(B, M, V \ominus N[t], act)
    <3>1. act # {}
      BY <2>1, <2>3
    <3>2. QED
      BY <2>4, <3>1, SomebodyCanBeServed
  <2>6. HasEntry(Q, t)
    <3>1. temp_queue = <<>> /\ fulfilled_queue = <<>>
      BY <2>1, <2>2 DEF QueueInv, PhaseInv
    <3>2. ~ HasEntry(temp_queue, t) /\ ~ HasEntry(fulfilled_queue, t)
      BY <3>1 DEF HasEntry
    <3>3. Sleeping(t) /\ ~ Booking(t)
      BY <2>1, <2>3 DEF Booking
    <3>4. QED
      BY <2>2, <2>3, <3>2, <3>3 DEF QueueInv, OneRequestPerSleeper, InLine
  <2>7. PICK e \in Entries(Q) : e.thread_id = t
    BY <2>6 DEF HasEntry, Entries
  <2>8. e \in QueueEntries /\ e \in Pending
    BY <2>2, <2>7 DEF Entries, Pending
  <2>9. PICK q \in Vectors : q = e.req
    BY <2>8 DEF QueueEntries
  <2>10. Zero \preceq q /\ q \preceq N[t]
    BY <1>1, <2>2, <2>3, <2>7, <2>8, <2>9, AskedWithinNeed DEF PassInv
  <2>11. q \preceq V
    <3>1. N[t] \in Vectors
      BY DEF Tables
    <3>2. \A j \in Resources : /\ q[j] \in Int /\ N[t][j] \in Int /\ V[j] \in Int
                               /\ q[j] <= N[t][j] /\ N[t][j] <= V[j]
      BY <2>5, <2>10, <3>1 DEF Vectors, \preceq
    <3>3. \A j \in Resources : q[j] <= V[j]
      BY <3>2
    <3>4. QED
      BY <3>3 DEF \preceq
  <2>12. is_safe_state([A EXCEPT ![t] = A[t] \oplus q], [N EXCEPT ![t] = N[t] \ominus q],
                       V \ominus q, act)
    BY <2>4, <2>5, <2>10, PartOfNeedIsSafe
  <2>13. can_fulfill_req(e, ALLOC, NEED, AVAILABLE, active, DLAVOID)
    BY <2>3, <2>7, <2>9, <2>10, <2>11, <2>12 DEF can_fulfill_req
  <2>14. QED
    BY <1>1, <2>1, <2>7, <2>13 DEF PassInv, PassedOverOnlyIfUnservable
<1>2. QED
  BY <1>1, PassInductive, SafeThroughout, PTL
-----------------------------------------------------------------------------
(* The session implements the abstract allocator.                            *)

\* The thread whose request the master carries or books is live.
LiveInv ==
  /\ pc[Master] = "copy" => rmtx \in active
  /\ pc[Master] = "handle" => cur.thread_id \in active
  /\ pc[Master] \in {"ackb", "in_ackb"} /\ cur.type # QUIT => cur.thread_id \in active

\* A thread that has not been seen off is live when the master meets it.
LEMMA StepLive ==
  ASSUME IInv, LiveInv, [Next]_vars
  PROVE  LiveInv'
<1> USE Names
<1>1. /\ TypeOK /\ HandshakeInv /\ ActiveInv /\ QueueInv
      /\ pc \in [Procs -> MasterLabels \cup UserLabels]
  BY DEF IInv, TypeOK, MasterLabels, UserLabels
<1>2. CASE UNCHANGED vars \/ Finished
  BY <1>2 DEF vars, sync, books, Finished, LiveInv
<1>3. ASSUME NEW p \in Procs, NEW t \in Threads, JoinBOS(p) \/ JoinACKB(p, t)
      PROVE  LiveInv'
  <2>1. UNCHANGED <<cur, rmtx, active>>
    BY <1>3 DEF JoinBOS, JoinACKB, books
  <2>2. CASE JoinBOS(p)
    <3>1. pc'[Master] = pc[Master] \/ pc'[Master] \in {"in_bos", "reqb"}
      BY <1>1, <2>2 DEF JoinBOS, Released, Goto, AfterBOS, HandshakeInv, BarrierInv
    <3>2. QED
      BY <2>1, <3>1 DEF LiveInv
  <2>3. CASE JoinACKB(p, t)
    <3>1. \/ pc'[Master] = pc[Master]
          \/ pc[Master] = "ackb" /\ pc'[Master] = "in_ackb"
          \/ pc[Master] \in {"ackb", "in_ackb"} /\ pc'[Master] = AfterACKB(Master)
      BY <1>1, <2>3 DEF JoinACKB, Released, Goto, HandshakeInv, BarrierInv
    <3>2. QED
      BY <2>1, <3>1 DEF LiveInv, AfterACKB, AfterRequest
  <2>4. QED
    BY <1>3, <2>2, <2>3
<1>4. ASSUME NEW p \in Procs, JoinREQB(p) PROVE LiveInv'
  <2>1. UNCHANGED <<cur, rmtx, active>>
    BY <1>4 DEF JoinREQB, books
  <2>2. \/ pc'[Master] = pc[Master]
        \/ pc'[Master] = "in_reqb"
        \/ pc'[Master] = "copy" /\ \E u \in Threads : pc[u] \in {"reqb", "in_reqb"}
    <3>1. CASE p = Master
      <4>1. \A q \in REQB : pc[q] = "in_reqb" /\ q \in Procs /\ q # Master
        BY <1>1, <1>4, <3>1 DEF HandshakeInv, BarrierInv, JoinREQB
      <4>2. QED
        BY <1>1, <1>4, <3>1, <4>1 DEF JoinREQB, Released, Goto, AfterREQB
    <3>2. CASE p \in Threads
      BY <1>1, <1>4, <3>2 DEF JoinREQB, Released, Goto, AfterREQB, HandshakeInv, BarrierInv
    <3>3. QED
      BY <3>1, <3>2
  <2>3. ASSUME NEW u \in Threads, pc[u] \in {"reqb", "in_reqb"} PROVE rmtx \in active
    BY <1>1, <2>3 DEF ActiveInv, HandshakeInv, RmtxInv, Handshaking
  <2>4. QED
    BY <2>1, <2>2, <2>3 DEF LiveInv
<1>5. CASE MasterStep
  <2>1. CASE JoinBOS(Master) \/ JoinREQB(Master)
    <3>1. 0 \in Threads
      BY CountsAssumption DEF Threads
    <3>2. QED
      BY <1>3, <1>4, <2>1, <3>1
  <2>2. CASE \E t \in Threads : JoinACKB(Master, t)
    BY <1>3, <2>2
  <2>3. CASE CopyRequest
    <3>1. /\ cur' = g_request /\ UNCHANGED <<rmtx, active>> /\ pc'[Master] \in {"handle", "ackb"}
          /\ pc[Master] = "copy"
      BY <1>1, <2>3 DEF CopyRequest, Goto, sync, books
    <3>2. g_request.thread_id = rmtx
      BY <1>1, <3>1 DEF HandshakeInv, TransitInv, InTransit
    <3>3. QED
      BY <3>1, <3>2 DEF LiveInv
  <2>4. CASE HandleQuit
    BY <1>1, <2>4 DEF HandleQuit, Goto, LiveInv
  <2>5. CASE \/ HandleAdditional \/ HandleRelease \/ Grant \/ PassOver \/ EndScan
             \/ SignalLock \/ PutBack \/ Join
    BY <1>1, <2>5 DEF HandleAdditional, HandleRelease, Grant, PassOver, Scanning, EndScan,
       SignalLock, PutBack, Join, Goto, AfterRequest, LiveInv
  <2>6. CASE Signal
    <3>1. Head(fulfilled_queue).thread_id \in Threads
      BY <1>1, <2>6, QueueHead DEF Signal, TypeOK
    <3>2. pc'[Master] = "signal"
      BY <1>1, <2>6, <3>1 DEF Signal
    <3>3. QED
      BY <3>2 DEF LiveInv
  <2>7. QED
    BY <1>5, <2>1, <2>2, <2>3, <2>4, <2>5, <2>6 DEF MasterStep
<1>6. ASSUME NEW t \in Threads, UserStep(t) PROVE LiveInv'
  <2>1. CASE JoinBOS(t) \/ JoinREQB(t) \/ JoinACKB(t, t)
    BY <1>3, <1>4, <2>1
  <2>2. CASE \/ LockRmtx(t) \/ WriteRequest(t) \/ WriteQuit(t) \/ LockCmtx(t)
             \/ UnlockRmtx(t) \/ CondWait(t) \/ Reacquire(t) \/ UnlockCmtx(t)
    <3>1. UNCHANGED <<cur, active>> /\ pc'[Master] = pc[Master]
      BY <1>1, <2>2 DEF LockRmtx, WriteRequest, WriteQuit, LockCmtx, UnlockRmtx, CondWait,
         Reacquire, UnlockCmtx, Goto, books
    <3>2. pc[Master] = "copy" => rmtx' = rmtx
      <4>1. SUFFICES ASSUME pc[Master] = "copy" PROVE rmtx' = rmtx
        OBVIOUS
      <4>2. rmtx \in Threads /\ pc[rmtx] \in {"ackb", "in_ackb"}
        BY <1>1, <4>1 DEF HandshakeInv, TransitInv, InTransit
      <4>3. ~ LockRmtx(t) /\ ~ UnlockRmtx(t)
        BY <1>1, <4>2 DEF LockRmtx, UnlockRmtx, HandshakeInv, RmtxInv, Handshaking
      <4>4. QED
        BY <2>2, <4>3 DEF WriteRequest, WriteQuit, LockCmtx, CondWait, Reacquire,
           UnlockCmtx, sync
    <3>3. QED
      BY <3>1, <3>2 DEF LiveInv
  <2>3. QED
    BY <1>6, <2>1, <2>2 DEF UserStep
<1>7. QED
  BY <1>2, <1>5, <1>6 DEF Next

\* What a thread asks for by the abstract allocator is what its queued request says.
LEMMA AskedIs ==
  ASSUME TypeOK, QueueInv, ActiveInv, NEW t \in Threads
  PROVE  /\ ~ Waiting(t) => Asked(t) = Zero
         /\ \A e \in Pending : e.thread_id = t => Asked(t) = e.req
<1> DEFINE mine == {e \in Pending : e.thread_id = t}
<1>1. Asked(t) = IF mine = {} THEN Zero ELSE (CHOOSE e \in mine : TRUE).req
  BY DEF Asked, Pending
<1>2. ~ Waiting(t) => mine = {}
  BY DEF Waiting
<1>3. ASSUME NEW e \in mine, NEW f \in mine PROVE e = f
  <2>1. Q \in Seq(QueueEntries) /\ temp_queue \in Seq(QueueEntries)
    BY DEF TypeOK
  <2>2. /\ Distinct(Q) /\ Distinct(temp_queue)
        /\ ~ (HasEntry(Q, t) /\ HasEntry(temp_queue, t))
    BY DEF QueueInv, OneRequestPerSleeper
  <2>3. \/ e \in Entries(Q) /\ f \in Entries(Q)
        \/ e \in Entries(temp_queue) /\ f \in Entries(temp_queue)
    BY <2>2 DEF Pending, HasEntry, Entries
  <2>4. QED
    BY <2>2, <2>3 DEF Entries, Distinct
<1> HIDE DEF mine
<1>4. ASSUME NEW e \in mine PROVE Asked(t) = e.req
  <2>1. (CHOOSE f \in mine : TRUE) \in mine
    BY <1>4
  <2>2. (CHOOSE f \in mine : TRUE) = e
    BY <1>3, <2>1
  <2>3. QED
    BY <1>1, <1>4, <2>2
<1>5. QED
  BY <1>1, <1>2, <1>4 DEF mine

\* The same after a step.
LEMMA AskedIsNext ==
  ASSUME TypeOK', QueueInv', ActiveInv', NEW t \in Threads
  PROVE  /\ ~ Waiting(t)' => Asked(t)' = Zero
         /\ \A e \in Pending' : e.thread_id = t => Asked(t)' = e.req
<1> DEFINE mine == {e \in Pending' : e.thread_id = t}
<1>1. Asked(t)' = IF mine = {} THEN Zero ELSE (CHOOSE e \in mine : TRUE).req
  BY DEF Asked, Pending
<1>2. ~ Waiting(t)' => mine = {}
  BY DEF Waiting
<1>3. ASSUME NEW e \in mine, NEW f \in mine PROVE e = f
  <2>1. /\ Distinct(Q') /\ Distinct(temp_queue')
        /\ ~ (HasEntry(Q', t) /\ HasEntry(temp_queue', t))
    BY DEF QueueInv, OneRequestPerSleeper
  <2>2. \/ e \in Entries(Q') /\ f \in Entries(Q')
        \/ e \in Entries(temp_queue') /\ f \in Entries(temp_queue')
    BY <2>1 DEF Pending, HasEntry, Entries
  <2>3. QED
    BY <2>1, <2>2 DEF Entries, Distinct
<1> HIDE DEF mine
<1>4. ASSUME NEW e \in mine PROVE Asked(t)' = e.req
  <2>1. (CHOOSE f \in mine : TRUE) \in mine
    BY <1>4
  <2>2. (CHOOSE f \in mine : TRUE) = e
    BY <1>3, <2>1
  <2>3. QED
    BY <1>1, <1>4, <2>2
<1>5. QED
  BY <1>1, <1>2, <1>4 DEF mine

\* Where the requests in line stay, so does what everybody asks for.
LEMMA AskedKept ==
  ASSUME Pending' = Pending
  PROVE  \A t \in Threads : Asked(t)' = Asked(t)
<1>1. ASSUME NEW t \in Threads PROVE Asked(t)' = Asked(t)
  <2> DEFINE Of(P) == {e \in P : e.thread_id = t}
             Said(P) == IF Of(P) = {} THEN Zero ELSE (CHOOSE e \in Of(P) : TRUE).req
  <2>1. Asked(t) = Said(Pending)
    BY DEF Asked, Pending
  <2>2. Asked(t)' = Said(Pending')
    BY DEF Asked, Pending
  <2> HIDE DEF Said
  <2>3. QED
    BY <2>1, <2>2
<1>2. QED
  BY <1>1

\* The pool never holds more than there is.
LEMMA PoolWithinTotal ==
  ASSUME TypeOK, BookInv
  PROVE  \A j \in Resources : AVAILABLE[j] \in 0 .. TOTAL[j]
<1>1. PICK A \in Tables : A = ALLOC
  BY DEF TypeOK, Tables
<1>2. PICK B \in Tables : B = [t \in Threads |-> Zero]
  <2>1. Zero \in Vectors
    BY DEF Zero, Vectors
  <2>2. [t \in Threads |-> Zero] \in Tables
    BY <2>1 DEF Tables
  <2>3. QED
    BY <2>2
<1>3. ASSUME NEW j \in Resources PROVE AVAILABLE[j] \in 0 .. TOTAL[j]
  <2>1. \A t \in Threads : B[t][j] <= A[t][j]
    BY <1>1, <1>2 DEF BookInv, NoOverdraft, Zero, \preceq
  <2>2. Totals(B, j)[n] <= Totals(A, j)[n]
    BY <2>1, TotalsMonotone
  <2>3. Totals(B, j)[n] = 0
    BY <1>2, TotalOfNothing
  <2>4. Totals(A, j)[n] \in Int
    <3>1. Adds(A, j, Totals(A, j), n)
      BY TotalsAdd DEF Tables
    <3>2. n \in 0 .. n
      BY CountsAssumption
    <3>3. QED
      BY <3>1, <3>2 DEF Adds
  <2>5. AVAILABLE[j] + Totals(A, j)[n] = TOTAL[j]
    <3>1. TotalAllocated(j) = Totals(ALLOC, j)[n]
      BY DEF TotalAllocated, Totals
    <3>2. AVAILABLE[j] + TotalAllocated(j) = TOTAL[j]
      BY <1>1 DEF BookInv, Conservation
    <3>3. QED
      BY <1>1, <3>1, <3>2
  <2>6. AVAILABLE[j] \in Int /\ AVAILABLE[j] >= 0 /\ TOTAL[j] \in Int
    BY InputAssumption DEF TypeOK, Vectors, BookInv, NoOverdraft, Zero, \preceq
  <2>7. QED
    BY <2>2, <2>3, <2>4, <2>5, <2>6
<1>4. QED
  BY <1>3

\* The vectors of the allocator's choices, and its need.
LEMMA AllocatorTerms ==
  /\ Abstract!Nothing = Zero
  /\ \A u, v : Abstract!Add(u, v) = u \oplus v
  /\ \A u, v : Abstract!Less(u, v) = u \ominus v
  /\ \A u, v : Abstract!Covers(u, v) <=> v \preceq u
BY DEF Abstract!Nothing, Abstract!Add, Abstract!Less, Abstract!Covers, Zero, \oplus,
   \ominus, \preceq

\* Safe by the allocator's definition is safe by SafeState's.
LEMMA AllocatorSafety ==
  ASSUME NEW V, NEW A, NEW N, NEW act
  PROVE  Abstract!SafeByDefinition(V, A, N, act, Resources)
           <=> SafeByDefinition(V, A, N, act, Resources)
<1>1. \A S : Abstract!Orders(S) = Orders(S)
  BY DEF Abstract!Orders, Orders, Abstract!Cardinality, Cardinality
<1>2. ASSUME NEW S, NEW j PROVE Abstract!GivenBack(A, S, j) = GivenBack(A, S, j)
  BY DEF Abstract!GivenBack, GivenBack, Abstract!MapThenSumSet, MapThenSumSet,
     Abstract!MapThenFoldSet, MapThenFoldSet
<1> HIDE CountsAssumption, InputAssumption, BoundAssumption
<1>3. QED
  BY <1>1, <1>2 DEF Abstract!SafeByDefinition, SafeByDefinition

\* The allocator starts where the session does.
LEMMA InitAllocates == Init => Abstract!Start
<1>1. SUFFICES ASSUME Init PROVE Abstract!Start
  OBVIOUS
<1>2. \A t \in Threads : Asked(t) = Zero
  BY <1>1 DEF Init, Asked, Entries
<1>3. QED
  BY <1>1, <1>2, AllocatorTerms DEF Init, Abstract!Start

\* A step that leaves the pool, the table and the requests in line is none of the
\* allocator's.
LEMMA QuietAllocates ==
  ASSUME UNCHANGED <<DLAVOID, AVAILABLE, ALLOC, active>>, Pending' = Pending
  PROVE  UNCHANGED Abstract!avars
<1>1. [t \in Threads |-> Asked(t)]' = [t \in Threads |-> Asked(t)]
  BY AskedKept
<1>2. QED
  BY <1>1 DEF Abstract!avars

\* The two bounds after a step.
LEMMA PoolBound ==
  TypeOK /\ BookInv => \A j \in Resources : AVAILABLE[j] \in 0 .. TOTAL[j]
BY PoolWithinTotal

\* The bound of the pool, after a step.
LEMMA PoolBoundNext ==
  (TypeOK /\ BookInv => \A j \in Resources : AVAILABLE[j] \in 0 .. TOTAL[j])'
BY PoolBound, PTL

\* What is asked for, in the same form.
LEMMA AskedBound ==
  TypeOK /\ BookInv =>
    \A g \in Pending : g \in QueueEntries => g.req \preceq NEED[g.thread_id]
BY AskedWithinNeed

\* The bound of what is asked for, after a step.
LEMMA AskedBoundNext ==
  (TypeOK /\ BookInv =>
     \A g \in Pending : g \in QueueEntries => g.req \preceq NEED[g.thread_id])'
BY AskedBound, PTL

\* A booked QUIT is a thread that leaves.
LEMMA QuitAllocates ==
  ASSUME IInv, BookInv, LiveInv, TypeOK', HandleQuit, DLAVOID' = DLAVOID
  PROVE  Abstract!Work
<1> USE Names
<1>1. TypeOK /\ QueueInv /\ ActiveInv
  BY DEF IInv
<1>2. PICK t \in Threads : t = cur.thread_id
  BY <1>1, RequestFields DEF HandleQuit
<1>3. /\ AVAILABLE' = AVAILABLE \oplus ALLOC[t] /\ ALLOC' = [ALLOC EXCEPT ![t] = Zero]
      /\ active' = active \ {t} /\ t \in active
      /\ Pending' = Pending
  BY <1>2 DEF HandleQuit, LiveInv, queue, Pending, Entries
<1>4. ~ Waiting(t)
  BY <1>1, <1>2, WaitingSleeps DEF Booking, HandleQuit
<1>5. Asked(t) = Zero
  BY <1>1, <1>4, AskedIs
<1>6. [u \in Threads |-> Asked(u)]' = [u \in Threads |-> Asked(u)]
  BY <1>3, AskedKept
<1>7. Abstract!Leave(t)
  BY <1>3, <1>5, <1>6, AllocatorTerms DEF Abstract!Leave
<1>8. QED
  BY <1>7 DEF Abstract!Work

\* A booked release, with or without a request, is one that gives and asks.
LEMMA ResourceAllocates ==
  ASSUME IInv, BookInv, LiveInv, IInv', BookInv', PassInv',
         HandleAdditional \/ HandleRelease, DLAVOID' = DLAVOID
  PROVE  Abstract!Work
<1> USE Names
<1>1. /\ TypeOK /\ QueueInv /\ ActiveInv /\ TypeOK' /\ QueueInv' /\ ActiveInv'
      /\ pc[Master] = "handle" /\ cur.type \in {RELEASE, ADDITIONAL} /\ BookReleases
  BY DEF IInv, HandleAdditional, HandleRelease
<1>2. PICK t \in Threads : t = cur.thread_id
  BY <1>1, RequestFields
<1>3. PICK r \in Vectors : r = cur.request
  BY <1>1, RequestFields
<1>4. PICK f \in Vectors, w \in Vectors : f = Freed(r) /\ w = Wanted(r)
  BY VectorOperations
<1>5. PICK e \in QueueEntries : e = [thread_id |-> t, req |-> w]
  BY DEF QueueEntries
<1>6. e.thread_id = t /\ e.req = w
  BY <1>5
<1>7. /\ AVAILABLE' = AVAILABLE \oplus f /\ active' = active /\ t \in active
      /\ ALLOC' = [ALLOC EXCEPT ![t] = ALLOC[t] \ominus f]
  BY <1>1, <1>2, <1>3, <1>4 DEF BookReleases, LiveInv
<1>8. Pending' = IF cur.type = ADDITIONAL THEN Pending \cup {e} ELSE Pending
  BY <1>1, <1>2, <1>3, <1>4, <1>5, PendingBooked
<1>9. ~ Waiting(t)
  BY <1>1, <1>2, WaitingSleeps DEF Booking
<1>10. PICK x \in Vectors : /\ x = IF cur.type = ADDITIONAL THEN w ELSE Zero
                            /\ Asked(t) = Zero /\ Asked(t)' = x
  <2>1. Asked(t) = Zero
    BY <1>1, <1>9, AskedIs
  <2>2. CASE cur.type = ADDITIONAL
    BY <1>1, <1>6, <1>8, <2>1, <2>2, AskedIsNext
  <2>3. CASE cur.type # ADDITIONAL
    <3>1. ~ Waiting(t)'
      BY <1>8, <1>9, <2>3 DEF Waiting
    <3>2. Asked(t)' = Zero /\ Zero \in Vectors
      BY <1>1, <3>1, AskedIsNext, VectorOperations
    <3>3. QED
      BY <2>1, <2>3, <3>2
  <2>4. QED
    BY <2>2, <2>3
<1>11. ASSUME NEW u \in Threads \ {t} PROVE Asked(u)' = Asked(u)
  <2>1. CASE Waiting(u)
    <3>1. PICK g \in Pending : g.thread_id = u
      BY <2>1 DEF Waiting
    <3>2. g \in Pending'
      BY <1>8, <3>1
    <3>3. QED
      BY <1>1, <3>1, <3>2, AskedIs, AskedIsNext
  <2>2. CASE ~ Waiting(u)
    <3>1. ~ Waiting(u)'
      BY <1>6, <1>8, <2>2 DEF Waiting
    <3>2. QED
      BY <1>1, <2>2, <3>1, AskedIs, AskedIsNext
  <2>3. QED
    BY <2>1, <2>2
<1>12. [u \in Threads |-> Asked(u)]' = [[u \in Threads |-> Asked(u)] EXCEPT ![t] = x]
  BY <1>10, <1>11
<1>13. Zero \preceq x /\ x \preceq NEED'[t]
  <2>1. CASE cur.type = ADDITIONAL
    <3>1. e \in Pending'
      BY <1>8, <2>1
    <3>2. Zero \preceq e.req
      BY <3>1 DEF PassInv
    <3>3. PICK q \in Vectors : q = e.req /\ e.req \preceq NEED'[t]
      <4>1. \A g \in Pending' : g \in QueueEntries => g.req \preceq NEED'[g.thread_id]
        BY <1>1, AskedBoundNext
      <4>2. QED
        BY <1>6, <3>1, <4>1
    <3>4. QED
      BY <1>6, <1>10, <2>1, <3>2, <3>3
  <2>2. CASE cur.type # ADDITIONAL
    BY <1>10, <2>2 DEF BookInv, NoOverdraft, Zero, \preceq
  <2>3. QED
    BY <2>1, <2>2
<1>14. /\ ALLOC[t] \in Vectors /\ ALLOC'[t] \in Vectors /\ NEED'[t] \in Vectors
       /\ AVAILABLE \in Vectors /\ ALLOC'[t] = ALLOC[t] \ominus f
  BY <1>1, <1>7 DEF TypeOK
<1>15. NEED'[t] = MAX_NEED[t] \ominus ALLOC'[t]
  <2>1. NEED'[t] \oplus ALLOC'[t] = MAX_NEED[t]
    BY DEF BookInv, NeedBalances
  <2>2. \A j \in Resources : NEED'[t][j] = (MAX_NEED[t] \ominus ALLOC'[t])[j]
    <3>1. \A j \in Resources : MAX_NEED[t][j] = NEED'[t][j] + ALLOC'[t][j]
      BY <2>1 DEF \oplus
    <3>2. QED
      BY <1>14, <3>1 DEF \ominus, Vectors
  <2>3. QED
    BY <1>14, <2>2 DEF Vectors, \ominus
<1>16. /\ AVAILABLE' \in [Resources -> UNION {0 .. TOTAL[j] : j \in Resources}]
       /\ x \in [Resources -> UNION {0 .. TOTAL[j] : j \in Resources}]
  <2>1. \A j \in Resources : AVAILABLE'[j] \in 0 .. TOTAL[j]
    BY <1>1, PoolBoundNext
  <2>2. ASSUME NEW j \in Resources PROVE x[j] \in 0 .. TOTAL[j]
    <3>1. x[j] \in Int /\ 0 <= x[j] /\ x[j] <= NEED'[t][j]
      BY <1>13 DEF Zero, \preceq, Vectors
    <3>2. NEED'[t][j] = MAX_NEED[t][j] - ALLOC'[t][j] /\ ALLOC'[t][j] \in Int
      BY <1>14, <1>15 DEF \ominus, Vectors
    <3>3. 0 <= ALLOC'[t][j]
      BY DEF BookInv, NoOverdraft, Zero, \preceq
    <3>4. MAX_NEED[t][j] \in Int /\ TOTAL[j] \in Int /\ MAX_NEED[t][j] <= TOTAL[j]
      BY InputAssumption DEF \preceq
    <3>5. QED
      BY <3>1, <3>2, <3>3, <3>4
  <2>3. AVAILABLE' \in [Resources -> Int]
    BY <1>1 DEF TypeOK, Vectors
  <2>4. QED
    BY <2>1, <2>2, <2>3 DEF Vectors
<1>17. AVAILABLE' \ominus AVAILABLE = f
  <2>1. \A j \in Resources : AVAILABLE'[j] - AVAILABLE[j] = f[j]
    BY <1>7, <1>14 DEF \oplus, Vectors
  <2>2. QED
    BY <2>1 DEF \ominus, Vectors
<1>18. Zero \preceq f /\ f \preceq ALLOC[t]
  <2>1. \A j \in Resources : r[j] \in Int /\ f[j] \in Int /\ ALLOC[t][j] \in Int
    BY <1>14 DEF Vectors
  <2>2. Zero \preceq f
    BY <1>4, <2>1 DEF Freed, Zero, \preceq
  <2>3. \A j \in Resources : 0 <= ALLOC[t][j] - f[j]
    <3>1. Zero \preceq ALLOC'[t]
      BY DEF BookInv, NoOverdraft
    <3>2. QED
      BY <1>14, <3>1 DEF Zero, \preceq, \ominus
  <2>4. QED
    BY <2>1, <2>2, <2>3 DEF \preceq
<1>19. Abstract!GiveAndAsk(t)
  <2>1. /\ Abstract!Covers(Abstract!Less(AVAILABLE', AVAILABLE), Abstract!Nothing)
        /\ Abstract!Covers(ALLOC[t], Abstract!Less(AVAILABLE', AVAILABLE))
        /\ ALLOC' = [ALLOC EXCEPT ![t] = Abstract!Less(ALLOC[t], Abstract!Less(AVAILABLE', AVAILABLE))]
        /\ Abstract!Covers(Abstract!Less(MAX_NEED[t], ALLOC'[t]), x)
    BY <1>7, <1>13, <1>15, <1>17, <1>18, AllocatorTerms
  <2>2. Asked(t) = Abstract!Nothing /\ t \in active /\ active' = active
    BY <1>7, <1>10, AllocatorTerms
  <2>3. QED
    BY <1>12, <1>16, <2>1, <2>2 DEF Abstract!GiveAndAsk
<1>20. QED
  BY <1>19 DEF Abstract!Work

\* A grant of something is one of the allocator's; a grant of nothing is none of its
\* steps.
LEMMA GrantAllocates ==
  ASSUME IInv, BookInv, IInv', BookInv', Grant, DLAVOID' = DLAVOID
  PROVE  Abstract!Work \/ UNCHANGED Abstract!avars
<1>1. /\ TypeOK /\ QueueInv /\ ActiveInv /\ TypeOK' /\ QueueInv' /\ ActiveInv'
      /\ Q # <<>> /\ Q \in Seq(QueueEntries)
  BY DEF IInv, TypeOK, Grant, Scanning
<1>2. PICK t \in Threads, q \in Vectors : t = Lr.thread_id /\ q = Lr.req
  BY <1>1, QueueHead DEF Lr
<1>3. /\ Lr \in QueueEntries /\ Lr \in Pending /\ Pending = Pending' \cup {Lr}
      /\ ~ Waiting(t)'
  BY <1>1, <1>2, PendingGranted
<1>4. Asked(t) = q /\ Asked(t)' = Zero
  BY <1>1, <1>2, <1>3, AskedIs, AskedIsNext
<1>5. ASSUME NEW u \in Threads \ {t} PROVE Asked(u)' = Asked(u)
  <2>1. CASE Waiting(u)
    <3>1. PICK g \in Pending : g.thread_id = u
      BY <2>1 DEF Waiting
    <3>2. g \in Pending'
      BY <1>2, <1>3, <3>1
    <3>3. QED
      BY <1>1, <3>1, <3>2, AskedIs, AskedIsNext
  <2>2. CASE ~ Waiting(u)
    <3>1. ~ Waiting(u)'
      BY <1>3, <2>2 DEF Waiting
    <3>2. QED
      BY <1>1, <2>2, <3>1, AskedIs, AskedIsNext
  <2>3. QED
    BY <2>1, <2>2
<1>6. [u \in Threads |-> Asked(u)]' = [[u \in Threads |-> Asked(u)] EXCEPT ![t] = Zero]
  BY <1>4, <1>5
<1>7. PICK A \in Tables, N \in Tables, V \in Vectors :
        A = ALLOC' /\ N = NEED' /\ V = AVAILABLE'
  BY <1>1 DEF TypeOK, Tables
<1>8. PICK act \in SUBSET Threads : act = active /\ act = active'
  BY <1>1 DEF TypeOK, Grant
<1>9. /\ V = AVAILABLE \ominus q /\ A = [ALLOC EXCEPT ![t] = ALLOC[t] \oplus q]
      /\ q \preceq AVAILABLE /\ AVAILABLE \in Vectors /\ ALLOC \in Tables
      /\ DLAVOID => is_safe_state(A, N, V, act)
  BY <1>1, <1>2, <1>7, <1>8 DEF Grant, can_fulfill_req, TypeOK, Tables
<1>10. CASE q = Zero
  <2>1. AVAILABLE' = AVAILABLE
    <3>1. \A j \in Resources : (AVAILABLE \ominus q)[j] = AVAILABLE[j]
      BY <1>9, <1>10 DEF \ominus, Zero, Vectors
    <3>2. AVAILABLE \ominus q \in Vectors
      BY <1>7, <1>9
    <3>3. QED
      BY <1>7, <1>9, <3>1, <3>2 DEF Vectors
  <2>2. ALLOC' = ALLOC
    <3>1. ALLOC[t] \in Vectors
      BY <1>9 DEF Tables
    <3>2. \A j \in Resources : (ALLOC[t] \oplus q)[j] = ALLOC[t][j]
      BY <1>10, <3>1 DEF \oplus, Zero, Vectors
    <3>3. ALLOC[t] \oplus q = ALLOC[t]
      BY <3>1, <3>2 DEF Vectors, \oplus
    <3>4. QED
      BY <1>7, <1>9, <3>3 DEF Tables
  <2>3. [u \in Threads |-> Asked(u)]' = [u \in Threads |-> Asked(u)]
    BY <1>4, <1>6, <1>10
  <2>4. QED
    BY <1>8, <2>1, <2>2, <2>3 DEF Abstract!avars
<1>11. CASE q # Zero
  <2> DEFINE W == [u \in Threads |-> Asked(u)]
  <2>1. W[t] = q
    BY <1>4
  <2>2. Abstract!Granted(t) = A
    BY <1>9, <2>1, AllocatorTerms DEF Abstract!Granted
  <2>3. Abstract!Need(A) = N
    <3>1. ASSUME NEW u \in Threads PROVE MAX_NEED[u] \ominus A[u] = N[u]
      <4>1. N[u] \oplus A[u] = MAX_NEED[u]
        BY <1>7 DEF BookInv, NeedBalances
      <4>2. N[u] \in Vectors /\ A[u] \in Vectors
        BY DEF Tables
      <4>3. \A j \in Resources : MAX_NEED[u][j] - A[u][j] = N[u][j]
        <5>1. \A j \in Resources : MAX_NEED[u][j] = N[u][j] + A[u][j]
          BY <4>1 DEF \oplus
        <5>2. QED
          BY <4>2, <5>1 DEF Vectors
      <4>4. QED
        BY <4>2, <4>3 DEF \ominus, Vectors
    <3>2. QED
      BY <3>1, AllocatorTerms DEF Abstract!Need, Tables
  <2>4. DLAVOID => SafeByDefinition(V, A, N, act, Resources)
    <3>1. \A u \in Threads : Zero \preceq A[u]
      BY <1>7 DEF BookInv, NoOverdraft
    <3>2. QED
      BY <1>9, <3>1, SafetyTestMeetsDefinition
  <2>5. DLAVOID => Abstract!SafeByDefinition(V, A, N, act, Resources)
    BY <2>4, AllocatorSafety
  <2>6. /\ W[t] # Abstract!Nothing /\ Abstract!Covers(AVAILABLE, W[t])
        /\ Abstract!Less(AVAILABLE, W[t]) = V
        /\ W' = [W EXCEPT ![t] = Abstract!Nothing]
    BY <1>6, <1>9, <1>11, <2>1, AllocatorTerms
  <2>7. Abstract!GrantTo(t)
    BY <1>7, <1>8, <2>2, <2>3, <2>5, <2>6 DEF Abstract!GrantTo
  <2>8. QED
    BY <2>7 DEF Abstract!Work
<1>12. QED
  BY <1>10, <1>11

\* Every step of the session is a step of the allocator or none of its.
LEMMA StepAllocates ==
  ASSUME IInv, BookInv, LiveInv, IInv', BookInv', PassInv', [Next]_vars
  PROVE  [Abstract!Work]_(Abstract!avars)
<1>1. DLAVOID' = DLAVOID /\ TypeOK /\ QueueInv /\ ActiveInv /\ TypeOK'
  BY DEF Next, vars, IInv
<1>2. CASE UNCHANGED vars \/ Finished
  BY <1>2, QuietAllocates DEF vars, books, queue, Finished, Pending, Entries
<1>3. CASE \/ \E t \in Threads : UserStep(t)
           \/ \E p \in Procs : JoinBOS(p) \/ JoinREQB(p) \/ \E t \in Threads : JoinACKB(p, t)
           \/ CopyRequest
  <2>1. UNCHANGED <<AVAILABLE, ALLOC, active, Q, temp_queue>>
    BY <1>3 DEF UserStep, JoinBOS, JoinREQB, JoinACKB, LockRmtx, WriteRequest,
       WriteQuit, LockCmtx, UnlockRmtx, CondWait, Reacquire, UnlockCmtx, CopyRequest,
       books, queue
  <2>2. Pending' = Pending
    BY <2>1 DEF Pending, Entries
  <2>3. QED
    BY <1>1, <2>1, <2>2, QuietAllocates
<1>4. CASE EndScan \/ SignalLock \/ Signal \/ PutBack \/ Join \/ PassOver
  <2>1. UNCHANGED <<AVAILABLE, ALLOC, active>>
    BY <1>4 DEF EndScan, SignalLock, Signal, PutBack, Join, PassOver, books
  <2>2. QED
    BY <1>1, <1>4, <2>1, PendingKept, QuietAllocates
<1>5. CASE HandleQuit
  BY <1>1, <1>5, QuitAllocates
<1>6. CASE HandleAdditional \/ HandleRelease
  BY <1>1, <1>6, ResourceAllocates
<1>7. CASE Grant
  BY <1>1, <1>7, GrantAllocates
<1>8. QED
  BY <1>2, <1>3, <1>4, <1>5, <1>6, <1>7, Names DEF Next, MasterStep

\* The handshake, the queue and the passes over it implement the abstract allocator:
\* every run of the session is one of its, for any number of threads and resources.
THEOREM ImplementsAllocatorSafely == Spec => Abstract!Safety
<1>1. Init => LiveInv
  <2>1. Init => pc[Master] = "bos"
    BY Names DEF Init
  <2>2. QED
    BY <2>1 DEF LiveInv
<1>2. IInv /\ LiveInv /\ [Next]_vars => LiveInv'
  BY StepLive
<1>3. /\ IInv /\ BookInv /\ PassInv /\ LiveInv
      /\ IInv' /\ BookInv' /\ PassInv'
      /\ [Next]_vars
      => [Abstract!Work]_(Abstract!avars)
  BY StepAllocates
<1>4. QED
  BY <1>1, <1>2, <1>3, InitAllocates, PassInductive, PTL DEF Spec, Abstract!Safety

-----------------------------------------------------------------------------
(* The safety tests on tables, whatever their size and entries.              *)

\* A small table is a table.
LEMMA SmallTables ==
  ASSUME NEW largest \in Nat, NEW T \in TablesUpTo(largest)
  PROVE  /\ T.alloc \in Tables /\ T.need \in Tables /\ T.pool \in Vectors
         /\ T.active \in SUBSET Threads
         /\ \A t \in Threads : Zero \preceq T.alloc[t] /\ Zero \preceq T.need[t]
<1> DEFINE V == [Resources -> 0 .. largest]
<1>1. /\ T.alloc \in [Threads -> V] /\ T.need \in [Threads -> V] /\ T.pool \in V
      /\ T.active \in SUBSET Threads
  BY DEF TablesUpTo
<1>2. V \subseteq Vectors
  BY DEF Vectors
<1>3. \A v \in V : Zero \preceq v
  BY DEF Zero, \preceq
<1> HIDE DEF V
<1>4. QED
  BY <1>1, <1>2, <1>3 DEF Tables

\* The tables after all that t may need has been granted to it.
LEMMA WholeNeedGranted ==
  ASSUME NEW A \in Tables, NEW N \in Tables, NEW V \in Vectors, NEW t \in Threads,
         \A u \in Threads : Zero \preceq A[u] /\ Zero \preceq N[u]
  PROVE  /\ [A EXCEPT ![t] = A[t] \oplus N[t]] \in Tables
         /\ [N EXCEPT ![t] = N[t] \ominus N[t]] \in Tables
         /\ V \ominus N[t] \in Vectors
         /\ N[t] \ominus N[t] = Zero /\ N[t] \preceq N[t]
         /\ \A u \in Threads : Zero \preceq [A EXCEPT ![t] = A[t] \oplus N[t]][u]
<1>1. A[t] \in Vectors /\ N[t] \in Vectors
  BY DEF Tables
<1>2. \A j \in Resources : A[t][j] \in Int /\ N[t][j] \in Int /\ A[t][j] >= 0 /\ N[t][j] >= 0
  BY <1>1 DEF Vectors, Zero, \preceq
<1>3. A[t] \oplus N[t] \in Vectors /\ N[t] \ominus N[t] \in Vectors /\ V \ominus N[t] \in Vectors
  BY <1>1, VectorOperations
<1>4. N[t] \ominus N[t] = Zero /\ N[t] \preceq N[t]
  BY <1>2 DEF \ominus, Zero, \preceq
<1>5. Zero \preceq A[t] \oplus N[t]
  BY <1>2 DEF \oplus, Zero, \preceq
<1>6. QED
  BY <1>3, <1>4, <1>5 DEF Tables

\* Both scans find a table safe exactly if an order of finishing exists.
LEMMA SmallTablesExact ==
  ASSUME NEW largest \in Nat
  PROVE  SafetyTestsExact(largest)
<1>1. ASSUME NEW T \in TablesUpTo(largest)
      PROVE  /\ is_safe_state(T.alloc, T.need, T.pool, T.active)
                  <=> SafeByDefinition(T.pool, T.alloc, T.need, T.active, Resources)
             /\ issafe(T.alloc, T.need, T.pool, T.active)
                  <=> SafeByDefinition(T.pool, T.alloc, T.need, T.active, Resources)
  BY SmallTables, SafetyTestMeetsDefinition, SafetyTestsAgree
<1>2. QED
  BY <1>1 DEF SafetyTestsExact

\* In a safe table somebody's whole need can be served, and both programs serve the
\* same.
LEMMA SmallTablesProgress ==
  ASSUME NEW largest \in Nat
  PROVE  SafeMeansProgress(largest)
<1>1. SUFFICES ASSUME NEW T \in TablesUpTo(largest)
      PROVE LET served == {t \in T.active :
                             can_fulfill_req(Ask(T, t), T.alloc, T.need, T.pool, T.active, TRUE)}
            IN  /\ T.active # {} /\ issafe(T.alloc, T.need, T.pool, T.active) => served # {}
                /\ served = {t \in T.active :
                               canserve(Ask(T, t), T.alloc, T.need, T.pool, T.active, TRUE)}
  BY DEF SafeMeansProgress
<1>2. PICK A \in Tables, N \in Tables, V \in Vectors, act \in SUBSET Threads :
        A = T.alloc /\ N = T.need /\ V = T.pool /\ act = T.active
  BY SmallTables
<1>3. \A u \in Threads : Zero \preceq A[u] /\ Zero \preceq N[u]
  BY <1>2, SmallTables
<1> DEFINE B(t) == [A EXCEPT ![t] = A[t] \oplus N[t]]
           M(t) == [N EXCEPT ![t] = N[t] \ominus N[t]]
<1>4. ASSUME NEW t \in act
      PROVE  /\ can_fulfill_req(Ask(T, t), T.alloc, T.need, T.pool, T.active, TRUE)
                  <=> N[t] \preceq N[t] /\ N[t] \preceq V
                      /\ is_safe_state(B(t), M(t), V \ominus N[t], act)
             /\ canserve(Ask(T, t), T.alloc, T.need, T.pool, T.active, TRUE)
                  <=> N[t] \preceq V /\ issafe(B(t), M(t), V \ominus N[t], act)
  <2>1. Ask(T, t).thread_id = t /\ Ask(T, t).req = N[t]
    BY <1>2 DEF Ask
  <2>2. QED
    BY <1>2, <2>1 DEF can_fulfill_req, canserve, resourceavailable, safetoallocate
<1>5. ASSUME NEW t \in act
      PROVE  /\ B(t) \in Tables /\ M(t) \in Tables /\ V \ominus N[t] \in Vectors
             /\ \A u \in Threads : Zero \preceq B(t)[u]
             /\ B(t)[t] = A[t] \oplus N[t] /\ M(t)[t] = Zero /\ N[t] \preceq N[t]
             /\ \A u \in Threads \ {t} : B(t)[u] = A[u] /\ M(t)[u] = N[u]
  <2>1. t \in Threads
    OBVIOUS
  <2>2. /\ B(t) \in Tables /\ M(t) \in Tables /\ V \ominus N[t] \in Vectors
        /\ \A u \in Threads : Zero \preceq B(t)[u]
        /\ N[t] \ominus N[t] = Zero /\ N[t] \preceq N[t]
    BY <1>3, <2>1, WholeNeedGranted
  <2>3. /\ B(t)[t] = A[t] \oplus N[t] /\ M(t)[t] = N[t] \ominus N[t]
        /\ \A u \in Threads \ {t} : B(t)[u] = A[u] /\ M(t)[u] = N[u]
    BY <2>1 DEF Tables
  <2> HIDE DEF B, M
  <2>4. QED
    BY <2>2, <2>3
<1> HIDE DEF B, M
<1>6. ASSUME NEW t \in act
      PROVE  can_fulfill_req(Ask(T, t), T.alloc, T.need, T.pool, T.active, TRUE)
               <=> canserve(Ask(T, t), T.alloc, T.need, T.pool, T.active, TRUE)
  BY <1>4, <1>5, SafetyTestsAgree
<1>7. ASSUME act # {}, issafe(A, N, V, act)
      PROVE  \E t \in act : can_fulfill_req(Ask(T, t), T.alloc, T.need, T.pool, T.active, TRUE)
  <2>1. NoStuckSet(A, N, V, act)
    BY <1>3, <1>7, SolutionTestExact
  <2>2. PICK t \in act :
           /\ N[t] \preceq V
           /\ \A C, D \in Tables :
                /\ C[t] = A[t] \oplus N[t] /\ D[t] = Zero
                /\ \A u \in Threads \ {t} : C[u] = A[u] /\ D[u] = N[u]
                => NoStuckSet(C, D, V \ominus N[t], act)
    BY <1>3, <1>7, <2>1, SomebodyCanBeServed
  <2>3. NoStuckSet(B(t), M(t), V \ominus N[t], act)
    BY <1>5, <2>2
  <2>4. is_safe_state(B(t), M(t), V \ominus N[t], act)
    BY <1>5, <2>3, SafetyTestExact
  <2>5. QED
    BY <1>4, <1>5, <2>2, <2>4
<1>8. QED
  BY <1>2, <1>6, <1>7

\* On every table and in every reachable state, the unsafe ones included, the scans say
\* what the definition says.
THEOREM TestsMeetDefinition == Spec => []AgreesWithDefinition
<1>1. TablesAgree
  BY SmallTablesExact, SmallTablesProgress DEF TablesAgree
<1>2. ASSUME TypeOK, NoOverdraft
      PROVE  is_safe_state(ALLOC, NEED, AVAILABLE, active)
               <=> SafeByDefinition(AVAILABLE, ALLOC, NEED, active, Resources)
  <2>1. /\ ALLOC \in Tables /\ NEED \in Tables /\ AVAILABLE \in Vectors
        /\ active \in SUBSET Threads
    BY <1>2 DEF TypeOK, Tables
  <2>2. \A t \in Threads : Zero \preceq ALLOC[t]
    BY <1>2 DEF NoOverdraft
  <2>3. QED
    BY <2>1, <2>2, SafetyTestMeetsDefinition
<1>3. TypeOK /\ BookInv => AgreesWithDefinition
  BY <1>1, <1>2 DEF BookInv, AgreesWithDefinition
<1>4. QED
  BY <1>3, TypeCorrect, BooksInductive, PTL


=============================================================================
