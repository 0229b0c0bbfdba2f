------------------------------ MODULE SafeState ------------------------------
(***************************************************************************)
(* What "safe" means in the banker's algorithm, stated without an          *)
(* algorithm: the live threads can be put in an order in which each can    *)
(* get all it may still need from the pool and from what the threads       *)
(* before it give back.                                                    *)
(***************************************************************************)
EXTENDS Integers, FiniteSets, FiniteSetsExt

Orders(S) ==
  {f \in [1 .. Cardinality(S) -> S] : \A i, k \in DOMAIN f : f[i] = f[k] => i = k}

GivenBack(alloc, S, j) == MapThenSumSet(LAMBDA t : alloc[t][j], S)

SafeByDefinition(pool, alloc, need, live, resources) ==
  \E order \in Orders(live) :
    \A k \in DOMAIN order : \A j \in resources :
      need[order[k]][j] <= pool[j] + GivenBack(alloc, {order[i] : i \in 1 .. k-1}, j)

=============================================================================
