---------------------------- MODULE MCDemandPaging ----------------------------
EXTENDS DemandPaging

\* Three processes with arrays of two, four or five pages, and one search for
\* any key or two searches for the first or the last: with no frame to spare at
\* first, processes fail again when they are swapped in, or end there and let
\* in another one.
SmallArrays == {2, 4, 5}
OneSearch   == UNION {{[s |-> size, keys |-> <<k>>] : k \in 0 .. size - 1} : size \in SmallArrays}
TwoSearches == UNION {{[s |-> size, keys |-> <<k1, k2>>] : k1, k2 \in {0, size - 1}} : size \in SmallArrays}
SmallInputs == [0 .. 2 -> OneSearch] \cup [0 .. 2 -> TwoSearches]
===============================================================================
