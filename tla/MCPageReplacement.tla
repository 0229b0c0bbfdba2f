-------------------------- MODULE MCPageReplacement --------------------------
EXTENDS PageReplacement

\* Arrays of six pages: a search touches two or three pages besides the
\* essential one, and two of its pages can be told apart by every key.
TwoArrays  == [p \in 0 .. 1 |-> 6]
TwoBits    == [b \in 0 .. 2 |-> 2 ^ b]
FourKeys   == [p \in 0 .. 1 |-> {0, 2, 3, 5}]
=============================================================================
