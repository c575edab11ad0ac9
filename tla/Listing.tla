------------------------------- MODULE Listing -------------------------------
(***************************************************************************)
(* Filtered and sorted lists, said by rank instead of by recursion: the    *)
(* k-th element is the one with k elements up to and including it.  The    *)
(* Python of this repository builds such lists by comprehensions and by    *)
(* appending to one list per key.                                          *)
(***************************************************************************)
EXTENDS Naturals, Sequences, FiniteSets

\* The elements of S in the order in which upto[x] is what comes up to x.
Listed(S, upto) ==
  [k \in 1 .. Cardinality(S) |-> CHOOSE x \in S : Cardinality(upto[x]) = k]

UpTo(S) == [i \in S |-> {j \in S : j <= i}]

Ascending(S) == Listed(S, UpTo(S))

\* The elements of the sequence s at the places in I, in their order.
Picked(s, I) == LET places == Ascending(I) IN [k \in 1 .. Len(places) |-> s[places[k]]]
=============================================================================
