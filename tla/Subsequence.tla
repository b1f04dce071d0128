---------------------------- MODULE Subsequence ----------------------------
(***************************************************************************)
(* What is left of a sequence, in its order, when some of its entries are  *)
(* deleted.  Unlike SelectSeq this is no recursion, so that it can be      *)
(* proved about: the n-th entry that is left is the one whose place has    *)
(* n - 1 kept places before it.                                            *)
(***************************************************************************)
EXTENDS Integers, FiniteSets

Rank(places, j) == Cardinality({k \in places : k <= j})

Nth(places, n) == CHOOSE j \in places : Rank(places, j) = n

KeptAt(seq, places) == [n \in 1 .. Cardinality(places) |-> seq[Nth(places, n)]]
=============================================================================
