---------------------------- MODULE MCThreatIntel ----------------------------
(***************************************************************************)
(* Two feeds, the parent domain of a name that clients look up, and one    *)
(* other indicator, which an empty database is seeded with.                *)
(***************************************************************************)
EXTENDS ThreatIntel, TLC

CONSTANTS parent, child, other, f1, f2, w1, w2

\* Feeds and threads are interchangeable, and no liveness is checked.
Symmetry == Permutations({f1, f2}) \cup Permutations({w1, w2})

\* The suffixes of two labels and more, most specific first, then the whole name.
MCCandidates == [n \in Names |-> <<child, parent, child>>]
MCListings == {{}} \cup {{d} : d \in Domains}
=============================================================================
