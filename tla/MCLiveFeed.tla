----------------------------- MODULE MCLiveFeed -----------------------------
(* Two decisions, one seed row, a default limit of two rows and a smaller    *)
(* choice, the two effect runs of StrictMode.                                *)
EXTENDS LiveFeed, TLC

CONSTANTS d1, d2, s1
MCDecisions == {d1, d2}
MCSeeds == <<s1>>
MCDecisionSymmetry == Permutations(MCDecisions)
=============================================================================
