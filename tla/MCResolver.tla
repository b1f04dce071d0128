----------------------------- MODULE MCResolver -----------------------------
(***************************************************************************)
(* A resolver small enough for TLC: a name nothing is known against until  *)
(* a feed lists it, and a name the classifier calls generated.             *)
(***************************************************************************)
EXTENDS Resolver

CONSTANTS plain, generated, s1, s2, a1, a2

MCDomains == {plain, generated}
MCMlProbability == [d \in Domains |-> IF d = generated THEN 8500 ELSE 500]
MCTunnelScores == {0, 10000}
=============================================================================
