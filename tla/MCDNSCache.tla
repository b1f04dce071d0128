----------------------------- MODULE MCDNSCache -----------------------------
(***************************************************************************)
(* Two threads on a cache that holds two of three keys.  Threads, keys and *)
(* values are interchangeable and no liveness is checked, so symmetry is   *)
(* sound.                                                                  *)
(***************************************************************************)
EXTENDS DNSCache

CONSTANTS t1, t2, k1, k2, k3, v1, v2

Symmetry ==
    Permutations({t1, t2}) \cup Permutations({k1, k2, k3}) \cup Permutations({v1, v2})

=============================================================================
