---------------------------- MODULE MCRiskEngine ----------------------------
(***************************************************************************)
(* A grid through RiskEngineInputs: every score the tunnel detector gives, *)
(* found from queries on either side of each of its thresholds; the        *)
(* probabilities include the neighbours of the engine's thresholds and two *)
(* that need rounding.                                                     *)
(***************************************************************************)
EXTENDS RiskEngineInputs

Detector == INSTANCE TunnelDetector WITH ElevatedRate <- 30, BurstRate <- 50

DetectorScores ==
    {Detector!TunnelScore(Detector!ShapePoints(entropy, prefix, name, qtype), count) :
        entropy \in {360, 361, 420, 421}, prefix \in {30, 31}, name \in {45, 46},
        qtype \in {"A", "CNAME", "TXT", "NULL"}, count \in {30, 31, 50, 51}}

MCMlGrid == {0, 1, 1249, 2500, 4999, 5001, 6999, 7000, 7001, 8749, 8750, 8751, 9999, 10000}
MCTunnelGrid == DetectorScores
MCBehaviorGrid == {0, 5000, 10000}
=============================================================================
