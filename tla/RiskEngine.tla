----------------------------- MODULE RiskEngine -----------------------------
(***************************************************************************)
(* core/risk_engine.py: how the three detectors' results become one score  *)
(* and one action.                                                         *)
(*                                                                         *)
(* Scores are integers in hundredths of a point (7000 is 70.0), so a DGA   *)
(* probability p of the code is p * 10000 here and its "dga_probability *  *)
(* 100" needs no conversion.  The weights are percentages.                 *)
(***************************************************************************)
EXTENDS Integers

Actions == {"ALLOW", "SUSPICIOUS", "BLOCK"}

MaxScore == 10000

\* A detector score: 0.0 .. 100.0 in hundredths of a point.
Score == 0 .. MaxScore

WEIGHT_THREAT_INTEL == 100
WEIGHT_ML_DGA       == 40
WEIGHT_TUNNEL       == 35
WEIGHT_BEHAVIOR     == 25

RISK_THRESHOLD_BLOCK      == 7000
RISK_THRESHOLD_SUSPICIOUS == 3500

-----------------------------------------------------------------------------
(* The detectors' own verdicts, which the engine reads beside the scores.  *)

\* DGAClassifier.predict: probability against ML_CONFIG["dga_threshold"].
IsDga(ml) == ml >= 7000

\* TunnelDetector.analyze: tunnel_score against 60.
IsTunnel(tunnel) == tunnel >= 6000

-----------------------------------------------------------------------------
\* round(raw, 2).  raw is in 1/100 of a hundredth; an exact tie goes up.
RoundHundredths(raw) == (raw + 50) \div 100

\* A match counts 100 whatever confidence its indicator has; lookup reports 0
\* for a domain that does not match.
IntelScore(matched) == IF matched THEN MaxScore ELSE 0

\* Mutant: `min(100.0, ...)` is missing.
UncappedScore(intel, ml, tunnel, behavior) ==
    RoundHundredths(WEIGHT_THREAT_INTEL * intel + WEIGHT_ML_DGA * ml
                      + WEIGHT_TUNNEL * tunnel + WEIGHT_BEHAVIOR * behavior)

CompositeScore(intel, ml, tunnel, behavior) ==
    LET rounded == RoundHundredths(WEIGHT_THREAT_INTEL * intel + WEIGHT_ML_DGA * ml
                                     + WEIGHT_TUNNEL * tunnel + WEIGHT_BEHAVIOR * behavior)
    IN  IF rounded > MaxScore THEN MaxScore ELSE rounded

\* Mutant: the classifier's flag alone blocks.
DecideDgaBlocks(matched, ml, tunnel, behavior) ==
    LET score == CompositeScore(IntelScore(matched), ml, tunnel, behavior)
    IN  CASE matched \/ IsDga(ml) \/ score >= RISK_THRESHOLD_BLOCK -> "BLOCK"
          [] OTHER -> IF IsTunnel(tunnel) \/ score >= RISK_THRESHOLD_SUSPICIOUS
                      THEN "SUSPICIOUS" ELSE "ALLOW"

\* Mutant: the detectors' flags are tested before the blocking score.
DecideFlagsFirst(matched, ml, tunnel, behavior) ==
    LET score == CompositeScore(IntelScore(matched), ml, tunnel, behavior)
    IN  CASE matched -> "BLOCK"
          [] ~matched /\ (IsDga(ml) \/ IsTunnel(tunnel)) -> "SUSPICIOUS"
          [] OTHER -> IF score >= RISK_THRESHOLD_BLOCK THEN "BLOCK"
                      ELSE IF score >= RISK_THRESHOLD_SUSPICIOUS THEN "SUSPICIOUS" ELSE "ALLOW"

Decide(matched, ml, tunnel, behavior) ==
    LET score == CompositeScore(IntelScore(matched), ml, tunnel, behavior)
    IN  CASE matched \/ score >= RISK_THRESHOLD_BLOCK -> "BLOCK"
          [] ~matched /\ score < RISK_THRESHOLD_BLOCK
               /\ (IsDga(ml) \/ IsTunnel(tunnel) \/ score >= RISK_THRESHOLD_SUSPICIOUS)
               -> "SUSPICIOUS"
          [] OTHER -> "ALLOW"

\* How severe an action is for the client that asked.
Severity(action) ==
    CASE action = "ALLOW" -> 0
      [] action = "SUSPICIOUS" -> 1
      [] action = "BLOCK" -> 2
=============================================================================
