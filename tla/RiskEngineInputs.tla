-------------------------- MODULE RiskEngineInputs --------------------------
(***************************************************************************)
(* RiskEngine.calculate_risk over a grid of its inputs.  A behaviour       *)
(* starts from clean detectors and lets the evidence against a domain grow *)
(* one notch at a time, so that what the engine decides can be compared    *)
(* from one step to the next as well as in each state.                     *)
(***************************************************************************)
EXTENDS RiskEngine

CONSTANTS
    MlGrid, TunnelGrid, BehaviorGrid   \* the scores tried, subsets of Score

ASSUME GridAssumption ==
    /\ MlGrid \subseteq Score /\ 0 \in MlGrid
    /\ TunnelGrid \subseteq Score /\ 0 \in TunnelGrid
    /\ BehaviorGrid \subseteq Score /\ 0 \in BehaviorGrid

VARIABLES matched, ml, tunnel, behavior

evidence == <<matched, ml, tunnel, behavior>>

NoEvidence ==
    /\ matched = FALSE
    /\ ml = 0
    /\ tunnel = 0
    /\ behavior = 0

IntelMatches ==
    /\ ~matched
    /\ matched' = TRUE
    /\ UNCHANGED <<ml, tunnel, behavior>>

Higher(grid, x) == {y \in grid : y > x}

MlRises ==
    /\ ml' \in Higher(MlGrid, ml)
    /\ UNCHANGED <<matched, tunnel, behavior>>

TunnelRises ==
    /\ tunnel' \in Higher(TunnelGrid, tunnel)
    /\ UNCHANGED <<matched, ml, behavior>>

BehaviorRises ==
    /\ behavior' \in Higher(BehaviorGrid, behavior)
    /\ UNCHANGED <<matched, ml, tunnel>>

EvidenceGrows == IntelMatches \/ MlRises \/ TunnelRises \/ BehaviorRises

EvidenceSpec == NoEvidence /\ [][EvidenceGrows]_evidence

score  == CompositeScore(IntelScore(matched), ml, tunnel, behavior)
action == Decide(matched, ml, tunnel, behavior)

-----------------------------------------------------------------------------
\* More evidence never lowers the score and never softens the action, through
\* the rounding, the cap at 100 and the detectors' own thresholds.
MoreEvidenceNeverSofter ==
    [][score' >= score /\ Severity(action') >= Severity(action)]_evidence

\* On a match process_query skips the classifier and the tunnel detector where
\* process_query_async runs both: the two reach the same score and action.
FastPathAgrees ==
    matched =>
        /\ CompositeScore(IntelScore(matched), 0, 0, 0) = score
        /\ Decide(matched, 0, 0, 0) = action

\* The score stays a percentage, and no single detector that is not an
\* indicator match can block a query on its own.
OneDetectorNeverBlocks ==
    /\ score \in Score
    /\ ~matched /\ action = "BLOCK" =>
         /\ ml > 0 \/ tunnel > 0
         /\ ml > 0 \/ behavior > 0
         /\ tunnel > 0 \/ behavior > 0

\* README.md: "SUSPICIOUS: 40.0 <= Composite Score < 70.0", "ALLOW: Composite
\* Score < 40.0": the action follows from the score alone, with the lower
\* boundary at 40.
ReadmeBoundaries ==
    ~matched =>
        action = IF score >= 7000 THEN "BLOCK"
                 ELSE IF score >= 4000 THEN "SUSPICIOUS" ELSE "ALLOW"
=============================================================================
