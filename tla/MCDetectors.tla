---------------------------- MODULE MCDetectors ----------------------------
(***************************************************************************)
(* The risk engine over its grid and the volume tracker under its threads  *)
(* in one instance: part says which of the two a behaviour is about.  What *)
(* the tracker's counts are worth to the engine is a set of scores, found  *)
(* in MCRiskEngine, so the two share no state.                             *)
(***************************************************************************)
EXTENDS MCRiskEngine, MCVolumeTracker

VARIABLE part

DetectorsInit == part \in {"engine", "tracker"} /\ NoEvidence /\ Init

DetectorsNext ==
    /\ UNCHANGED part
    /\ \/ part = "engine" /\ EvidenceGrows /\ UNCHANGED vars
       \/ part = "tracker" /\ Next /\ UNCHANGED evidence

DetectorsSpec == DetectorsInit /\ [][DetectorsNext]_<<part, evidence, vars>>
=============================================================================
