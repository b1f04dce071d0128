--------------------------- MODULE TunnelDetector ---------------------------
(***************************************************************************)
(* passive/tunnel_detector.py: the four heuristics of TunnelDetector and   *)
(* the score they add up to, in hundredths of a point as in RiskEngine.    *)
(* Entropies are in hundredths of a bit, lengths in characters.            *)
(***************************************************************************)
EXTENDS Integers

CONSTANTS
    ElevatedRate,   \* queries per window above which 15 points are given; 30
    BurstRate       \* and 25 points; 50

EntropyPoints(entropy) ==
    CASE entropy > 420 -> 3500
      [] entropy > 360 /\ entropy <= 420 -> 1500
      [] OTHER -> 0

\* The length of the labels below the registered domain, else of the whole name.
LengthPoints(prefix, name) ==
    CASE prefix > 30 -> 3000
      [] prefix <= 30 /\ name > 45 -> 2000
      [] OTHER -> 0

QtypePoints(qtype) ==
    CASE qtype = "NULL" -> 3000
      [] qtype = "TXT" -> 2000
      [] qtype = "CNAME" -> 1500
      [] OTHER -> 0

VolumePoints(count) ==
    CASE count > BurstRate -> 2500
      [] count > ElevatedRate /\ count <= BurstRate -> 1500
      [] OTHER -> 0

\* What a query scores by itself, whoever asks and however often.
ShapePoints(entropy, prefix, name, qtype) ==
    EntropyPoints(entropy) + LengthPoints(prefix, name) + QtypePoints(qtype)

Scores == 0 .. 10000

TunnelScore(shape, count) ==
    LET points == shape + VolumePoints(count)
    IN  IF points > 10000 THEN 10000 ELSE points
=============================================================================
