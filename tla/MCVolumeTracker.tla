--------------------------- MODULE MCVolumeTracker ---------------------------
(***************************************************************************)
(* One client, two threads; a window of two ticks in which the second      *)
(* query is an elevated rate and the third a burst.  The two shapes are a  *)
(* plain query and the most suspicious one, which needs the cap.           *)
(***************************************************************************)
EXTENDS VolumeTracker, TLC

CONSTANTS w1, w2

Symmetry == Permutations({w1, w2})

MCShapes == {ShapePoints(250, 10, 20, "A"), ShapePoints(450, 40, 60, "NULL")}
=============================================================================
