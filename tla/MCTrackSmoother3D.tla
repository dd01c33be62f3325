------------------------- MODULE MCTrackSmoother3D -------------------------
(* A small instance of TrackSmoother3D for TLC. *)
EXTENDS TrackSmoother3D

ThreePlaces == 0 .. 2
TwoClasses == {"person", "face"}
=============================================================================
