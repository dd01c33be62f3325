----------------------- MODULE MCStreamSynchronizer -----------------------
(* A small instance of StreamSynchronizer for TLC. *)
EXTENDS StreamSynchronizer

TwoDeltas == {0, 1}
=============================================================================
