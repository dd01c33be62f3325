--------------------------- MODULE MCDacFirmware ---------------------------
(* Small instances of DacFirmware for TLC. *)
EXTENDS DacStream

F(n, once, now) == [n |-> n, once |-> once, now |-> now]

\* A frame that loops; an empty one that is played at once and only once.
LoopAndEmpty == {F(2, FALSE, FALSE), F(0, TRUE, TRUE)}

\* Frames that play until they are replaced, one of them at once.
LoopingFrames == {F(2, FALSE, FALSE), F(1, FALSE, TRUE)}

\* Frames of one point, looping and played once.
LoopAndOnce == {F(1, FALSE, FALSE), F(1, TRUE, FALSE)}

\* What mixed bytes are taken for: a frame of a whole job, looping or not.
MixedLooping == {F(2, FALSE, TRUE)}
MixedOnce == {F(2, TRUE, FALSE)}
=============================================================================
