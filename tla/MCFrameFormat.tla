--------------------------- MODULE MCFrameFormat ---------------------------
(* An instance of FrameFormat for TLC: real sizes, rates at the boundaries. *)
EXTENDS FrameFormat

\* Up to MaxPoints and beyond it; around IntMax; the largest.
AllCounts == 0 .. 4097 \cup IntMax - 1 .. IntMax + 2 \cup {UIntMax}
SomeRates == {6, 7, 255, 256, 4096, 20000, 65535, 65536}

\* None, and around a short frame, 255 and 256 points, and the whole job; behind
\* 443 packets a frame of 46 points has its rate where the size is read.
SomeStale == {0, 1, 2, 27, 28, 443, 447, 448}

\* Points that can read as the size 4096, and as others.
TwoBytes == {0, 16}
=============================================================================
