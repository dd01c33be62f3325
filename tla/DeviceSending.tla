--------------------------- MODULE DeviceSending ---------------------------
(***************************************************************************)
(* The device object as its one sending thread sees it: with one, it keeps *)
(* the promise of FrameSending.  Two senders share the frame buffer with   *)
(* nothing but frameReady between them, and may break it.                  *)
(***************************************************************************)
EXTENDS HeliosDacDevice

Sender == CHOOSE c \in Senders : TRUE

NoBytes == <<Nobody, 1>>        \* neither a frame nor one being written

\* The frame in a call that waits for the transfer, or the one handed over.
taken ==
    IF freed THEN NoBytes
    ELSE IF pc[Sender] \in {"doFrame", "transfer"} THEN mine[Sender]
    ELSE IF frameReady /\ hpc # "clear" THEN pending
    ELSE NoBytes

\* A transfer reads the frame buffer from beginning to end.
out ==
    IF ~freed /\ (pc[Sender] = "transfer" \/ hpc = "transfer") THEN buffer ELSE NoBytes

\* A frame is given when it is written and the transfer is due.
latest ==
    IF pc[Sender] \in {"filling", "handOver"} THEN <<Sender, 1 - mine[Sender][2]>>
    ELSE mine[Sender]

Sending == INSTANCE FrameSending WITH None <- NoBytes

\* The device is a FrameSending: a frame it takes is sent once, whole and unchanged,
\* before the next is taken, and is dropped only if the device is closed.
ImplementsSending == Sending!Spec
=============================================================================
