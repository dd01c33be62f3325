----------------------------- MODULE DacStream -----------------------------
(***************************************************************************)
(* The firmware as the frame player its host sees.  It keeps the promise   *)
(* of FrameStream to a careful host: one that waits out a stop window      *)
(* before its next stop or frame, and whose frames have points and loop (a *)
(* frame played once runs into the race that run once_race shows).         *)
(***************************************************************************)
EXTENDS DacFirmware

\* Mixed bytes that fill the job and pass the size check are a frame to the firmware.
Playable == Frames \cup MixedFrames

Careful ==
    /\ ~OverlapStops /\ ~FramesDuringStop
    /\ \A f \in Playable : f.n > 0 /\ ~f.once

\* A tick is far shorter than the 100 ms of a stop window.  With stops spaced, a
\* timer that runs while a tick is held up was started within that very tick.
TickHeldUp == sPc \in {"lowered", "loweredOn"}

CarefulNext == Next /\ (TickHeldUp => ~TC0_Handler)

CarefulSpec == Init /\ [][CarefulNext]_vars /\ Fairness /\ PollFairness

\* The frame a completed transfer left for the callback.
incoming == IF uPc \in {"call", "callback"} THEN content[bulkBuf] ELSE NoData

current == IF playing THEN content[frameAddress] ELSE NoData

pos == IF playing THEN framePos ELSE 0

\* From the swap on newFrameReady stands for nothing, until update_status().
swapped == sPc \in {"swapOutput", "speed", "lowered", "loweredOn", "update"}

queued == IF newFrameReady /\ ~swapped THEN content[newFrameAddress] ELSE NoData

\* The erase command stops playback without stopFlag, and never returns.
stopped == stopFlag \/ (uTask = "erase" /\ uPc # "idle")

Stream == INSTANCE FrameStream
              WITH Frames <- Playable, None <- NoData, Garbage <- Torn

\* The firmware is a FrameStream: it accepts every whole frame, of other bytes only
\* those that pass for one, plays each from its first point to its last, in the order
\* received, and ends playback only when told to.
ImplementsStream == Stream!Spec
=============================================================================
