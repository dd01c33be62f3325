---------------------------- MODULE FrameStream ----------------------------
(***************************************************************************)
(* What the DAC promises about frames (HeliosDac.h, lines 13 to 30): it    *)
(* plays one frame and holds one more; a frame is put out point by point,  *)
(* over and over or once; the next one follows at its end, or at once if   *)
(* it asks for that; a stop drops both.  Buffers, interrupts and the USB   *)
(* endpoints do not appear.                                                *)
(***************************************************************************)
EXTENDS Integers

CONSTANTS
    Frames,     \* records with fields n (points), once and now
    Garbage,    \* bytes that are not one whole frame
    None        \* no frame; None, Garbage and the frames differ

VARIABLES
    incoming,   \* what the host has delivered last, until the DAC has looked at it
    current,    \* the frame being played
    pos,        \* how many of its points have been put out in this pass
    queued,     \* the frame to follow it
    stopped     \* between a stop and the end of its window

vars == <<incoming, current, pos, queued, stopped>>

Init ==
    /\ incoming = None /\ current = None /\ queued = None
    /\ pos = 0
    /\ stopped = FALSE

Deliver ==
    /\ incoming = None /\ ~stopped
    /\ incoming' \in Frames \cup {Garbage}
    /\ UNCHANGED <<current, pos, queued, stopped>>

\* Only what is not a frame is refused.
Refuse ==
    /\ incoming = Garbage
    /\ incoming' = None
    /\ UNCHANGED <<current, pos, queued, stopped>>

\* A frame starts when none is played, or cuts the one in play.
Start ==
    /\ incoming \in Frames /\ ~stopped /\ queued = None
    /\ current = None \/ incoming.now
    /\ current' = incoming /\ pos' = 0
    /\ incoming' = None
    /\ UNCHANGED <<queued, stopped>>

Queue ==
    /\ incoming \in Frames /\ ~stopped /\ queued = None
    /\ current # None /\ ~incoming.now
    /\ queued' = incoming
    /\ incoming' = None
    /\ UNCHANGED <<current, pos, stopped>>

Point ==
    /\ current # None /\ pos < current.n
    /\ pos' = pos + 1
    /\ UNCHANGED <<incoming, current, queued, stopped>>

AtEnd == current # None /\ pos = current.n

Repeat ==
    /\ AtEnd /\ queued = None /\ ~current.once
    /\ pos' = 0
    /\ UNCHANGED <<incoming, current, queued, stopped>>

EndOnce ==
    /\ AtEnd /\ queued = None /\ current.once
    /\ current' = None /\ pos' = 0
    /\ UNCHANGED <<incoming, queued, stopped>>

Advance ==
    /\ AtEnd /\ queued # None
    /\ current' = queued /\ pos' = 0
    /\ queued' = None
    /\ UNCHANGED <<incoming, stopped>>

\* The host stops, closes or erases the DAC: playback ends inside the window.
BeginStop ==
    /\ stopped' = TRUE
    /\ UNCHANGED <<incoming, current, pos, queued>>

Halt ==
    /\ stopped
    /\ current' = None /\ queued' = None /\ pos' = 0
    /\ UNCHANGED <<incoming, stopped>>

EndStop ==
    /\ stopped /\ current = None
    /\ stopped' = FALSE
    /\ UNCHANGED <<incoming, current, pos, queued>>

Next ==
    \/ Deliver \/ Refuse \/ Start \/ Queue
    \/ Point \/ Repeat \/ EndOnce \/ Advance
    \/ BeginStop \/ Halt \/ EndStop

Spec == Init /\ [][Next]_vars
=============================================================================
