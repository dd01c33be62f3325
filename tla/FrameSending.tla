---------------------------- MODULE FrameSending ----------------------------
(***************************************************************************)
(* What a device object of the SDK promises about the frames it is given   *)
(* (HeliosDac.h, WriteFrame and the errors -1000 and -1001): a frame is    *)
(* taken only when the one before it is done, is then sent to the DAC once *)
(* and as it was given, and is dropped only if the device is closed.       *)
(* Threads, locks and the frame buffer do not appear.                      *)
(***************************************************************************)
CONSTANTS
    Frames,
    None            \* no frame

VARIABLES
    taken,          \* the frame the device has been given and is not done with
    out,            \* the bytes being transferred to the DAC
    latest,         \* the frame it has been given last
    closed

vars == <<taken, out, latest, closed>>

Init ==
    /\ taken = None /\ out = None
    /\ latest \in Frames
    /\ ~closed

\* Frames follow one another: the one before is not given again.
Take ==
    /\ taken = None
    /\ taken' \in Frames \ {latest}
    /\ latest' = taken'
    /\ UNCHANGED <<out, closed>>

Begin ==
    /\ taken # None /\ out = None /\ ~closed
    /\ out' = taken
    /\ UNCHANGED <<taken, latest, closed>>

\* The transfer has succeeded, failed or timed out; it is not tried again.
End ==
    /\ out # None
    /\ out' = None /\ taken' = None
    /\ UNCHANGED <<latest, closed>>

Close ==
    /\ closed' = TRUE
    /\ UNCHANGED <<taken, out, latest>>

Drop ==
    /\ closed
    /\ out' = None /\ taken' = None
    /\ UNCHANGED <<latest, closed>>

Next == Take \/ Begin \/ End \/ Close \/ Drop

Spec == Init /\ [][Next]_vars
=============================================================================
