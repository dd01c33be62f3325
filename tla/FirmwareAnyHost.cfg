\* Every kind of frame, stops as close together as the host likes.
SPECIFICATION Spec
CONSTANTS
    MaxPoints = 2
    Frames <- LoopAndEmpty
    MixedFrames <- MixedOnce
    OverlapStops = TRUE
    FramesDuringStop = TRUE
INVARIANTS
    TypeOK
    ReadyFrameIsSafe
    StopFlagHasTimer
    PlayingHasClock
    DarkWhenClosed
    SleepLocksMatch
