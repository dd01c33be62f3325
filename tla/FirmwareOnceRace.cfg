\* A frame played once ends while the next one is being completed.
SPECIFICATION Spec
CONSTANTS
    MaxPoints = 1
    Frames <- LoopAndOnce
    MixedFrames = {}
    OverlapStops = FALSE
    FramesDuringStop = FALSE
INVARIANT
    ReceivesBehindPlayback
