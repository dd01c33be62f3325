\* The timer of a second stop expires inside a tick of the frame played since.
SPECIFICATION Spec
CONSTANTS
    MaxPoints = 1
    Frames <- LoopAndOnce
    MixedFrames = {}
    OverlapStops = TRUE
    FramesDuringStop = TRUE
INVARIANT
    NoFrozenBeam
