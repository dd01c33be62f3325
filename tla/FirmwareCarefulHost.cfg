\* The host leaves 100 ms after a stop, its frames loop, and it polls.
SPECIFICATION CarefulSpec
CONSTANTS
    MaxPoints = 2
    Frames <- LoopingFrames
    MixedFrames <- MixedLooping
    OverlapStops = FALSE
    FramesDuringStop = FALSE
INVARIANTS
    ReceivesBehindPlayback
    NoFrozenBeam
PROPERTIES
    ImplementsStream
    StopWindowEnds
    QueuedFrameTaken
    EndpointRearmed
