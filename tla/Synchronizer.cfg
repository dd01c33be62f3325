\* Two frames of each stream fit; the clock ends the run.
SPECIFICATION Spec
CONSTANTS
    MaxBuffer = 2
    Deltas <- TwoDeltas
    MaxTime = 4
INVARIANTS
    InOrder
    Accounted
    StaleIsHopeless
    AlwaysProgress
