\* Every number of points up to MaxPoints, sent into an empty job or behind stale
\* packets; an int of 5000 stands for 2^31 - 1.
SPECIFICATION Spec
CONSTANTS
    PointCounts <- AllCounts
    Rates <- SomeRates
    StalePackets <- SomeStale
    PointBytes <- TwoBytes
    IntMax = 5000
INVARIANTS
    EndsInShortPacket
    PlayedAsSent
    DurationKept
    MixedFrameFillsJob
CHECK_DEADLOCK FALSE
