\* Two threads open, close and use two devices, which come and go.
SPECIFICATION FairSpec
CONSTANTS
    t1 = t1
    t2 = t2
    d1 = d1
    d2 = d2
    Nobody = Nobody
    Threads <- TwoThreads
    Openers <- TwoThreads
    Devices <- TwoDevices
    MaxRefs = 3
INVARIANTS
    NoDeviceTwice
    InitedMeansOpen
    PointerAlive
    AllFreed
PROPERTIES
    NumbersStable
    CallsReturn
