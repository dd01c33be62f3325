\* Two threads share the device, under fair scheduling: one sends the frames, the
\* other destroys the object in the end; the handler runs beside them.
SPECIFICATION FairSpec
CONSTANTS
    c1 = c1
    c2 = c2
    Nobody = Nobody
    Clients <- TwoClients
    Senders <- OneClient
    Closer = c2
INVARIANTS
    StopWindowQuiet
PROPERTIES
    ImplementsSending
    FrameTaken
    HandlerEnds
    ClosedDrains
\* Once the object is destroyed nothing runs any more.
CHECK_DEADLOCK FALSE
