\* The destructor with the handler at work.
SPECIFICATION Spec
CONSTANTS
    c1 = c1
    c2 = c2
    Nobody = Nobody
    Clients <- OneClient
    Senders <- OneClient
    Closer = c1
INVARIANT
    ThreadsClosedFirst
