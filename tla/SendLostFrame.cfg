\* A frame inserted while the handler is about to stop.
CONSTANTS
    t1 = t1
    t2 = t2
    s1 = s1
    s2 = s2
    NConns = 1
    Threads <- OneThread
    ThrOf <- SameThread
    Senders <- OneSender
    SndHwm = 0
    MaxSends = 2
    Room = 2
    AllowClose = FALSE

SPECIFICATION FairSpec

PROPERTIES
    FrameSent

CHECK_DEADLOCK FALSE
