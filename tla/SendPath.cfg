\* Two handlers at once; the kernel's buffer fills up and peers close.
CONSTANTS
    t1 = t1
    t2 = t2
    s1 = s1
    s2 = s2
    NConns = 2
    Threads <- TwoThreads
    ThrOf <- OwnThreads
    Senders <- TwoSenders
    SndHwm = 2
    MaxSends = 2
    Room = 1
    AllowClose = TRUE

SYMMETRY SenderSymmetry

SPECIFICATION Spec

INVARIANTS
    WireExact
    MarkExact
    PushSafe

CHECK_DEADLOCK FALSE
