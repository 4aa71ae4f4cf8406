\* Two threads deliver into one socket; the peers close, or break the framing,
\* and waits expire.
CONSTANTS
    t1 = t1
    t2 = t2
    NConns = 2
    Threads <- TwoThreads
    ThrOf <- OwnThreads
    RcvHwm = 1
    MaxFrames = 2
    MaxChunk = 2
    Endings <- BadOnly
    AllowNoMem = TRUE
    AllowTimeout = TRUE
    AllowSignal = FALSE
    UninitCnt <- CntZero

SPECIFICATION Spec

INVARIANTS
    RecvTypeOK
    EventsExact
    StopsConsistent
    HandShake

PROPERTIES
    ImplementsStream

CHECK_DEADLOCK FALSE
