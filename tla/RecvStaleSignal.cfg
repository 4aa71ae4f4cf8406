\* nn_efd_wait times out and the application calls fsock_get_event again.
CONSTANTS
    t1 = t1
    t2 = t2
    NConns = 1
    Threads <- OneThread
    ThrOf <- SameThread
    RcvHwm = 1
    MaxFrames = 2
    MaxChunk = 2
    Endings <- FinOnly
    AllowNoMem = FALSE
    AllowTimeout = TRUE
    AllowSignal = FALSE
    UninitCnt <- CntZero

SPECIFICATION Spec

INVARIANTS
    EventAfterWait

CHECK_DEADLOCK FALSE
