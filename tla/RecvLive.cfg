\* Two connections share a worker thread and must both be served to the end; or
\* one alone, with the uninitialised cnt at any of three values, without memory
\* and with a wait that is interrupted.  The peers reset.
CONSTANTS
    t1 = t1
    t2 = t2
    NConns = 2
    Threads <- OneThread
    ThrOf <- SameThread
    RcvHwm = 1
    MaxFrames = 2
    MaxChunk = 2
    Endings <- RstOnly
    AllowNoMem = TRUE
    AllowTimeout = FALSE
    AllowSignal = TRUE
    UninitCnt <- CntAny

SPECIFICATION FairSpec

CONSTRAINT HarmAlone

INVARIANTS
    RecvSound

PROPERTIES
    AllDelivered
    ClosedGoesQuiet

CHECK_DEADLOCK FALSE
