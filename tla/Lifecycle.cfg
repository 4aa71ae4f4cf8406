\* Two applications open and close sockets while the workers run and the arrays
\* grow, shrink and have cleared slots filled again.
CONSTANTS
    a1 = a1
    a2 = a2
    r1 = r1
    r2 = r2
    r3 = r3
    r4 = r4
    b1 = b1
    i1 = i1
    o1 = o1
    o2 = o2
    o3 = o3
    o4 = o4
    Apps <- TwoApps
    Roots = {r1, r2, r3, r4}
    Binds = {b1}
    Ins = {i1}
    Outs = {o1, o2, o3, o4}
    Owner <- MCOwner
    BindOf <- MCBindOf
    NThreads = 2
    ThrOf <- MCThrOf
    NFds = 4
    Increment = 3

SPECIFICATION LifeSpec

CONSTRAINT UsedTogether

INVARIANTS
    LifeTypeOK
    QuietCloseSafe
    CloseLeavesNothing

PROPERTIES
    CloseReturns

CHECK_DEADLOCK FALSE
