----------------------------- MODULE MCRecvPath -----------------------------
(***************************************************************************)
(* Two connections, on one worker thread or on two.                        *)
(***************************************************************************)
EXTENDS RecvPath, TLC

CONSTANTS t1, t2

OneThread   == {t1}
TwoThreads  == {t1, t2}
SameThread  == [c \in Conns |-> t1]
OwnThreads  == [c \in Conns |-> IF c = 1 THEN t1 ELSE t2]

FinOnly     == {"fin"}
BadOnly     == {"bad"}
RstOnly     == {"rst"}

\* cnt happens to start at zero, or with one of a few other values.
CntZero     == {0}
CntAny      == {-1, 0, 1}

\* Two connections while all goes well.  What goes wrong, an allocation, a wait
\* that is cut short or a cnt that does not start at zero, does so on one alone.
HarmAlone ==
    (cutShort \/ miscounted \/ \E c \in Conns : lost[c] # {})
       => sent[2] = 0 /\ ending[2] = "open"
=============================================================================
