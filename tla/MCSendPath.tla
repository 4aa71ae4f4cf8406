----------------------------- MODULE MCSendPath -----------------------------
(***************************************************************************)
(* Two application threads, two connections.                               *)
(***************************************************************************)
EXTENDS SendPath, TLC

CONSTANTS t1, t2, s1, s2

OneThread   == {t1}
TwoThreads  == {t1, t2}
SameThread  == [c \in Conns |-> t1]
OwnThreads  == [c \in Conns |-> IF c = 1 THEN t1 ELSE t2]
OneSender   == {s1}
TwoSenders  == {s1, s2}

\* The senders are interchangeable.
SenderSymmetry == Permutations(TwoSenders)
=============================================================================
