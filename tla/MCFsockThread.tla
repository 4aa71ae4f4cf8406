---------------------------- MODULE MCFsockThread ----------------------------
(***************************************************************************)
(* Model checking the worker threads by themselves.                        *)
(***************************************************************************)
EXTENDS FsockThread, TLC

CONSTANTS t1, t2

MCThreads == {t1, t2}
\* The connections share t1, whose batch then races the bulk loop; t2 has none
\* but is locked and woken with the others.
MCThrOf   == [c \in Conns |-> t1]
=============================================================================
