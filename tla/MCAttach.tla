------------------------------ MODULE MCAttach ------------------------------
(***************************************************************************)
(* Two application threads, two worker threads.                            *)
(***************************************************************************)
EXTENDS Attach, TLC

CONSTANTS a1, a2

OneApp  == {a1}
TwoApps == {a1, a2}
=============================================================================
