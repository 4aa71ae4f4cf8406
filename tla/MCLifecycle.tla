---------------------------- MODULE MCLifecycle ----------------------------
(***************************************************************************)
(* Four sockets, two workers and arrays with blocks of three.  The first   *)
(* socket has a bind and the connection accepted there, the second up to   *)
(* four outgoing connections, the others nothing; the worker that accepts  *)
(* is stopped last.                                                        *)
(***************************************************************************)
EXTENDS Lifecycle, TLC

CONSTANTS a1, a2, r1, r2, r3, r4, b1, i1, o1, o2, o3, o4

TwoApps  == {a1, a2}
MCOwner  == [n \in Nodes |-> IF n \in {b1, i1} THEN r1 ELSE IF n \in Outs THEN r2 ELSE n]
MCBindOf == [n \in Ins |-> b1]
MCThrOf  == [n \in Nodes |-> IF n \in {i1} \cup Outs THEN 0 ELSE 1]

\* What a behaviour may use: two sockets with one of everything; four bare
\* sockets, whose array has cleared slots filled again and is full; or one
\* socket with connections for more than one block.
Together == {{r1, r2, b1, i1, o1}, {r1, r2, r3, r4}, {r2, o1, o2, o3, o4}}

\* The connections of r2 differ in nothing and are attached in one order.
UsedTogether ==
    LET used == {n \in Nodes : node[n] # "none"}
    IN /\ \E S \in Together : used \subseteq S
       /\ used \cap Outs \in {{}, {o1}, {o1, o2}, {o1, o2, o3}, Outs}
=============================================================================
