----------------------------- MODULE MCDispatch -----------------------------
(***************************************************************************)
(* Two publishers over two connections of one worker thread.               *)
(***************************************************************************)
EXTENDS Dispatch, TLC

CONSTANTS t1, s1, s2

OneThread   == {t1}
SameThread  == [c \in Conns |-> t1]
TwoSenders  == {s1, s2}
OneSender   == {s1}

\* Both connections of one bind; an accepted and an outgoing one; one each of
\* two binds.
AllShapes   == {<<1, 1>>, <<1, 0>>, <<0, 1>>, <<1, 2>>}
OutFirst    == {<<0, 1>>}

All(d, w, st) == [type |-> "ALL", b |-> 0, c |-> 1, dflags |-> d, donwait |-> w, stop |-> st]

MCRequests  == {All({}, FALSE, FALSE), All({}, TRUE, TRUE), All({"OUT"}, FALSE, TRUE),
                [All({}, FALSE, FALSE) EXCEPT !.type = "BIND", !.b = 1],
                [All({"IN"}, TRUE, FALSE) EXCEPT !.type = "BINDCONN", !.b = 1, !.c = 2]}
BindRequest == {[All({}, FALSE, FALSE) EXCEPT !.type = "BIND", !.b = 1]}
=============================================================================
