----------------------------- MODULE FrameStream -----------------------------
(***************************************************************************)
(* What a connection promises end to end: the frames one side sends are    *)
(* handed out on the other side at most once each and in order, and none   *)
(* is passed over but the ones that are gone.  Frames of different         *)
(* connections may interleave in any way.                                  *)
(***************************************************************************)
EXTENDS QueueOps

CONSTANT Conns

VARIABLES sent,     \* sent[c]: how many frames were sent on c
          got,      \* got[c]: the frames handed out, by their number
          gone,     \* gone[c]: frames that are known to be lost
          loose     \* frames may be passed over, gone or not

vars == <<sent, got, gone, loose>>

Init == /\ sent = [c \in Conns |-> 0]
        /\ got = [c \in Conns |-> << >>]
        /\ gone = [c \in Conns |-> {}]
        /\ loose = FALSE

Send(c) == /\ sent' = [sent EXCEPT ![c] = @ + 1]
           /\ UNCHANGED <<got, gone, loose>>

\* A frame is lost before it was handed out, or the stream gets loose.
Lose(c) == /\ \/ UNCHANGED gone
              \/ \E f \in (1..sent[c]) \ Elems(got[c]) :
                    gone' = [gone EXCEPT ![c] = @ \cup {f}]
           /\ loose' \in {loose, TRUE}
           /\ UNCHANGED <<sent, got>>

\* A frame newer than all before it is handed out; those in between are gone.
Get(c) == /\ \E f \in (1..sent[c]) \ gone[c] :
                /\ \A g \in Elems(got[c]) : g < f
                /\ ~loose => \A g \in 1..(f - 1) : g \in Elems(got[c]) \cup gone[c]
                /\ got' = [got EXCEPT ![c] = Append(@, f)]
          /\ UNCHANGED <<sent, gone, loose>>

Next == \E c \in Conns : Send(c) \/ Lose(c) \/ Get(c)

Spec == Init /\ [][Next]_vars
=============================================================================
