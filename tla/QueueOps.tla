------------------------------ MODULE QueueOps ------------------------------
(***************************************************************************)
(* What the operations of utils/queue.c do to the sequence a queue stands  *)
(* for.  Shared by Fifo, FsockQueue and the modules built on the queues.   *)
(***************************************************************************)
EXTENDS Naturals, Sequences

Elems(s) == {s[j] : j \in 1..Len(s)}

RemoveAt(s, k) ==
    [j \in 1..(Len(s) - 1) |-> IF j < k THEN s[j] ELSE s[j + 1]]

\* fsock_queue_remove: s without its item i, s itself when i is not in it.
Without(s, i) ==
    LET at == {k \in 1..Len(s) : s[k] = i}
    IN IF at = {} THEN s ELSE RemoveAt(s, CHOOSE k \in at : TRUE)
=============================================================================
