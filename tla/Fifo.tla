-------------------------------- MODULE Fifo --------------------------------
(***************************************************************************)
(* What the intrusive queue of utils/queue.c promises to its users: every  *)
(* queue is a sequence, an item is in at most one queue and at most once,  *)
(* pop hands out the oldest item, remove takes an item out of the queue    *)
(* wherever it stands, and a whole queue can be moved behind another one   *)
(* (async_routine's take, the read handler's splice) without losing,       *)
(* duplicating or reordering an item.                                      *)
(***************************************************************************)
EXTENDS QueueOps

CONSTANTS Items,        \* the queue items, one per task or event
          Queues,       \* the queues
          NULL          \* what pop returns on an empty queue

VARIABLES q,            \* q[x]: the items of queue x, oldest first
          result        \* the value returned by the last pop

vars == <<q, result>>

-----------------------------------------------------------------------------
Outside(i) == \A x \in Queues : \A j \in 1..Len(q[x]) : q[x][j] # i

Init == /\ q = [x \in Queues |-> << >>]
        /\ result = NULL

Push(x, i) == /\ Outside(i)
              /\ q' = [q EXCEPT ![x] = Append(@, i)]
              /\ UNCHANGED result

Pop(x) == IF q[x] = << >>
          THEN result' = NULL /\ UNCHANGED q
          ELSE result' = Head(q[x]) /\ q' = [q EXCEPT ![x] = Tail(@)]

Remove(x, i) == /\ q' = [q EXCEPT ![x] = Without(@, i)]
                /\ UNCHANGED result

Splice(x, y) == /\ x # y
                /\ q' = [q EXCEPT ![x] = @ \o q[y], ![y] = << >>]
                /\ UNCHANGED result

Next == \E x \in Queues : \/ Pop(x)
                          \/ \E i \in Items : Push(x, i) \/ Remove(x, i)
                          \/ \E y \in Queues : Splice(x, y)

Spec == Init /\ [][Next]_vars
=============================================================================
