----------------------------- MODULE FsockQueue -----------------------------
(***************************************************************************)
(* The intrusive singly linked queue of utils/queue.c, pointer by pointer. *)
(* One item belongs to several candidate queues over its life (a task      *)
(* moves from thr->jobs to the worker's local batch, an event from the     *)
(* read handler's local queue to sock->events), while item->next doubles   *)
(* as the membership flag that other threads read.                         *)
(*                                                                         *)
(* fsock_queue_remove is the one operation that takes many steps while     *)
(* another thread works on a different queue: fsock_sock_bulk_schedule_    *)
(* unsafe walks thr->jobs under thr->sync while the worker pops its        *)
(* private batch without any lock.  So the walk is modelled step by step   *)
(* and only the queue being walked is locked.                              *)
(***************************************************************************)
EXTENDS QueueOps

CONSTANTS Items, Queues,
          NULL,             \* the null pointer
          NOTINQUEUE        \* FSOCK_QUEUE_NOTINQUEUE

ASSUME PointerAssumption ==
    /\ NULL \notin Items
    /\ NOTINQUEUE \notin Items
    /\ NULL # NOTINQUEUE

VARIABLES head, tail,       \* head[x], tail[x]: the two fields of queue x
          next,             \* next[i]: the only field of item i
          walk,             \* locals of the running fsock_queue_remove
          result,           \* the value returned by the last pop
          fifo              \* history: the sequence each queue stands for

vars == <<head, tail, next, walk, result, fifo>>

A == INSTANCE Fifo WITH q <- fifo

Idle == [on |-> FALSE, q |-> NULL, item |-> NULL, it |-> NULL, prev |-> NULL]

\* Only the walker touches the queue it holds the lock of.
Unlocked(x) == ~(walk.on /\ walk.q = x)

TypeOK ==
    /\ head \in [Queues -> Items \cup {NULL}]
    /\ tail \in [Queues -> Items \cup {NULL}]
    /\ next \in [Items -> Items \cup {NULL, NOTINQUEUE}]
    /\ walk \in [on : BOOLEAN, q : Queues \cup {NULL}, item : Items \cup {NULL},
                 it : Items \cup {NULL}, prev : Items \cup {NULL}]
    /\ walk.on => walk.q \in Queues /\ walk.item \in Items
    /\ result \in Items \cup {NULL}
    /\ fifo \in [Queues -> Seq(Items)]

-----------------------------------------------------------------------------
(* fsock_queue_init and fsock_queue_item_init.                             *)
Init == /\ head = [x \in Queues |-> NULL]
        /\ tail = [x \in Queues |-> NULL]
        /\ next = [i \in Items |-> NOTINQUEUE]
        /\ walk = Idle
        /\ result = NULL
        /\ fifo = [x \in Queues |-> << >>]

\* fsock_queue_item_isinqueue
IsInQueue(i) == next[i] # NOTINQUEUE

\* The next pointers push leaves behind.
PushNext(x, i) == [j \in Items |-> IF j = i THEN NULL
                                   ELSE IF j = tail[x] THEN i ELSE next[j]]

\* The assertion on item->next is every caller's obligation.
Push(x, i) ==
    /\ Unlocked(x)
    /\ ~IsInQueue(i)
    /\ head' = IF head[x] = NULL THEN [head EXCEPT ![x] = i] ELSE head
    /\ next' = PushNext(x, i)
    /\ tail' = [tail EXCEPT ![x] = i]
    /\ fifo' = [fifo EXCEPT ![x] = Append(@, i)]
    /\ UNCHANGED <<walk, result>>

LifoResult(x) == tail[x]                                  \* the youngest item

PopResult(x) == head[x]

Pop(x) ==
    /\ Unlocked(x)
    /\ result' = PopResult(x)
    /\ IF head[x] = NULL
       THEN UNCHANGED <<head, tail, next, fifo>>
       ELSE /\ head' = [head EXCEPT ![x] = next[head[x]]]
            /\ tail' = IF next[head[x]] = NULL
                       THEN [tail EXCEPT ![x] = NULL] ELSE tail
            /\ next' = [next EXCEPT ![head[x]] = NOTINQUEUE]
            /\ fifo' = [fifo EXCEPT ![x] = Tail(@)]
    /\ UNCHANGED walk

\* fsock_queue_remove: the early return of an item in no queue changes
\* nothing; otherwise the walk starts at the head.
RemoveCall(x, i) ==
    /\ ~walk.on
    /\ IsInQueue(i)
    /\ walk' = [on |-> TRUE, q |-> x, item |-> i, it |-> head[x], prev |-> NULL]
    /\ UNCHANGED <<head, tail, next, result, fifo>>

\* One turn of the loop on an item that is not the one looked for.
RemoveAdvance ==
    /\ walk.on /\ walk.it # NULL /\ walk.it # walk.item
    /\ walk' = [walk EXCEPT !.prev = walk.it, !.it = next[walk.it]]
    /\ UNCHANGED <<head, tail, next, result, fifo>>

\* The item stands in another queue (a batch): the loop ends without effect.
RemoveMiss ==
    /\ walk.on /\ walk.it = NULL
    /\ walk' = Idle
    /\ UNCHANGED <<head, tail, next, result, fifo>>

\* The end pointers remove leaves behind.
RemoveHead(x, i) == IF head[x] = i THEN [head EXCEPT ![x] = next[i]] ELSE head

KeepRemoveTail(x, i) == tail                              \* tail not repaired

RemoveTail(x, i) == IF tail[x] = i THEN [tail EXCEPT ![x] = walk.prev] ELSE tail

RemoveFound ==
    /\ walk.on /\ walk.it = walk.item
    /\ LET x == walk.q
           i == walk.it
       IN /\ head' = RemoveHead(x, i)
          /\ tail' = RemoveTail(x, i)
          /\ next' = [j \in Items |-> IF j = i THEN NOTINQUEUE
                                      ELSE IF j = walk.prev THEN next[i]
                                      ELSE next[j]]
          /\ fifo' = [fifo EXCEPT ![x] = Without(@, i)]
    /\ walk' = Idle
    /\ UNCHANGED result

\* Queue y, not empty, is hooked behind x by its two end pointers and its own
\* header is reset or abandoned: the read handler's three cases, and
\* async_routine's copy of thr->jobs into an empty local queue.
Splice(x, y) ==
    /\ x # y /\ Unlocked(x) /\ Unlocked(y)
    /\ head[y] # NULL
    /\ next' = IF tail[x] # NULL THEN [next EXCEPT ![tail[x]] = head[y]]
               ELSE IF head[x] # NULL THEN [next EXCEPT ![head[x]] = head[y]]
               ELSE next
    /\ head' = [head EXCEPT ![x] = IF @ = NULL THEN head[y] ELSE @,
                            ![y] = NULL]
    /\ tail' = [tail EXCEPT ![x] = tail[y], ![y] = NULL]
    /\ fifo' = [fifo EXCEPT ![x] = @ \o fifo[y], ![y] = << >>]
    /\ UNCHANGED <<walk, result>>

RemoveStep == RemoveAdvance \/ RemoveMiss \/ RemoveFound

Next == \/ \E x \in Queues : \/ Pop(x)
                             \/ \E i \in Items : Push(x, i) \/ RemoveCall(x, i)
                             \/ \E y \in Queues : Splice(x, y)
        \/ RemoveStep

Spec == Init /\ [][Next]_vars

\* The walk is straight-line code of one thread.
FairSpec == Spec /\ WF_vars(RemoveStep)

-----------------------------------------------------------------------------
(***************************************************************************)
(* Properties.                                                             *)
(***************************************************************************)

\* No item stands twice, in one queue or in two.
NoSharing == \A x, y \in Queues : \A j \in 1..Len(fifo[x]), k \in 1..Len(fifo[y]) :
                fifo[x][j] = fifo[y][k] => x = y /\ j = k

\* head, tail and the chain of next pointers spell out exactly the sequence.
Linked ==
    \A x \in Queues :
       /\ fifo[x] = << >> => head[x] = NULL /\ tail[x] = NULL
       /\ fifo[x] # << >> => head[x] = fifo[x][1] /\ tail[x] = fifo[x][Len(fifo[x])]
       /\ \A k \in 1..Len(fifo[x]) :
             next[fifo[x][k]] = IF k = Len(fifo[x]) THEN NULL ELSE fifo[x][k + 1]

\* queue.h:69: isinqueue says whether the item is part of a queue, so an item
\* that left its queue by pop, remove or a splice never keeps a stale pointer.
IsInQueueExact == \A i \in Items : IsInQueue(i) <=> ~A!Outside(i)

\* A walk never strays into another queue, even while the item it looks for is
\* popped from a different queue: it, prev are neighbours of the walked queue.
WalkInside ==
    walk.on =>
       LET s == fifo[walk.q]
       IN \/ /\ walk.it = NULL
             /\ \A k \in 1..Len(s) : s[k] # walk.item
          \/ \E k \in 1..Len(s) :
                /\ walk.it = s[k]
                /\ walk.prev = IF k = 1 THEN NULL ELSE s[k - 1]
                /\ \A j \in 1..(k - 1) : s[j] # walk.item

\* The linked structure represents the sequences: the inductive invariant.
Represents == NoSharing /\ Linked /\ IsInQueueExact /\ WalkInside

\* The pointer code implements the abstract queues, results of pop included.
ImplementsFifo == A!Spec

\* fsock_queue_remove returns: the chain it follows under the lock has no cycle.
RemoveReturns == walk.on ~> ~walk.on
=============================================================================
