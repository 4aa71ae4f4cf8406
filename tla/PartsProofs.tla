----------------------------- MODULE PartsProofs -----------------------------
(***************************************************************************)
(* The parts that stand by themselves, for every number of threads, tasks, *)
(* elements and clients and every block size and increment: the event      *)
(* descriptor, the older worker, the pointer array and the benchmarks.     *)
(***************************************************************************)
EXTENDS MCParts, FsockQueueProofs, FiniteSetTheorems, WellFoundedInduction

-----------------------------------------------------------------------------
(* The event descriptor.                                                   *)

\* What a waiter may rely on: an eventfd object has one descriptor, so its
\* unsignal is a single read, and what poll saw stays there for the only
\* waiter; a pipe or socket pair loses its write side first.
EfdWaiter ==
    /\ kind = "eventfd" => (rfd <=> wfd) /\ wait # "unsignal"
    /\ wfd => rfd
    /\ kind = "eventfd" /\ wait = "ready" /\ rfd => pending > 0
    /\ wait # "unsignal" => owed = 0
    /\ rfd => owed <= pending

\* Without an overlap every signal under way finds the object open.
EfdInv == /\ EfdTypeOK /\ EfdSound /\ EfdWaiter
          /\ signalling # {} /\ ~overlap => wfd /\ rfd

\* Every step of signaller, waiter and closer preserves the invariant of the descriptor.
LEMMA EfdInductive ==
    ASSUME EfdInv, [EfdNext]_efdVars
    PROVE  EfdInv'
<1> USE EfdAssumption DEF EfdInv, EfdTypeOK, EfdSound, EfdWaiter
<1>1. CASE WaitBegin
  BY <1>1 DEF WaitBegin
<1>2. CASE WaitReady
  BY <1>2 DEF WaitReady, Readable
<1>3. CASE WaitFails
  BY <1>3 DEF WaitFails
<1>4. CASE Unsignal
  <2>1. CASE ~rfd
    BY <1>4, <2>1 DEF Unsignal
  <2>2. CASE rfd /\ kind = "eventfd"
    BY <1>4, <2>2 DEF Unsignal, Taken, ReadsAgain
  <2>3. CASE rfd /\ kind # "eventfd"
    BY <1>4, <2>3 DEF Unsignal, Taken, ReadsAgain
  <2> QED
    BY <2>1, <2>2, <2>3
<1>5. CASE Stop
  <2>1. CASE kind = "eventfd"
    BY <1>5, <2>1 DEF Stop
  <2>2. CASE kind # "eventfd"
    BY <1>5, <2>2 DEF Stop
  <2> QED
    BY <2>1, <2>2
<1>6. CASE Terminate
  <2>1. ~rfd' /\ ~wfd' /\ pending' = 0 /\ owed' = owed /\ wait' = wait /\ kind' = kind
    BY <1>6 DEF Terminate
  <2>2. EfdWaiter'
    BY <2>1
  <2>3. EfdTypeOK'
    <3>1. pending' \in 0..MaxPending
      BY <1>6 DEF Terminate
    <3>2. rfd' \in BOOLEAN /\ wfd' \in BOOLEAN
      BY <1>6 DEF Terminate
    <3>3. overlap' \in BOOLEAN
      BY <1>6 DEF Terminate
    <3> QED
      BY <1>6, <3>1, <3>2, <3>3 DEF Terminate
  <2>4. EfdSound'
    BY <1>6 DEF Terminate
  <2>5. (signalling # {} /\ ~overlap => wfd /\ rfd)'
    BY <1>6 DEF Terminate
  <2> QED
    BY <2>2, <2>3, <2>4, <2>5
<1>7. ASSUME NEW s \in Signallers, SignalBegin(s)
      PROVE  EfdInv'
  BY <1>7 DEF SignalBegin
<1>8. ASSUME NEW s \in Signallers, SignalWrite(s)
      PROVE  EfdInv'
  <2>1. CASE wfd /\ rfd
    BY <1>8, <2>1 DEF SignalWrite
  <2>2. CASE ~(wfd /\ rfd)
    BY <1>8, <2>2 DEF SignalWrite
  <2> QED
    BY <2>1, <2>2
<1>9. CASE UNCHANGED efdVars
  BY <1>9 DEF efdVars
<1> QED
  BY <1>1, <1>2, <1>3, <1>4, <1>5, <1>6, <1>7, <1>8, <1>9 DEF EfdNext

\* A new descriptor, or none, satisfies it.
LEMMA EfdStart == EfdInit => EfdInv
<1> SUFFICES ASSUME EfdInit PROVE EfdInv
  OBVIOUS
<1>1. (rfd = TRUE /\ wfd = TRUE) \/ (rfd = FALSE /\ wfd = FALSE)
  BY DEF EfdInit
<1>2. EfdTypeOK
  <2>1. rfd \in BOOLEAN /\ wfd \in BOOLEAN /\ aborted \in BOOLEAN /\ overlap \in BOOLEAN
    BY Zenon, <1>1 DEF EfdInit
  <2>2. pending \in 0..MaxPending /\ owed \in 0..MaxPending
    BY EfdAssumption DEF EfdInit
  <2> QED
    BY <2>1, <2>2 DEF EfdInit, EfdTypeOK
<1>3. EfdSound
  BY <1>1 DEF EfdInit, EfdSound
<1>4. EfdWaiter
  BY <1>1 DEF EfdInit, EfdWaiter
<1> QED
  BY <1>1, <1>2, <1>3, <1>4 DEF EfdInv, EfdInit

\* With one waiter and no overlap of a signal with stop or term the assertions
\* of nn_efd_signal and nn_efd_unsignal hold and unsignal leaves nothing that
\* was signalled before it, for every number of signallers and block size.
THEOREM EfdCorrect == EfdSpec => []EfdSound
<1>1. EfdInit => EfdInv
  BY EfdStart
<1>2. EfdInv /\ [EfdNext]_efdVars => EfdInv'
  BY EfdInductive
<1>3. EfdInv => EfdSound
  BY DEF EfdInv
<1> QED
  BY <1>1, <1>2, <1>3, PTL DEF EfdSpec

-----------------------------------------------------------------------------
(* The older worker.                                                       *)

\* The items of a queue that stand before a stop.
Ahead(q) == {q[j] : j \in {k \in 1..Len(q) : \A l \in 1..k : q[l] # StopItem}}

WItems == WTasks \cup {StopItem}

\* A push behind a queue keeps what is ahead of a stop, and is ahead itself
\* when there is none.
LEMMA AheadAppend ==
    ASSUME NEW q \in Seq(WItems), NEW i \in WItems
    PROVE  /\ Append(q, i) \in Seq(WItems) /\ Ahead(q) \subseteq Ahead(Append(q, i))
           /\ StopItem \notin Elems(q) /\ i # StopItem => i \in Ahead(Append(q, i))
<1> DEFINE r == Append(q, i)
<1>1. /\ r \in Seq(WItems) /\ Len(r) = Len(q) + 1 /\ Len(q) \in Nat
      /\ \A j \in 1..Len(q) : r[j] = q[j] /\ j \in 1..Len(r)
      /\ r[Len(q) + 1] = i /\ Len(q) + 1 \in 1..Len(r)
      /\ \A j \in 1..Len(r) : j \in 1..Len(q) \/ j = Len(q) + 1
  OBVIOUS
<1> HIDE DEF r
<1>2. Ahead(q) \subseteq Ahead(r)
  <2>1. ASSUME NEW j \in 1..Len(q), \A l \in 1..j : q[l] # StopItem
        PROVE  q[j] \in Ahead(r)
    <3>1. j \in 1..Len(r) /\ r[j] = q[j] /\ \A l \in 1..j : l \in 1..Len(q)
      BY <1>1
    <3>2. \A l \in 1..j : r[l] # StopItem
      BY <1>1, <2>1, <3>1
    <3> QED
      BY <3>1, <3>2 DEF Ahead
  <2> QED
    BY <2>1 DEF Ahead
<1>3. ASSUME StopItem \notin Elems(q), i # StopItem
      PROVE  i \in Ahead(r)
  <2>1. \A l \in 1..(Len(q) + 1) : r[l] # StopItem
    BY <1>1, <1>3 DEF Elems
  <2> QED
    BY <1>1, <2>1 DEF Ahead
<1> QED
  BY <1>1, <1>2, <1>3 DEF r

\* A turn of the callback's loop runs the head, and what is ahead behind it
\* stays ahead.
LEMMA AheadTail ==
    ASSUME NEW q \in Seq(WItems), q # << >>
    PROVE  /\ Head(q) = StopItem => Ahead(q) = {} /\ StopItem \in Elems(q)
           /\ Ahead(q) \subseteq Ahead(Tail(q)) \cup {Head(q)}
<1>1. /\ Tail(q) \in Seq(WItems) /\ Len(q) \in Nat /\ Len(Tail(q)) = Len(q) - 1
      /\ \A j \in 1..Len(Tail(q)) : Tail(q)[j] = q[j + 1] /\ j + 1 \in 1..Len(q)
      /\ Head(q) = q[1] /\ 1 \in 1..Len(q)
  BY ElemsTail
<1>2. ASSUME Head(q) = StopItem
      PROVE  Ahead(q) = {} /\ StopItem \in Elems(q)
  BY <1>1, <1>2 DEF Ahead, Elems
<1>3. ASSUME NEW j \in 1..Len(q), \A l \in 1..j : q[l] # StopItem, j # 1
      PROVE  q[j] \in Ahead(Tail(q))
  <2>1. PICK k \in 1..Len(Tail(q)) : k = j - 1
    BY <1>1, <1>3
  <2>2. Tail(q)[k] = q[j]
    BY <1>1, <2>1
  <2>3. \A l \in 1..k : Tail(q)[l] # StopItem
    <3>1. \A l \in 1..k : l \in 1..Len(Tail(q)) /\ l + 1 \in 1..j
      BY <1>1, <2>1
    <3> QED
      BY <1>1, <1>3, <3>1
  <2> QED
    BY <2>2, <2>3 DEF Ahead
<1> QED
  BY <1>1, <1>2, <1>3 DEF Ahead

\* fsock_worker_erase_task takes one item out, and the others stay ahead.
LEMMA AheadWithout ==
    ASSUME NEW q \in Seq(WItems), NEW i \in WTasks
    PROVE  Ahead(q) \subseteq Ahead(Without(q, i)) \cup {i}
<1> DEFINE here == {k \in 1..Len(q) : q[k] = i}
<1>1. CASE here = {}
  <2>1. Without(q, i) = q
    BY <1>1 DEF Without
  <2> QED
    BY <2>1
<1>2. CASE here # {}
  <2>1. PICK p \in here : p = CHOOSE k \in here : TRUE
    BY <1>2
  <2> DEFINE r == RemoveAt(q, p)
  <2>2. Without(q, i) = r
    BY <1>2, <2>1 DEF Without
  <2>3. p \in 1..Len(q) /\ q[p] = i
    OBVIOUS
  <2>4. /\ Len(r) = Len(q) - 1 /\ Len(q) \in Nat
        /\ \A j \in 1..(Len(q) - 1) : r[j] = IF j < p THEN q[j] ELSE q[j + 1]
    BY <2>3, RemoveAtType
  <2> HIDE DEF r, here
  <2>5. ASSUME NEW j \in 1..Len(q), \A l \in 1..j : q[l] # StopItem, j # p
        PROVE  q[j] \in Ahead(r)
    <3>1. PICK k \in 1..Len(r) : /\ r[k] = q[j] /\ k <= j
                                 /\ \A l \in 1..k : l \in 1..j /\ (l < p \/ l + 1 \in 1..j)
      <4>1. CASE j < p
        <5>1. j \in 1..Len(r) /\ r[j] = q[j]
          BY <2>3, <2>4, <4>1
        <5>2. \A l \in 1..j : l < p
          BY <2>3, <4>1
        <5> QED
          BY <5>1, <5>2
      <4>2. CASE j > p
        <5>1. PICK k \in 1..Len(r) : k = j - 1
          BY <2>3, <2>4, <4>2
        <5>2. r[k] = q[j]
          BY <2>3, <2>4, <4>2, <5>1
        <5>3. \A l \in 1..k : l \in 1..j /\ l + 1 \in 1..j
          BY <2>4, <5>1
        <5> QED
          BY <5>1, <5>2, <5>3
      <4> QED
        BY <2>3, <2>5, <4>1, <4>2
    <3>2. \A l \in 1..k : r[l] # StopItem
      <4>1. \A l \in 1..k : l \in 1..(Len(q) - 1)
        BY <2>4
      <4> QED
        BY <2>4, <2>5, <3>1, <4>1
    <3> QED
      BY <3>1, <3>2 DEF Ahead
  <2> QED
    BY <2>2, <2>3, <2>5 DEF Ahead
<1> QED
  BY <1>1, <1>2

\* Where a task that is due is: run, in the batch before the stop, or in the
\* queue before the stop when the batch has none.
Awaited(b, q) == Ahead(b) \cup (IF StopItem \in Elems(b) THEN {} ELSE Ahead(q))

WorkerInv ==
    /\ WorkerTypeOK /\ NoTaskForgotten
    /\ wlife \in {"none", "failed"} => wtasks = << >> /\ wbatch = << >> /\ due = {}
    /\ wlife = "running" => StopItem \notin Elems(wtasks) /\ StopItem \notin Elems(wbatch)
    /\ due \subseteq ran \cup Awaited(wbatch, wtasks)

\* Every step of the worker, of its callers and of its end keeps this.
LEMMA WorkerInductive ==
    ASSUME WorkerInv, [WorkerNext]_workerVars
    PROVE  WorkerInv'
<1>1. /\ wtasks \in Seq(WItems) /\ wbatch \in Seq(WItems) /\ wasync \in BOOLEAN
      /\ wlife \in {"none", "failed", "running", "stopping", "ended", "destroyed"}
      /\ sending \subseteq Callers /\ due \subseteq WTasks /\ ran \subseteq WTasks
      /\ (wtasks # << >> /\ wlife \in {"running", "stopping"} => wasync \/ sending # {})
      /\ (wlife \in {"ended", "destroyed"} => due \subseteq ran)
      /\ (wlife \in {"none", "failed"} => wtasks = << >> /\ wbatch = << >> /\ due = {})
      /\ (wlife = "running" => StopItem \notin Elems(wtasks) /\ StopItem \notin Elems(wbatch))
      /\ due \subseteq ran \cup Awaited(wbatch, wtasks)
  BY DEF WorkerInv, WorkerTypeOK, NoTaskForgotten, WItems
<1>2. Elems(<< >>) = {} /\ Ahead(<< >>) = {}
  BY DEF Elems, Ahead
<1>3. CASE Create
  <2>1. wlife = "none" /\ wlife' \in {"running", "failed"} /\ UNCHANGED <<wtasks, wbatch, wasync, sending, due, ran>>
    BY <1>3 DEF Create
  <2> QED
    BY <1>1, <1>2, <2>1 DEF WorkerInv, WorkerTypeOK, NoTaskForgotten, WItems
<1>4. ASSUME NEW c \in Callers, NEW i \in WTasks, SchedulePush(c, i)
      PROVE  WorkerInv'
  <2>1. /\ wlife \in {"running", "stopping"} /\ wtasks' = Append(wtasks, i) /\ sending' = sending \cup {c}
        /\ due' = (IF wlife = "running" THEN due \cup {i} ELSE due)
        /\ UNCHANGED <<wbatch, wasync, wlife, ran>>
    BY <1>4 DEF SchedulePush
  <2>2. i \in WItems /\ i # StopItem
    BY WorkerAssumption DEF WItems
  <2>3. /\ wtasks' \in Seq(WItems) /\ Ahead(wtasks) \subseteq Ahead(wtasks')
        /\ (StopItem \notin Elems(wtasks) => i \in Ahead(wtasks'))
    BY <1>1, <2>1, <2>2, AheadAppend
  <2>4. Elems(wtasks') = Elems(wtasks) \cup {i}
    BY <1>1, <2>1, <2>2, ElemsAppend
  <2>5. due' \subseteq ran' \cup Awaited(wbatch', wtasks')
    <3>1. CASE wlife = "running"
      BY <1>1, <2>1, <2>3, <3>1 DEF Awaited
    <3>2. CASE wlife # "running"
      BY <1>1, <2>1, <2>3, <3>2 DEF Awaited
    <3> QED
      BY <3>1, <3>2
  <2>6. due' \subseteq WTasks
    BY <1>1, <2>1
  <2> QED
    BY <1>1, <2>1, <2>2, <2>3, <2>4, <2>5, <2>6 DEF WorkerInv, WorkerTypeOK, NoTaskForgotten, WItems
<1>5. ASSUME NEW c \in Callers, ScheduleSend(c)
      PROVE  WorkerInv'
  <2>1. /\ sending' = sending \ {c} /\ wasync' \in BOOLEAN
        /\ wlife # "destroyed" => wasync' = TRUE
        /\ UNCHANGED <<wtasks, wbatch, wlife, due, ran>>
    BY <1>1, <1>5 DEF ScheduleSend, SendsAsync
  <2> QED
    BY <1>1, <2>1 DEF WorkerInv, WorkerTypeOK, NoTaskForgotten, WItems
<1>6. ASSUME NEW i \in WTasks, EraseTask(i)
      PROVE  WorkerInv'
  <2>1. /\ i \in Elems(wtasks) \cup Elems(wbatch) /\ wtasks' = Without(wtasks, i)
        /\ due' = (IF i \in Elems(wtasks) THEN due \ {i} ELSE due)
        /\ UNCHANGED <<wbatch, wasync, wlife, sending, ran>>
    BY <1>6 DEF EraseTask, Queued
  <2>2. /\ wtasks' \in Seq(WItems) /\ Elems(wtasks') \subseteq Elems(wtasks)
        /\ (i \notin Elems(wtasks) => wtasks' = wtasks)
    BY <1>1, <2>1, WithoutElems
  <2>3. Ahead(wtasks) \subseteq Ahead(wtasks') \cup {i}
    BY <1>1, <2>1, AheadWithout
  <2>4. wtasks = << >> => wtasks' = << >>
    BY <1>2, <2>2
  <2>5. wlife \notin {"none", "failed"}
    BY <1>1, <1>2, <2>1
  <2>6. due' \subseteq ran' \cup Awaited(wbatch', wtasks')
    <3>1. CASE i \in Elems(wtasks)
      BY <1>1, <2>1, <2>3, <3>1 DEF Awaited
    <3>2. CASE i \notin Elems(wtasks)
      BY <1>1, <2>1, <2>2, <3>2
    <3> QED
      BY <3>1, <3>2
  <2>7. due' \subseteq due
    BY <2>1
  <2> QED
    BY <1>1, <2>1, <2>2, <2>4, <2>5, <2>6, <2>7 DEF WorkerInv, WorkerTypeOK, NoTaskForgotten, WItems
<1>7. CASE TermPush
  <2>1. /\ wlife = "running" /\ wtasks' = Append(wtasks, StopItem) /\ wasync' = TRUE /\ wlife' = "stopping"
        /\ UNCHANGED <<wbatch, sending, due, ran>>
    BY <1>7 DEF TermPush, StopBehind
  <2>2. wtasks' \in Seq(WItems) /\ Ahead(wtasks) \subseteq Ahead(wtasks')
    <3>1. StopItem \in WItems
      BY DEF WItems
    <3> QED
      BY <1>1, <2>1, <3>1, AheadAppend
  <2>3. due' \subseteq ran' \cup Awaited(wbatch', wtasks')
    BY <1>1, <2>1, <2>2 DEF Awaited
  <2> QED
    BY <1>1, <2>1, <2>2, <2>3 DEF WorkerInv, WorkerTypeOK, NoTaskForgotten, WItems
<1>8. CASE TermJoin
  <2>1. wlife = "ended" /\ wlife' = "destroyed" /\ wasync' = FALSE
        /\ UNCHANGED <<wtasks, wbatch, sending, due, ran>>
    BY <1>8 DEF TermJoin
  <2> QED
    BY <1>1, <2>1 DEF WorkerInv, WorkerTypeOK, NoTaskForgotten, WItems
<1>9. CASE Callback
  <2>1. /\ wlife \in {"running", "stopping"} /\ wbatch = << >> /\ wasync' = FALSE /\ wbatch' = wtasks
        /\ wtasks' = << >> /\ UNCHANGED <<wlife, sending, due, ran>>
    BY <1>9 DEF Callback
  <2>2. due' \subseteq ran' \cup Awaited(wbatch', wtasks')
    BY <1>1, <1>2, <2>1 DEF Awaited
  <2> QED
    BY <1>1, <1>2, <2>1, <2>2 DEF WorkerInv, WorkerTypeOK, NoTaskForgotten, WItems
<1>10. CASE WorkerRun
  <2>1. /\ wlife \in {"running", "stopping"} /\ wbatch # << >> /\ UNCHANGED <<wtasks, wasync, sending, due>>
    BY <1>10 DEF WorkerRun
  <2>2. /\ (Head(wbatch) = StopItem => Ahead(wbatch) = {} /\ StopItem \in Elems(wbatch))
        /\ Ahead(wbatch) \subseteq Ahead(Tail(wbatch)) \cup {Head(wbatch)}
    BY <1>1, <2>1, AheadTail
  <2>3. /\ Tail(wbatch) \in Seq(WItems) /\ Head(wbatch) \in WItems
        /\ Elems(wbatch) = {Head(wbatch)} \cup Elems(Tail(wbatch))
    BY <1>1, <2>1, ElemsTail
  <2>4. CASE Head(wbatch) = StopItem
    <3>1. wbatch' = << >> /\ wlife' = "ended" /\ ran' = ran
      BY <1>10, <2>4 DEF WorkerRun
    <3>2. due \subseteq ran
      BY <1>1, <2>2, <2>4 DEF Awaited
    <3> QED
      BY <1>1, <1>2, <2>1, <3>1, <3>2 DEF WorkerInv, WorkerTypeOK, NoTaskForgotten, WItems
  <2>5. CASE Head(wbatch) # StopItem
    <3>1. wbatch' = Tail(wbatch) /\ ran' = ran \cup {Head(wbatch)} /\ wlife' = wlife
      BY <1>10, <2>5 DEF WorkerRun
    <3>2. due' \subseteq ran' \cup Awaited(wbatch', wtasks')
      <4>1. StopItem \in Elems(wbatch) <=> StopItem \in Elems(wbatch')
        BY <2>3, <2>5, <3>1
      <4> QED
        BY <1>1, <2>1, <2>2, <3>1, <4>1 DEF Awaited
    <3>3. ran' \subseteq WTasks
      BY <1>1, <2>3, <2>5, <3>1 DEF WItems
    <3> QED
      BY <1>1, <2>1, <2>3, <3>1, <3>2, <3>3 DEF WorkerInv, WorkerTypeOK, NoTaskForgotten, WItems
  <2> QED
    BY <2>4, <2>5
<1>11. CASE UNCHANGED workerVars
  BY <1>1, <1>11 DEF WorkerInv, WorkerTypeOK, NoTaskForgotten, WItems, workerVars
<1> QED
  BY <1>3, <1>4, <1>5, <1>6, <1>7, <1>8, <1>9, <1>10, <1>11 DEF WorkerNext, WorkerStep

\* Before the worker is made nothing is scheduled.
LEMMA WorkerStart == WorkerInit => WorkerInv
<1> SUFFICES ASSUME WorkerInit PROVE WorkerInv
  OBVIOUS
<1>1. Elems(<< >>) = {} /\ Ahead(<< >>) = {} /\ << >> \in Seq(WTasks \cup {StopItem})
  BY DEF Elems, Ahead
<1>2. wasync \in BOOLEAN
  BY Zenon DEF WorkerInit
<1> QED
  BY <1>1, <1>2 DEF WorkerInit, WorkerInv, WorkerTypeOK, NoTaskForgotten

\* Tasks of fsock_worker_schedule_task never wait in the queue of a sleeping
\* loop although the async is sent outside the lock, and what was scheduled
\* before fsock_worker_term runs before the loop ends, for every number of
\* callers and tasks.
THEOREM TasksRemembered == WorkerSpec => []NoTaskForgotten
<1>1. WorkerInit => WorkerInv
  BY WorkerStart
<1>2. WorkerInv /\ [WorkerNext]_workerVars => WorkerInv'
  BY WorkerInductive
<1>3. WorkerInv => NoTaskForgotten
  BY DEF WorkerInv
<1> QED
  BY <1>1, <1>2, <1>3, PTL DEF WorkerSpec

-----------------------------------------------------------------------------
(* The pointer array.                                                      *)

\* Every non-empty set of indices has a first one.
LEMMA FirstOf ==
    ASSUME NEW T \in SUBSET Nat, T # {}
    PROVE  \E x \in T : \A y \in T : x <= y
<1>1. IsWellFoundedOn(OpToRel(<, Nat), Nat)
  BY NatLessThanWellFounded
<1>2. PICK x \in T : \A y \in T : ~(<<y, x>> \in OpToRel(<, Nat))
  BY <1>1, WFMin
<1>3. \A y \in T : ~(y < x)
  BY <1>2 DEF OpToRel
<1> QED
  BY <1>3

\* The index insert stores to: a hole below last, or last.
LEMMA StoreIndexIs ==
    ASSUME NEW mem, last \in Nat
    PROVE  StoreIndex(mem) \in 0..last /\ (StoreIndex(mem) = last \/ mem[StoreIndex(mem)] = EMPTY)
<1> DEFINE T == {i \in 0..last : i = last \/ mem[i] = EMPTY}
<1>1. T \in SUBSET Nat /\ last \in T
  OBVIOUS
<1>2. PICK x \in T : \A y \in T : x <= y
  BY <1>1, FirstOf
<1>3. x \in 0..last /\ (x = last \/ mem[x] = EMPTY) /\ \A j \in 0..(x - 1) : mem[j] # EMPTY
  BY <1>2
<1>4. \E i \in 0..last : (i = last \/ mem[i] = EMPTY) /\ \A j \in 0..(i - 1) : mem[j] # EMPTY
  BY <1>3
<1> QED
  BY <1>4 DEF StoreIndex

\* The index a scan from i comes to, if there is one: the first in use.
LEMMA NextUsedIs ==
    ASSUME last \in Nat, NEW i \in Nat
    PROVE  \/ NextUsed(i) = NoHandle /\ \A j \in i..(last - 1) : elems[j] = EMPTY
           \/ /\ NextUsed(i) \in i..(last - 1) /\ elems[NextUsed(i)] # EMPTY
              /\ \A k \in i..(last - 1) : elems[k] # EMPTY => NextUsed(i) <= k
<1> DEFINE used == {j \in i..(last - 1) : elems[j] # EMPTY}
<1>1. CASE used = {}
  BY <1>1 DEF NextUsed
<1>2. CASE used # {}
  <2>1. used \in SUBSET Nat
    OBVIOUS
  <2>2. PICK x \in used : \A y \in used : x <= y
    BY <1>2, <2>1, FirstOf
  <2>3. NextUsed(i) = CHOOSE j \in used : \A k \in used : j <= k
    BY <1>2 DEF NextUsed
  <2>4. NextUsed(i) \in used /\ \A k \in used : NextUsed(i) <= k
    BY <2>2, <2>3
  <2> QED
    BY <2>4
<1> QED
  BY <1>1, <1>2

\* A realloc keeps what lies within both sizes.
LEMMA ReallocKeeps ==
    ASSUME elems \in [Slots -> Elements \cup Uninit \cup {EMPTY}], NEW cap, NEW end,
           NEW mem \in Realloc(cap, end)
    PROVE  /\ mem \in [Slots -> Elements \cup Uninit \cup {EMPTY}]
           /\ \A i \in Slots : i < cap /\ i < capacity => mem[i] = elems[i]
<1> DEFINE kept  == {i \in Slots : i < cap /\ i < capacity}
           fresh == {i \in Slots : i < cap \/ i < end} \ kept
<1>1. PICK u \in [fresh -> Uninit] :
          mem = [i \in Slots |-> IF i \in kept THEN elems[i] ELSE IF i \in fresh THEN u[i] ELSE EMPTY]
  BY DEF Realloc
<1>2. mem \in [Slots -> Elements \cup Uninit \cup {EMPTY}]
  BY <1>1
<1>3. \A i \in Slots : i \in kept => mem[i] = elems[i]
  BY <1>1
<1> QED
  BY <1>2, <1>3

\* The capacity is a number of increments.
Blocks(cap) == \E k \in Nat : cap = k * Increment

\* Capacities are whole blocks, and adding or removing one block keeps them so.
LEMMA BlocksMove ==
    ASSUME NEW cap \in Nat, Blocks(cap)
    PROVE  /\ Blocks(cap + Increment) /\ (cap # 0 => cap >= Increment)
           /\ cap # 0 /\ cap # Increment => cap - Increment >= Increment
           /\ cap # 0 => Blocks(cap - Increment)
<1>1. PICK k \in Nat : cap = k * Increment
  BY DEF Blocks
<1>2. Increment \in Nat /\ Increment > 1
  BY ParrAssumption
<1>3. cap + Increment = (k + 1) * Increment
  BY <1>1, <1>2
<1>4. Blocks(cap + Increment)
  BY <1>3 DEF Blocks
<1>5. CASE k = 0
  BY <1>1, <1>2, <1>4, <1>5
<1>6. CASE k = 1
  <2>1. cap = Increment
    BY <1>1, <1>2, <1>6
  <2>2. Blocks(0)
    <3>1. 0 = 0 * Increment
      BY <1>2
    <3> QED
      BY <3>1 DEF Blocks
  <2> QED
    BY <1>2, <1>4, <2>1, <2>2
<1>7. CASE k >= 2
  <2>1. PICK j \in Nat : k = j + 2
    <3>1. k - 2 \in Nat /\ k = (k - 2) + 2
      BY <1>7
    <3> QED
      BY <3>1
  <2>2. cap = j * Increment + 2 * Increment /\ cap - Increment = (j + 1) * Increment
    BY <1>1, <1>2, <2>1
  <2>3. j * Increment >= 0
    BY <1>2
  <2>4. Blocks(cap - Increment)
    BY <2>2 DEF Blocks
  <2>5. cap >= 2 * Increment
    BY <1>2, <2>2, <2>3
  <2> QED
    BY <1>2, <1>4, <2>4, <2>5
<1> QED
  BY <1>5, <1>6, <1>7


\* A slot holds the marker or an element whose handle it is.
Clean(i) == elems[i] = EMPTY \/ (elems[i] \in Elements /\ at[elems[i]] = i)

\* What keeps handles valid: the capacity is whole blocks, the loop of clear
\* runs only where there is one, and the walk stands on a slot below last.
ParrShape ==
    /\ ParrTypeOK /\ HandlesValid
    /\ Blocks(capacity) /\ (capacity = 0 => last = 0)
    /\ shrinking => capacity > 0 /\ iter.pc \in {"off", "clear"}
    /\ iter.pc = "at" => capacity > 0 /\ iter.i \in 0..(last - 1) /\ elems[iter.i] # EMPTY
    /\ iter.pc = "clear" => iter.i \in Slots
    /\ iter.pc = "off" => ~iter.tidy

\* What insert, clear, and the walk may count on in a tidy array: every slot
\* below last is clean, and a walk has no live element behind it.
ParrOrder ==
    /\ tidy => /\ ~failed /\ (capacity # 0 => last < capacity)
               /\ \A i \in 0..(last - 1) : Clean(i)
               /\ (iter.pc # "off" /\ ~iter.tidy => last = 0)
    /\ iter.tidy => /\ \A i \in 0..(last - 1) : i < capacity => Clean(i)
                    /\ (iter.pc = "at" => \A e \in Live : at[e] >= iter.i)
                    /\ (iter.pc = "clear" => \A e \in Live : at[e] > iter.i)
                    /\ (iter.pc = "end" \/ failed => Live = {})

ParrInv == ParrShape /\ ParrOrder

\* Insert keeps every handle in place: it stores to a hole or behind the last
\* slot, below the capacity it has grown to, and tidy arrays stay tidy only
\* behind the last slot.
LEMMA InsertKeeps ==
    ASSUME ParrInv, NEW e \in Elements, Insert(e)
    PROVE  ParrInv'
<1>1. /\ ParrTypeOK /\ HandlesValid /\ Blocks(capacity) /\ (capacity = 0 => last = 0)
      /\ iter.pc = "off" /\ ~iter.tidy /\ shrinking = FALSE /\ ~failed /\ at[e] = NoHandle
  BY DEF ParrInv, ParrShape, Insert, Live, ParrTypeOK
<1>2. shrinking' = FALSE /\ iter' = iter
  BY <1>1 DEF Insert
<1>3. Increment \in Nat /\ Increment > 1 /\ MaxCapacity \in Nat /\ EMPTY \notin Elements
  BY ParrAssumption
<1>4. CASE capacity # 0 /\ last >= capacity
  <2>1. failed' = TRUE /\ UNCHANGED <<elems, last, capacity, at, tidy>>
    BY <1>4 DEF Insert
  <2>2. ~tidy
    BY <1>1, <1>4 DEF ParrInv, ParrOrder, ParrTypeOK
  <2>3. ParrShape'
    BY <1>1, <1>2, <2>1 DEF ParrShape, ParrTypeOK, HandlesValid, Live
  <2>4. ParrOrder'
    BY <1>1, <1>2, <2>1, <2>2 DEF ParrOrder
  <2> QED
    BY <2>3, <2>4 DEF ParrInv
<1>5. CASE ~(capacity # 0 /\ last >= capacity)
  <2> DEFINE cap == IF MustGrow THEN capacity + Increment ELSE capacity
  <2>1. PICK mem \in (IF MustGrow THEN Realloc(cap, last) ELSE {elems}) :
            /\ elems' = [i \in Slots |-> IF i = StoreIndex(mem) THEN e ELSE mem[i]]
            /\ at' = [at EXCEPT ![e] = StoreIndex(mem)]
            /\ tidy' = (tidy /\ StoreIndex(mem) = last)
    BY <1>5 DEF Insert
  <2>2. cap <= MaxCapacity /\ capacity' = cap /\ last' = last + 1 /\ failed' = failed
    BY <1>5 DEF Insert
  <2>3. /\ last \in Nat /\ capacity \in Nat /\ last <= MaxCapacity /\ capacity <= MaxCapacity
        /\ elems \in [Slots -> Elements \cup Uninit \cup {EMPTY}]
        /\ at \in [Elements -> Slots \cup {NoHandle}]
    BY <1>1, <1>3 DEF ParrTypeOK
  <2>4. cap \in Nat /\ capacity <= cap /\ last < cap /\ last + 1 <= cap /\ (tidy => last + 1 < cap)
    BY <1>1, <1>3, <1>5, <2>3 DEF MustGrow
  <2>5. /\ mem \in [Slots -> Elements \cup Uninit \cup {EMPTY}]
        /\ \A i \in Slots : i < capacity => mem[i] = elems[i]
    <3>1. CASE MustGrow
      <4>1. mem \in Realloc(cap, last)
        BY <2>1, <3>1
      <4>2. /\ mem \in [Slots -> Elements \cup Uninit \cup {EMPTY}]
            /\ \A i \in Slots : i < cap /\ i < capacity => mem[i] = elems[i]
        BY <2>3, <4>1, ReallocKeeps
      <4> QED
        BY <2>3, <2>4, <4>2 DEF Slots
    <3>2. CASE ~MustGrow
      BY <2>1, <2>3, <3>2
    <3> QED
      BY <3>1, <3>2
  <2>6. Blocks(cap)
    BY <1>1, <2>3, BlocksMove
  <2> HIDE DEF cap
  <2>7. PICK s \in 0..last : s = StoreIndex(mem) /\ (s = last \/ mem[s] = EMPTY)
    BY <2>3, StoreIndexIs
  <2>8. s \in Slots /\ s < cap /\ s < last + 1
    BY <1>3, <2>2, <2>3, <2>4, <2>7 DEF Slots
  <2>9. /\ elems' = [i \in Slots |-> IF i = s THEN e ELSE mem[i]]
        /\ at' = [at EXCEPT ![e] = s] /\ (tidy' <=> tidy /\ s = last)
    BY <2>1, <2>7
  <2>10. tidy' \in BOOLEAN
    BY <2>1
  <2>11. ParrTypeOK'
    <3>1. elems' \in [Slots -> Elements \cup Uninit \cup {EMPTY}]
      BY <2>5, <2>9
    <3>2. at' \in [Elements -> Slots \cup {NoHandle}]
      BY <2>3, <2>8, <2>9
    <3>3. last' \in 0..MaxCapacity /\ capacity' \in 0..MaxCapacity
      BY <1>3, <2>2, <2>3, <2>4
    <3> QED
      BY <1>1, <1>2, <2>2, <2>10, <3>1, <3>2, <3>3 DEF ParrTypeOK
  <2>12. HandlesValid'
    <3> SUFFICES ASSUME NEW f \in Elements, at'[f] # NoHandle
                 PROVE  at'[f] < capacity' /\ at'[f] < last' /\ elems'[at'[f]] = f
      BY DEF HandlesValid, Live
    <3>1. CASE f = e
      BY <2>2, <2>3, <2>8, <2>9, <3>1
    <3>2. CASE f # e
      <4>1. at'[f] = at[f] /\ f \in Live
        BY <2>3, <2>9, <3>2 DEF Live
      <4>2. at[f] < capacity /\ at[f] < last /\ elems[at[f]] = f /\ at[f] \in Slots
        BY <1>1, <2>3, <4>1 DEF HandlesValid, Live
      <4>3. mem[at[f]] = f /\ at[f] # s
        BY <1>3, <2>5, <2>7, <4>2
      <4> QED
        BY <2>2, <2>3, <2>4, <2>9, <4>1, <4>2, <4>3 DEF Slots
    <3> QED
      BY <3>1, <3>2
  <2>13. ParrShape'
    <3>1. Blocks(capacity)' /\ (capacity' = 0 => last' = 0)
      BY <2>2, <2>3, <2>4, <2>6 DEF Blocks
    <3> QED
      BY <1>1, <1>2, <2>11, <2>12, <3>1 DEF ParrShape
  <2>14. ParrOrder'
    <3>1. ASSUME tidy' PROVE \A i \in 0..(last' - 1) : Clean(i)'
      <4>1. tidy /\ s = last
        BY <2>9, <3>1
      <4>2. (capacity # 0 => last < capacity) /\ \A i \in 0..(last - 1) : Clean(i)
        BY <4>1 DEF ParrInv, ParrOrder
      <4>3. ASSUME NEW i \in 0..(last' - 1) PROVE Clean(i)'
        <5>1. i \in Slots /\ i <= last
          BY <1>3, <2>2, <2>3, <2>4, <4>3 DEF Slots
        <5>2. CASE i = s
          BY <2>3, <2>8, <2>9, <5>1, <5>2 DEF Clean
        <5>3. CASE i # s
          <6>1. i \in 0..(last - 1) /\ i < capacity
            BY <1>1, <2>3, <4>1, <4>2, <5>1, <5>3 DEF Slots
          <6>2. elems'[i] = elems[i] /\ Clean(i)
            BY <2>5, <2>9, <4>2, <5>1, <5>3, <6>1
          <6>3. elems[i] # e
            BY <1>1, <5>1, <6>2, <1>3 DEF Clean, NoHandle, Slots
          <6> QED
            BY <2>3, <2>9, <6>2, <6>3 DEF Clean
        <5> QED
          BY <5>2, <5>3
      <4> QED
        BY <4>3
    <3>2. ASSUME tidy' PROVE ~failed' /\ (capacity' # 0 => last' < capacity')
      BY <1>1, <2>2, <2>4, <2>9, <3>2
    <3> QED
      BY <1>1, <1>2, <3>1, <3>2 DEF ParrOrder
  <2> QED
    BY <2>13, <2>14 DEF ParrInv
<1> QED
  BY <1>4, <1>5


\* Clearing a handle in use empties its slot and nothing else.
LEMMA ClearKeeps ==
    ASSUME ParrInv, NEW e \in Elements, Clear(e)
    PROVE  ParrInv'
<1>1. /\ ParrTypeOK /\ HandlesValid /\ Blocks(capacity) /\ (capacity = 0 => last = 0)
      /\ iter.pc = "off" /\ ~iter.tidy /\ shrinking = FALSE /\ ~failed /\ e \in Live
  BY DEF ParrInv, ParrShape, Clear, ParrTypeOK
<1>2. /\ elems' = [elems EXCEPT ![at[e]] = EMPTY] /\ at' = [at EXCEPT ![e] = NoHandle]
      /\ shrinking' = TRUE /\ UNCHANGED <<last, capacity, failed, tidy, iter>>
  BY DEF Clear, Cleared
<1>3. Increment \in Nat /\ Increment > 1 /\ MaxCapacity \in Nat /\ EMPTY \notin Elements
  BY ParrAssumption
<1>4. /\ last \in Nat /\ capacity \in Nat /\ last <= MaxCapacity /\ capacity <= MaxCapacity
      /\ elems \in [Slots -> Elements \cup Uninit \cup {EMPTY}]
      /\ at \in [Elements -> Slots \cup {NoHandle}]
  BY <1>1, <1>3 DEF ParrTypeOK
<1>5. at[e] \in Slots /\ at[e] < capacity /\ elems[at[e]] = e
  BY <1>1, <1>4 DEF HandlesValid, Live
<1>6. ParrTypeOK'
  BY <1>1, <1>2, <1>4, <1>5 DEF ParrTypeOK
<1>7. HandlesValid'
  <2> SUFFICES ASSUME NEW f \in Elements, at'[f] # NoHandle
               PROVE  at'[f] < capacity' /\ at'[f] < last' /\ elems'[at'[f]] = f
    BY DEF HandlesValid, Live
  <2>1. f # e /\ at'[f] = at[f] /\ f \in Live
    BY <1>2, <1>4 DEF Live
  <2>2. at[f] < capacity /\ at[f] < last /\ elems[at[f]] = f /\ at[f] \in Slots
    BY <1>1, <1>4, <2>1 DEF HandlesValid, Live
  <2> QED
    BY <1>2, <1>4, <1>5, <2>1, <2>2
<1>8. capacity' > 0
  BY <1>2, <1>4, <1>5, <1>3 DEF Slots
<1>9. ParrShape'
  <2>1. Blocks(capacity)'
    BY <1>1, <1>2 DEF Blocks
  <2> QED
    BY <1>1, <1>2, <1>6, <1>7, <1>8, <2>1 DEF ParrShape
<1>10. ParrOrder'
  <2>1. ASSUME tidy, NEW i \in 0..(last - 1) PROVE Clean(i)'
    <3>1. Clean(i) /\ i \in Slots
      BY <1>3, <1>4, <2>1 DEF ParrInv, ParrOrder, Slots
    <3>2. CASE i = at[e]
      BY <1>2, <1>4, <1>5, <3>2 DEF Clean
    <3>3. CASE i # at[e]
      <4>1. elems'[i] = elems[i] /\ elems[i] # e
        BY <1>2, <1>3, <1>4, <3>1, <3>3 DEF Clean
      <4> QED
        BY <1>2, <1>4, <3>1, <4>1 DEF Clean
    <3> QED
      BY <3>2, <3>3
  <2>2. tidy => ~failed /\ (capacity # 0 => last < capacity)
    BY DEF ParrInv, ParrOrder
  <2> QED
    BY <1>1, <1>2, <2>1, <2>2 DEF ParrOrder
<1> QED
  BY <1>9, <1>10 DEF ParrInv

\* The slots below last, none of them in use: nothing is counted.
LEMMA NothingCounted ==
    ASSUME \A i \in 0..(last - 1) : elems[i] = EMPTY
    PROVE  Size = 0
<1>1. {i \in 0..(last - 1) : elems[i] # EMPTY} = {}
  OBVIOUS
<1> QED
  BY <1>1, FS_EmptySet DEF Size

\* A turn of the shrink loop frees only slots it has looked at: no handle lies
\* in the block given back, and none is left when the array starts afresh.
LEMMA ShrinkKeeps ==
    ASSUME ParrInv, Shrink
    PROVE  ParrInv'
<1>1. /\ ParrTypeOK /\ HandlesValid /\ Blocks(capacity) /\ (capacity = 0 => last = 0)
      /\ capacity > 0 /\ iter.pc \in {"off", "clear"} /\ shrinking = TRUE /\ ~failed
      /\ (iter.pc = "clear" => iter.i \in Slots) /\ (iter.pc = "off" => ~iter.tidy)
  BY DEF ParrInv, ParrShape, Shrink, ParrTypeOK
<1>2. at' = at /\ iter' = iter /\ (shrinking' <=> CanShrink /\ capacity # Increment) /\ shrinking' \in BOOLEAN
  BY DEF Shrink
<1>3. Increment \in Nat /\ Increment > 1 /\ MaxCapacity \in Nat /\ EMPTY \notin Elements
  BY ParrAssumption
<1>4. /\ last \in Nat /\ capacity \in Nat /\ last <= MaxCapacity /\ capacity <= MaxCapacity
      /\ elems \in [Slots -> Elements \cup Uninit \cup {EMPTY}]
      /\ at \in [Elements -> Slots \cup {NoHandle}]
  BY <1>1, <1>3 DEF ParrTypeOK
<1>5. \A f \in Live : at[f] \in Slots /\ at[f] < capacity /\ at[f] < last /\ elems[at[f]] = f
  BY <1>1, <1>4 DEF HandlesValid, Live
<1>6. Live' = Live
  BY <1>2 DEF Live
<1>7. CASE ~CanShrink
  <2>1. UNCHANGED <<elems, last, capacity, failed, tidy>>
    BY <1>7 DEF Shrink
  <2>2. ~shrinking'
    BY <1>2, <1>7
  <2>3. ParrShape'
    BY <1>1, <1>2, <1>6, <2>1, <2>2 DEF ParrShape, ParrTypeOK, HandlesValid, Blocks
  <2>4. ParrOrder'
    BY <1>2, <1>6, <2>1 DEF ParrInv, ParrOrder, Clean
  <2> QED
    BY <2>3, <2>4 DEF ParrInv
<1>8. CASE CanShrink /\ capacity = Increment
  <2>1. /\ failed' = (Size # 0) /\ last' = 0 /\ capacity' = 0 /\ tidy' = TRUE /\ elems' \in Realloc(0, 0)
        /\ ~shrinking'
    BY <1>2, <1>8 DEF Shrink
  <2>2. \A i \in 0..(last - 1) : elems[i] = EMPTY
    BY <1>3, <1>8 DEF CanShrink
  <2>3. Size = 0
    BY <2>2, NothingCounted
  <2>4. failed' = FALSE
    BY <2>1, <2>3
  <2>5. Live = {}
    <3>1. ASSUME NEW f \in Live PROVE FALSE
      <4>1. elems[at[f]] = EMPTY /\ elems[at[f]] = f /\ f \in Elements
        BY <1>3, <1>4, <1>5, <2>2, <3>1 DEF Live, Slots
      <4> QED
        BY <1>3, <4>1
    <3> QED
      BY <3>1
  <2>6. elems' \in [Slots -> Elements \cup Uninit \cup {EMPTY}]
    <3>1. PICK mem \in Realloc(0, 0) : elems' = mem
      BY <2>1
    <3>2. mem \in [Slots -> Elements \cup Uninit \cup {EMPTY}]
      BY <1>4, ReallocKeeps
    <3> QED
      BY <3>1, <3>2
  <2>7. ParrTypeOK'
    BY <1>1, <1>2, <1>3, <2>1, <2>4, <2>6 DEF ParrTypeOK
  <2>8. Blocks(0)
    <3>1. 0 \in Nat /\ 0 = 0 * Increment
      BY <1>3
    <3> QED
      BY <3>1 DEF Blocks
  <2>9. ParrShape'
    <3>1. Blocks(capacity)' /\ HandlesValid'
      BY <1>6, <2>1, <2>5, <2>8 DEF Blocks, HandlesValid
    <3> QED
      BY <1>1, <1>2, <2>1, <2>7, <3>1 DEF ParrShape
  <2>10. ParrOrder'
    BY <1>2, <1>6, <2>1, <2>4, <2>5 DEF ParrOrder
  <2> QED
    BY <2>9, <2>10 DEF ParrInv
<1>9. CASE CanShrink /\ capacity # Increment
  <2>1. /\ capacity' = capacity - Increment /\ elems' \in Realloc(capacity - Increment, last) /\ tidy' = FALSE
        /\ UNCHANGED <<last, failed>>
    BY <1>9 DEF Shrink, Smaller
  <2>2. capacity - Increment >= Increment /\ Blocks(capacity - Increment)
    BY <1>1, <1>4, <1>9, BlocksMove
  <2>3. /\ elems' \in [Slots -> Elements \cup Uninit \cup {EMPTY}]
        /\ \A i \in Slots : i < capacity - Increment => elems'[i] = elems[i]
    <3>1. PICK mem \in Realloc(capacity - Increment, last) : elems' = mem
      BY <2>1
    <3>2. /\ mem \in [Slots -> Elements \cup Uninit \cup {EMPTY}]
          /\ \A i \in Slots : i < capacity - Increment /\ i < capacity => mem[i] = elems[i]
      BY <1>4, ReallocKeeps
    <3> QED
      BY <1>3, <1>4, <3>1, <3>2 DEF Slots
  <2>4. \A i \in (capacity - Increment)..(last - 1) : elems[i] = EMPTY
    BY <1>9 DEF CanShrink
  <2>5. HandlesValid'
    <3>1. ASSUME NEW f \in Live
          PROVE  at[f] < capacity - Increment /\ at[f] < last /\ elems'[at[f]] = f
      <4>1. at[f] \in Slots /\ at[f] < capacity /\ at[f] < last /\ elems[at[f]] = f /\ f \in Elements
        BY <1>5, <3>1 DEF Live
      <4>2. ~(at[f] >= capacity - Increment)
        BY <1>3, <1>4, <2>4, <4>1 DEF Slots
      <4> QED
        BY <1>3, <1>4, <2>3, <4>1, <4>2 DEF Slots
    <3> QED
      BY <1>2, <1>6, <2>1, <3>1 DEF HandlesValid
  <2>6. ParrTypeOK'
    <3>1. capacity' \in 0..MaxCapacity
      BY <1>3, <1>4, <2>1, <2>2
    <3> QED
      BY <1>1, <1>2, <2>1, <2>3, <3>1 DEF ParrTypeOK
  <2>7. ParrShape'
    <3>1. Blocks(capacity)' /\ capacity' > 0
      BY <1>3, <1>4, <2>1, <2>2 DEF Blocks
    <3> QED
      BY <1>1, <1>2, <2>5, <2>6, <3>1 DEF ParrShape
  <2>8. ParrOrder'
    <3>1. ASSUME iter.tidy, NEW i \in 0..(last - 1), i < capacity - Increment PROVE Clean(i)'
      <4>1. i \in Slots /\ i < capacity
        BY <1>3, <1>4, <3>1 DEF Slots
      <4>2. Clean(i) /\ elems'[i] = elems[i]
        BY <2>3, <3>1, <4>1 DEF ParrInv, ParrOrder
      <4> QED
        BY <1>2, <4>2 DEF Clean
    <3> QED
      BY <1>1, <1>2, <1>6, <2>1, <3>1 DEF ParrInv, ParrOrder
  <2> QED
    BY <2>7, <2>8 DEF ParrInv
<1> QED
  BY <1>7, <1>8, <1>9


\* The walk moves to the first slot in use at or behind its index, or ends.
LEMMA WalkMoves ==
    ASSUME ParrInv, ~failed, ~shrinking, NEW j, NEW t \in BOOLEAN,
           iter' = At(j, t), UNCHANGED <<elems, last, capacity, shrinking, failed, at, tidy>>,
           j = NoHandle \/ (capacity > 0 /\ j \in 0..(last - 1) /\ elems[j] # EMPTY),
           t => /\ \A i \in 0..(last - 1) : i < capacity => Clean(i)
                /\ (j = NoHandle => Live = {})
                /\ \A f \in Live : at[f] >= j,
           tidy /\ ~t => last = 0
    PROVE  ParrInv'
<1>1. ParrTypeOK /\ HandlesValid /\ Blocks(capacity) /\ (capacity = 0 => last = 0)
  BY DEF ParrInv, ParrShape
<1>2. MaxCapacity \in Nat /\ EMPTY \notin Elements /\ NULLPTR \notin Elements /\ EMPTY # NULLPTR
  BY ParrAssumption
<1>3. /\ last \in Nat /\ capacity \in Nat /\ last <= MaxCapacity /\ capacity <= MaxCapacity
      /\ at \in [Elements -> Slots \cup {NoHandle}]
  BY <1>1, <1>2 DEF ParrTypeOK
<1>4. j \in Slots \cup {NoHandle}
  BY <1>2, <1>3 DEF Slots
<1>5. PICK p \in {"at", "end"} : iter' = [pc |-> p, i |-> j, tidy |-> t]
  <2>1. CASE j = NoHandle
    BY <2>1 DEF At
  <2>2. CASE j # NoHandle /\ elems[j] = NULLPTR
    BY <2>2 DEF At
  <2>3. CASE j # NoHandle /\ elems[j] # NULLPTR
    BY <2>3 DEF At
  <2> QED
    BY <2>1, <2>2, <2>3
<1>6. iter'.pc = p /\ iter'.i = j /\ iter'.tidy = t
  BY <1>5
<1>7. p = "at" => j # NoHandle
  BY <1>6 DEF At
<1>8. p = "end" => j = NoHandle \/ elems[j] = NULLPTR
  BY <1>6 DEF At
<1>9. Live' = Live /\ (HandlesValid)'
  BY <1>1 DEF Live, HandlesValid
<1>10. ParrTypeOK'
  BY <1>1, <1>4, <1>5 DEF ParrTypeOK
<1>11. ParrShape'
  <2>1. Blocks(capacity)'
    BY <1>1 DEF Blocks
  <2> QED
    BY <1>1, <1>6, <1>7, <1>9, <1>10, <2>1 DEF ParrShape
<1>12. \A i : Clean(i)' <=> Clean(i)
  BY DEF Clean
<1>13. t /\ p = "end" => Live = {}
  <2> SUFFICES ASSUME t, p = "end", NEW f \in Live PROVE FALSE
    OBVIOUS
  <2>1. j # NoHandle /\ elems[j] = NULLPTR /\ j \in 0..(last - 1) /\ at[f] >= j
    BY <1>8
  <2>2. at[f] \in Slots /\ at[f] < capacity /\ elems[at[f]] = f
    BY <1>1, <1>3 DEF HandlesValid, Live
  <2>3. Clean(j)
    BY <1>2, <1>3, <2>1, <2>2 DEF Slots
  <2> QED
    BY <1>2, <2>1, <2>3 DEF Clean
<1>14. ParrOrder'
  <2>1. tidy => ~failed /\ (capacity # 0 => last < capacity) /\ \A i \in 0..(last - 1) : Clean(i)
    BY DEF ParrInv, ParrOrder
  <2>2. tidy' => /\ ~failed' /\ (capacity' # 0 => last' < capacity')
                 /\ \A i \in 0..(last' - 1) : Clean(i)'
                 /\ (iter'.pc # "off" /\ ~iter'.tidy => last' = 0)
    BY <1>6, <1>12, <2>1
  <2>3. iter'.tidy => /\ \A i \in 0..(last' - 1) : i < capacity' => Clean(i)'
                      /\ (iter'.pc = "at" => \A e \in Live' : at'[e] >= iter'.i)
                      /\ (iter'.pc = "clear" => \A e \in Live' : at'[e] > iter'.i)
                      /\ (iter'.pc = "end" \/ failed' => Live' = {})
    BY <1>6, <1>9, <1>12, <1>13
  <2> QED
    BY <2>2, <2>3 DEF ParrOrder
<1> QED
  BY <1>11, <1>14 DEF ParrInv

\* The steps of a terminating owner's walk: on an array that was tidy when the
\* walk began the slot it stands on is the first live one, or none is left.
LEMMA WalkKeeps ==
    ASSUME ParrInv, TermBegin \/ TermStep
    PROVE  ParrInv'
<1>1. /\ ParrTypeOK /\ HandlesValid /\ Blocks(capacity) /\ (capacity = 0 => last = 0)
      /\ ~failed /\ ~shrinking
  BY DEF ParrInv, ParrShape, TermBegin, TermStep, TermClear, TermNext, Term
<1>2. /\ MaxCapacity \in Nat /\ EMPTY \notin Elements /\ NULLPTR \notin Elements /\ EMPTY # NULLPTR
      /\ Increment \in Nat
  BY ParrAssumption
<1>3. /\ last \in Nat /\ capacity \in Nat /\ last <= MaxCapacity /\ capacity <= MaxCapacity
      /\ elems \in [Slots -> Elements \cup Uninit \cup {EMPTY}]
      /\ at \in [Elements -> Slots \cup {NoHandle}] /\ iter.tidy \in BOOLEAN /\ tidy \in BOOLEAN
  BY <1>1, <1>2 DEF ParrTypeOK
<1>4. \A f \in Live : at[f] \in Slots /\ at[f] < capacity /\ at[f] < last /\ elems[at[f]] = f /\ f \in Elements
  BY <1>1, <1>3 DEF HandlesValid, Live
<1>5. \A f \in Live : at[f] \in 0..(last - 1) /\ elems[at[f]] # EMPTY
  BY <1>2, <1>3, <1>4 DEF Slots
<1>6. CASE TermBegin
  <2> DEFINE j == IF last = 0 \/ capacity = 0 THEN NoHandle ELSE NextUsed(0)
  <2>1. /\ iter' = At(j, tidy) /\ UNCHANGED <<elems, last, capacity, shrinking, failed, at, tidy>>
    BY <1>6 DEF TermBegin
  <2>2. /\ (j = NoHandle => Live = {}) /\ \A f \in Live : at[f] >= j
        /\ (j = NoHandle \/ (capacity > 0 /\ j \in 0..(last - 1) /\ elems[j] # EMPTY))
    <3>1. CASE last = 0 \/ capacity = 0
      BY <1>1, <1>3, <1>4, <3>1 DEF Slots
    <3>2. CASE ~(last = 0 \/ capacity = 0)
      <4>1. \/ j = NoHandle /\ \A k \in 0..(last - 1) : elems[k] = EMPTY
            \/ /\ j \in 0..(last - 1) /\ elems[j] # EMPTY
               /\ \A k \in 0..(last - 1) : elems[k] # EMPTY => j <= k
        BY <1>3, <3>2, NextUsedIs
      <4> HIDE DEF j
      <4>2. CASE j = NoHandle /\ \A k \in 0..(last - 1) : elems[k] = EMPTY
        BY <1>5, <4>2
      <4>3. CASE /\ j \in 0..(last - 1) /\ elems[j] # EMPTY
                 /\ \A k \in 0..(last - 1) : elems[k] # EMPTY => j <= k
        BY <1>3, <1>5, <3>2, <4>3 DEF NoHandle
      <4> QED
        BY <4>1, <4>2, <4>3
    <3> QED
      BY <3>1, <3>2
  <2> HIDE DEF j
  <2>3. tidy => \A i \in 0..(last - 1) : i < capacity => Clean(i)
    BY DEF ParrInv, ParrOrder
  <2> QED
    BY <1>1, <1>3, <2>1, <2>2, <2>3, WalkMoves
<1>7. CASE TermNext
  <2>1. /\ iter.pc = "clear" /\ iter' = At(NextIndex(iter.i), iter.tidy)
        /\ UNCHANGED <<elems, last, capacity, shrinking, failed, at, tidy>>
    BY <1>7 DEF TermNext
  <2>2. iter.i \in Nat /\ iter.i + 1 \in Nat
    BY <1>2, <2>1 DEF ParrInv, ParrShape, Slots
  <2>3. iter.tidy => (\A f \in Live : at[f] > iter.i) /\ \A i \in 0..(last - 1) : i < capacity => Clean(i)
    BY <2>1 DEF ParrInv, ParrOrder
  <2>4. tidy /\ ~iter.tidy => last = 0
    BY <2>1 DEF ParrInv, ParrOrder
  <2>5. PICK j : j = NextIndex(iter.i)
    OBVIOUS
  <2>6. j = NoHandle \/ (capacity > 0 /\ j \in 0..(last - 1) /\ elems[j] # EMPTY)
    <3>1. CASE last = 0 \/ iter.i = last - 1
      BY <2>5, <3>1 DEF NextIndex
    <3>2. CASE ~(last = 0 \/ iter.i = last - 1)
      <4>1. j = NextUsed(iter.i + 1)
        BY <2>5, <3>2 DEF NextIndex
      <4>2. j = NoHandle \/ (j \in (iter.i + 1)..(last - 1) /\ elems[j] # EMPTY)
        BY <1>3, <2>2, <4>1, NextUsedIs
      <4> QED
        BY <1>1, <1>3, <2>2, <3>2, <4>2
    <3> QED
      BY <3>1, <3>2
  <2>7. iter.tidy => (j = NoHandle => Live = {}) /\ \A f \in Live : at[f] >= j
    <3> SUFFICES ASSUME iter.tidy PROVE (j = NoHandle => Live = {}) /\ \A f \in Live : at[f] >= j
      OBVIOUS
    <3>1. \A f \in Live : at[f] \in (iter.i + 1)..(last - 1) /\ elems[at[f]] # EMPTY
      BY <1>3, <1>5, <2>2, <2>3
    <3>2. CASE last = 0 \/ iter.i = last - 1
      <4>1. Live = {}
        BY <1>3, <2>2, <3>1, <3>2
      <4> QED
        BY <4>1
    <3>3. CASE ~(last = 0 \/ iter.i = last - 1)
      <4>1. j = NextUsed(iter.i + 1)
        BY <2>5, <3>3 DEF NextIndex
      <4>2. \/ j = NoHandle /\ \A k \in (iter.i + 1)..(last - 1) : elems[k] = EMPTY
            \/ /\ j \in (iter.i + 1)..(last - 1)
               /\ \A k \in (iter.i + 1)..(last - 1) : elems[k] # EMPTY => j <= k
        BY <1>3, <2>2, <4>1, NextUsedIs
      <4>3. CASE j = NoHandle /\ \A k \in (iter.i + 1)..(last - 1) : elems[k] = EMPTY
        BY <3>1, <4>3
      <4>4. CASE /\ j \in (iter.i + 1)..(last - 1)
                 /\ \A k \in (iter.i + 1)..(last - 1) : elems[k] # EMPTY => j <= k
        BY <1>3, <2>2, <3>1, <4>4 DEF NoHandle
      <4> QED
        BY <4>2, <4>3, <4>4
    <3> QED
      BY <3>2, <3>3
  <2>8. iter' = At(j, iter.tidy)
    BY <2>1, <2>5
  <2> QED
    BY <1>1, <1>3, <2>1, <2>3, <2>4, <2>6, <2>7, <2>8, WalkMoves
<1>8. CASE TermClear
  <2>1. /\ iter.pc = "at" /\ failed' = (elems[iter.i] \notin Live)
        /\ elems' = [elems EXCEPT ![iter.i] = EMPTY]
        /\ at' = [e \in Elements |-> IF e = elems[iter.i] THEN NoHandle ELSE at[e]]
        /\ shrinking' = TRUE /\ iter' = [iter EXCEPT !.pc = "clear"] /\ UNCHANGED <<last, capacity, tidy>>
    BY <1>8 DEF TermClear, Cleared
  <2>2. PICK w, x : w = iter.i /\ x = elems[w]
    OBVIOUS
  <2>3. capacity > 0 /\ w \in 0..(last - 1) /\ x # EMPTY /\ w \in Slots
    BY <1>2, <1>3, <2>1, <2>2 DEF ParrInv, ParrShape, Slots
  <2>4. /\ iter'.pc = "clear" /\ iter'.i = w /\ iter'.tidy = iter.tidy
        /\ iter' \in [pc : {"off", "at", "clear", "end"}, i : Slots \cup {NoHandle}, tidy : BOOLEAN]
    BY <1>1, <2>1, <2>2 DEF ParrTypeOK
  <2>5. Live' = Live \ {x} /\ \A f \in Live' : at'[f] = at[f]
    BY <2>1, <2>2 DEF Live
  <2>6. failed' \in BOOLEAN /\ (failed' <=> x \notin Live)
    BY <2>1, <2>2
  <2>7. ParrTypeOK'
    <3>1. elems' \in [Slots -> Elements \cup Uninit \cup {EMPTY}]
      BY <1>3, <2>1
    <3>2. at' \in [Elements -> Slots \cup {NoHandle}]
      BY <1>3, <2>1
    <3> QED
      BY <1>1, <2>1, <2>4, <2>6, <3>1, <3>2 DEF ParrTypeOK
  <2>8. \A f \in Live' : at[f] # w
    BY <1>4, <2>2, <2>5
  <2>9. HandlesValid'
    <3> SUFFICES ASSUME NEW f \in Live'
                 PROVE  at'[f] < capacity' /\ at'[f] < last' /\ elems'[at'[f]] = f
      BY DEF HandlesValid
    <3>1. f \in Live /\ at'[f] = at[f] /\ at[f] # w
      BY <2>5, <2>8
    <3> QED
      BY <1>3, <1>4, <2>1, <2>2, <3>1
  <2>10. ParrShape'
    <3>1. Blocks(capacity)'
      BY <1>1, <2>1 DEF Blocks
    <3> QED
      BY <1>1, <2>1, <2>3, <2>4, <2>7, <2>9, <3>1 DEF ParrShape
  <2>11. ASSUME NEW i \in 0..(last - 1), Clean(i), Clean(w) \/ x \notin Elements \/ at[x] = NoHandle PROVE Clean(i)'
    <3>1. i \in Slots
      BY <1>2, <1>3, <2>11 DEF Slots
    <3>2. CASE i = w
      BY <1>3, <2>1, <2>2, <2>3, <3>2 DEF Clean
    <3>3. CASE i # w
      <4>1. elems'[i] = elems[i]
        BY <1>3, <2>1, <2>2, <3>1, <3>3
      <4>2. elems[i] = EMPTY \/ elems[i] # x
        BY <1>2, <2>2, <2>3, <2>11, <3>1, <3>3 DEF Clean, Slots, NoHandle
      <4> QED
        BY <2>1, <2>2, <2>11, <4>1, <4>2 DEF Clean
    <3> QED
      BY <3>2, <3>3
  <2>12. Clean(w) => x \in Live
    BY <1>2, <2>2, <2>3 DEF Clean, Live, Slots, NoHandle
  <2>13. tidy => Clean(w) /\ iter.tidy /\ (capacity # 0 => last < capacity)
    BY <2>1, <2>3, <1>3 DEF ParrInv, ParrOrder
  <2>14. iter.tidy => (\A f \in Live : at[f] >= w) /\ (Live # {} => Clean(w))
    <3> SUFFICES ASSUME iter.tidy PROVE (\A f \in Live : at[f] >= w) /\ (Live # {} => Clean(w))
      OBVIOUS
    <3>1. \A f \in Live : at[f] >= w
      BY <2>1, <2>2 DEF ParrInv, ParrOrder
    <3>2. ASSUME NEW f \in Live PROVE Clean(w)
      <4>1. w < capacity
        BY <1>2, <1>3, <1>4, <2>3, <3>1 DEF Slots
      <4> QED
        BY <2>3, <4>1 DEF ParrInv, ParrOrder
    <3> QED
      BY <3>1, <3>2
  <2>15. ParrOrder'
    <3>1. ASSUME iter.tidy, NEW i \in 0..(last - 1), i < capacity PROVE Clean(i)'
      <4>1. Clean(i)
        BY <3>1 DEF ParrInv, ParrOrder
      <4>2. Clean(w) \/ x \notin Elements \/ at[x] = NoHandle
        BY <2>14, <3>1 DEF Live
      <4> QED
        BY <2>11, <4>1, <4>2
    <3>2. ASSUME tidy, NEW i \in 0..(last - 1) PROVE Clean(i)'
      BY <2>11, <2>13, <3>2 DEF ParrInv, ParrOrder
    <3>3. iter.tidy => \A f \in Live' : at'[f] > w
      <4> SUFFICES ASSUME iter.tidy, NEW f \in Live' PROVE at'[f] > w
        OBVIOUS
      <4>1. f \in Live /\ at'[f] = at[f] /\ at[f] # w /\ at[f] >= w /\ at[f] \in Slots
        BY <1>4, <2>5, <2>8, <2>14
      <4> QED
        BY <1>2, <2>3, <4>1 DEF Slots
    <3>4. iter.tidy /\ failed' => Live' = {}
      BY <2>5, <2>6, <2>12, <2>14
    <3>5. tidy => ~failed' /\ (capacity # 0 => last < capacity) /\ iter.tidy
      BY <2>6, <2>12, <2>13
    <3>6. tidy' => /\ ~failed' /\ (capacity' # 0 => last' < capacity')
                   /\ \A i \in 0..(last' - 1) : Clean(i)'
                   /\ (iter'.pc # "off" /\ ~iter'.tidy => last' = 0)
      BY <2>1, <2>4, <3>2, <3>5
    <3>7. iter'.tidy => /\ \A i \in 0..(last' - 1) : i < capacity' => Clean(i)'
                        /\ (iter'.pc = "at" => \A e \in Live' : at'[e] >= iter'.i)
                        /\ (iter'.pc = "clear" => \A e \in Live' : at'[e] > iter'.i)
                        /\ (iter'.pc = "end" \/ failed' => Live' = {})
      BY <2>1, <2>4, <3>1, <3>3, <3>4
    <3> QED
      BY <3>6, <3>7 DEF ParrOrder
  <2> QED
    BY <2>10, <2>15 DEF ParrInv
<1>9. CASE Term
  <2>1. iter.pc = "end" /\ shrinking' = shrinking
    BY <1>9 DEF Term
  <2>2. tidy => Size = 0
    <3> SUFFICES ASSUME tidy PROVE \A i \in 0..(last - 1) : elems[i] = EMPTY
      BY NothingCounted
    <3>1. CASE iter.tidy
      <4>1. Live = {} /\ \A i \in 0..(last - 1) : Clean(i)
        BY <2>1, <3>1 DEF ParrInv, ParrOrder
      <4>2. ASSUME NEW i \in 0..(last - 1), elems[i] # EMPTY PROVE FALSE
        <5>1. elems[i] \in Elements /\ at[elems[i]] = i /\ i >= 0
          BY <1>3, <4>1, <4>2 DEF Clean
        <5>2. elems[i] \in Live
          BY <1>3, <5>1 DEF Live, NoHandle
        <5> QED
          BY <4>1, <5>2
      <4> QED
        BY <4>2
    <3>2. CASE ~iter.tidy
      <4>1. last = 0
        BY <2>1, <3>2 DEF ParrInv, ParrOrder
      <4> QED
        BY <4>1
    <3> QED
      BY <3>1, <3>2
  <2>3. CASE Size # 0
    <3>1. failed' = TRUE /\ UNCHANGED <<elems, last, capacity, at, tidy, iter>>
      BY <1>9, <2>3 DEF Term
    <3>2. ParrShape'
      BY <1>1, <2>1, <3>1 DEF ParrInv, ParrShape, ParrTypeOK, HandlesValid, Live, Blocks
    <3>3. ~tidy' /\ (iter.tidy => Live = {} /\ \A i \in 0..(last - 1) : i < capacity => Clean(i))
      BY <2>1, <2>2, <2>3, <3>1 DEF ParrInv, ParrOrder
    <3>4. ParrOrder'
      BY <2>1, <3>1, <3>3 DEF ParrOrder, Live, Clean
    <3> QED
      BY <3>2, <3>4 DEF ParrInv
  <2>4. CASE Size = 0
    <3>1. /\ elems' \in Realloc(0, 0) /\ last' = 0 /\ capacity' = 0 /\ tidy' = TRUE
          /\ at' = [e \in Elements |-> NoHandle] /\ iter' = NoWalk /\ failed' = failed
      BY <1>9, <2>4 DEF Term
    <3>2. elems' \in [Slots -> Elements \cup Uninit \cup {EMPTY}]
      <4>1. PICK mem \in Realloc(0, 0) : elems' = mem
        BY <3>1
      <4>2. mem \in [Slots -> Elements \cup Uninit \cup {EMPTY}]
        BY <1>3, ReallocKeeps
      <4> QED
        BY <4>1, <4>2
    <3>3. iter'.pc = "off" /\ ~iter'.tidy
          /\ iter' \in [pc : {"off", "at", "clear", "end"}, i : Slots \cup {NoHandle}, tidy : BOOLEAN]
      BY <3>1 DEF NoWalk
    <3>4. Live' = {}
      BY <3>1 DEF Live
    <3>5. ParrTypeOK'
      BY <1>1, <1>2, <2>1, <3>1, <3>2, <3>3 DEF ParrTypeOK
    <3>6. ParrShape'
      <4>1. 0 \in Nat /\ 0 = 0 * Increment
        BY <1>2
      <4>2. Blocks(capacity)'
        BY <3>1, <4>1 DEF Blocks
      <4> QED
        BY <1>1, <2>1, <3>1, <3>3, <3>4, <3>5, <4>2 DEF ParrShape, HandlesValid
    <3>7. ParrOrder'
      BY <1>1, <3>1, <3>3 DEF ParrOrder
    <3> QED
      BY <3>6, <3>7 DEF ParrInv
  <2> QED
    BY <2>3, <2>4
<1> QED
  BY <1>6, <1>7, <1>8, <1>9 DEF TermStep

\* An empty array satisfies the invariant.
LEMMA ParrStart == ParrInit => ParrInv
<1> SUFFICES ASSUME ParrInit PROVE ParrInv
  OBVIOUS
<1>1. MaxCapacity \in Nat /\ Increment \in Nat
  BY ParrAssumption
<1>2. iter.pc = "off" /\ ~iter.tidy
      /\ iter \in [pc : {"off", "at", "clear", "end"}, i : Slots \cup {NoHandle}, tidy : BOOLEAN]
  BY DEF ParrInit, NoWalk
<1>3. Live = {}
  BY DEF ParrInit, Live
<1>4. ParrTypeOK
  <2>1. shrinking \in BOOLEAN /\ failed \in BOOLEAN /\ tidy \in BOOLEAN
    BY Zenon DEF ParrInit
  <2>2. /\ elems \in [Slots -> Elements \cup Uninit \cup {EMPTY}]
        /\ at \in [Elements -> Slots \cup {NoHandle}]
        /\ last \in 0..MaxCapacity /\ capacity \in 0..MaxCapacity
    BY <1>1 DEF ParrInit
  <2> QED
    BY <1>2, <2>1, <2>2 DEF ParrTypeOK
<1>5. Blocks(capacity)
  <2>1. 0 \in Nat /\ 0 = 0 * Increment
    BY <1>1
  <2> QED
    BY <2>1 DEF ParrInit, Blocks
<1> QED
  BY <1>2, <1>3, <1>4, <1>5 DEF ParrInit, ParrInv, ParrShape, ParrOrder, HandlesValid

\* Every operation on the array keeps it.
LEMMA ParrKeeps == ParrInv /\ [ParrNext]_parrVars => ParrInv'
<1> SUFFICES ASSUME ParrInv, [ParrNext]_parrVars PROVE ParrInv'
  OBVIOUS
<1>1. CASE UNCHANGED parrVars
  BY <1>1 DEF parrVars, ParrInv, ParrShape, ParrOrder, ParrTypeOK, HandlesValid, Live, Blocks, Clean
<1>2. CASE \E e \in Elements : Insert(e) \/ Clear(e)
  BY <1>2, InsertKeeps, ClearKeeps
<1>3. CASE Shrink
  BY <1>3, ShrinkKeeps
<1>4. CASE TermBegin \/ TermStep
  BY <1>4, WalkKeeps
<1> QED
  BY <1>1, <1>2, <1>3, <1>4 DEF ParrNext

\* The inductive invariant of the pointer array holds in every reachable state.
LEMMA ParrInvariant == ParrSpec => []ParrInv
<1>1. ParrInit => ParrInv
  BY ParrStart
<1>2. ParrInv /\ [ParrNext]_parrVars => ParrInv'
  BY ParrKeeps
<1> QED
  BY <1>1, <1>2, PTL DEF ParrSpec

\* The handle an application keeps stays the index of its element until it is
\* cleared, for every increment above one and every capacity: growth, holes
\* filled and blocks given back never move, overwrite or free its slot.
THEOREM HandlesStayValid == ParrSpec => []HandlesValid
<1>1. ParrInv => HandlesValid
  BY DEF ParrInv, ParrShape
<1> QED
  BY <1>1, ParrInvariant, PTL

\* While no hole was filled and no block given back the assertions of insert and
\* term hold and fsock_parr_size counts the live elements; and a walk begun on
\* such an array terminates every element, whatever its own clears do.
THEOREM TidyArraysSound == ParrSpec => []TidySound
<1>1. ParrInv => WalkLeavesNone
  BY DEF ParrInv, ParrOrder, WalkLeavesNone
<1>2. ParrInv => SizeExactIfTidy
  <2> SUFFICES ASSUME ParrInv, tidy PROVE ~failed /\ Size = Cardinality(Live)
    BY DEF SizeExactIfTidy
  <2> DEFINE used == {i \in 0..(last - 1) : elems[i] # EMPTY}
  <2>1. ~failed /\ \A i \in 0..(last - 1) : Clean(i)
    BY DEF ParrInv, ParrOrder
  <2>2. ParrTypeOK /\ HandlesValid /\ (capacity = 0 => last = 0) /\ EMPTY \notin Elements /\ MaxCapacity \in Nat
    BY ParrAssumption DEF ParrInv, ParrShape
  <2>3. /\ last \in Nat /\ capacity \in Nat /\ last <= MaxCapacity
        /\ elems \in [Slots -> Elements \cup Uninit \cup {EMPTY}]
        /\ at \in [Elements -> Slots \cup {NoHandle}]
    BY <2>2 DEF ParrTypeOK
  <2>4. IsFiniteSet(used)
    <3>1. IsFiniteSet(0..(last - 1)) /\ used \subseteq 0..(last - 1)
      BY <2>3, FS_Interval
    <3> QED
      BY <3>1, FS_Subset
  <2>5. \A i \in used : elems[i] \in Live /\ at[elems[i]] = i
    BY <2>1, <2>3 DEF Clean, Live, NoHandle
  <2>6. \A e \in Live : at[e] \in used /\ elems[at[e]] = e
    <3> SUFFICES ASSUME NEW e \in Live PROVE at[e] \in used /\ elems[at[e]] = e
      OBVIOUS
    <3>1. e \in Elements /\ at[e] \in Slots /\ at[e] < last /\ elems[at[e]] = e
      BY <2>2, <2>3 DEF HandlesValid, Live
    <3> QED
      BY <2>2, <2>3, <3>1 DEF Slots
  <2> DEFINE g == [i \in used |-> elems[i]]
  <2>7. g \in Bijection(used, Live)
    <3>1. g \in [used -> Live]
      BY <2>5
    <3>2. \A i, k \in used : g[i] = g[k] => i = k
      BY <2>5
    <3>3. \A e \in Live : \E i \in used : g[i] = e
      BY <2>6
    <3> QED
      BY <3>1, <3>2, <3>3 DEF Bijection, Injection, Surjection, IsInjective
  <2>8. Cardinality(Live) = Cardinality(used)
    <3>1. ExistsBijection(used, Live)
      BY <2>7 DEF ExistsBijection
    <3> HIDE DEF used
    <3> QED
      BY <2>4, <3>1, FS_Bijection
  <2>9. Size = Cardinality(used)
    <3>1. CASE capacity = 0
      <4>1. used = {} /\ Size = 0
        BY <2>2, <2>3, <3>1 DEF Size
      <4> QED
        BY <4>1, FS_EmptySet
    <3>2. CASE capacity # 0
      BY <3>2 DEF Size
    <3> QED
      BY <3>1, <3>2
  <2> QED
    BY <2>1, <2>8, <2>9
<1>3. ParrInv => TidySound
  BY <1>1, <1>2 DEF TidySound
<1> QED
  BY <1>3, ParrInvariant, PTL

-----------------------------------------------------------------------------
(* The benchmark programs.                                                 *)

\* The types without the bounds, which each program has its own reasons for.
BenchBase ==
    /\ prog \in Programs
    /\ srv \in {"start", "get", "send", "blast", "publish", "sleep", "done"}
    /\ cli \in [Clients -> {"off", "start", "send", "get", "sleep", "done"}]
    /\ n \in Nat /\ m \in [Clients -> Nat] /\ joined \in SUBSET Clients
    /\ up \in [Clients -> Nat] /\ down \in [Clients -> Nat]
    /\ stuck \in SUBSET ({"up", "down"} \X Clients)
    /\ main \in {"off", "wait", "measure", "done"} /\ upset \in SUBSET Upsets

GoneOK == gone \in BOOLEAN

\* All but perf_pubsub have one client.
PairInv ==
    prog # "pubsub" => \A c \in Clients \ {Peer} :
                          cli[c] = "off" /\ up[c] = 0 /\ down[c] = 0 /\ m[c] = 0

\* One frame goes back and forth, and who is about to send it holds it.
LatInv ==
    prog = "lat" =>
       /\ srv \in {"start", "get", "send", "sleep", "done"}
       /\ cli[Peer] \in {"start", "send", "get", "done"}
       /\ n <= Rounds /\ (srv \notin {"sleep", "done"} => n < Rounds)
       /\ m[Peer] <= Rounds /\ (cli[Peer] # "done" => m[Peer] < Rounds)
       /\ up[Peer] + down[Peer] <= 1
       /\ cli[Peer] # "get" => up[Peer] = 0 /\ down[Peer] = 0 /\ srv # "send"
       /\ srv = "send" => up[Peer] = 0 /\ down[Peer] = 0

\* What is on the way was sent.
ThrInv ==
    prog = "thr" =>
       /\ srv \in {"start", "get", "done"} /\ cli[Peer] \in {"start", "send", "sleep", "done"}
       /\ n <= Rounds /\ (srv # "done" => n < Rounds)
       /\ m[Peer] <= Rounds /\ (cli[Peer] \in {"start", "send"} => m[Peer] < Rounds)
       /\ up[Peer] <= m[Peer] /\ down[Peer] = 0

PerfInv ==
    prog = "perf_thr" =>
       /\ srv \in {"start", "blast", "done"} /\ cli[Peer] \in {"start", "get", "done"}
       /\ n <= Rounds /\ (srv # "done" => n < Rounds)
       /\ m[Peer] + down[Peer] <= n /\ up[Peer] = 0

\* The clients whose hello the publisher has taken, or the library has lost.
Heard == {c \in Clients : cli[c] \in {"get", "done"} /\ up[c] = 0}

\* Each client says hello once; until a wait expires the publisher counts the
\* hellos of clients it has accepted, so it knows that all have come when it
\* begins to publish.
PubInv ==
    prog = "pubsub" =>
       /\ srv \in {"start", "get", "publish", "done"}
       /\ srv \in {"start", "get"} => n <= Cardinality(Clients)
       /\ srv = "publish" => n < Rounds
       /\ srv = "done" => n = Rounds
       /\ \A c \in Clients : /\ cli[c] \in {"start", "send", "get", "done"} /\ up[c] <= 1
                             /\ cli[c] \in {"start", "send"} => up[c] = 0
                             /\ m[c] + down[c] <= Published
       /\ "expired" \notin upset =>
             /\ srv \in {"start", "get"} => \E S \in SUBSET (Heard \cap joined) : Cardinality(S) = n
             /\ srv \in {"publish", "done"} => joined = Clients
             /\ "lost" \notin upset => \A c \in Clients : m[c] + down[c] = Published

BenchInv == BenchBase /\ GoneOK /\ PairInv /\ LatInv /\ ThrInv /\ PerfInv /\ PubInv

\* The steps the programs can take, each with its program.
LEMMA BenchSteps ==
    ASSUME BenchInv, [BenchNext]_benchVars
    PROVE  \/ UNCHANGED benchVars
           \/ Bind \/ MainJoin \/ WokenEmpty
           \/ \E c \in Clients : \/ Connect(c) \/ Accept(c)
                                 \/ StaysBehind("up", c) \/ StaysBehind("down", c)
           \/ \E c \in Clients : Loses("up", c) \/ Loses("down", c)
           \/ prog = "lat" /\ (\/ LocalLatGet \/ LocalLatSend \/ LocalLatQuit
                               \/ RemoteLatSend \/ RemoteLatGet)
           \/ prog = "thr" /\ (LocalThrGet \/ RemoteThrSend \/ RemoteThrQuit)
           \/ prog = "perf_thr" /\ (PerfThrSend \/ CliGet(Peer))
           \/ /\ prog = "pubsub"
              /\ SrvHello \/ SrvSignal \/ SrvPublish \/ (\E c \in Clients : CliHello(c) \/ CliGet(c))
<1>1. prog \in {"lat", "thr", "perf_thr", "pubsub"} /\ Peer \in Clients
  BY BenchAssumption DEF BenchInv, BenchBase, Programs
<1>2. LocalLatQuit => prog = "lat"
  BY <1>1 DEF LocalLatQuit, BenchInv, ThrInv, PerfInv, PubInv
<1>3. RemoteThrQuit => prog = "thr"
  BY <1>1 DEF RemoteThrQuit, BenchInv, LatInv, PerfInv, PubInv
<1>4. PerfThrSend => prog = "perf_thr"
  BY <1>1 DEF PerfThrSend, BenchInv, LatInv, ThrInv, PubInv
<1>5. SrvPublish => prog = "pubsub"
  BY <1>1 DEF SrvPublish, BenchInv, LatInv, ThrInv, PerfInv
<1>6. \A c \in Clients : CliGet(c) => prog = "pubsub" \/ (prog = "perf_thr" /\ c = Peer)
  BY <1>1 DEF CliGet, BenchInv, PairInv
<1>7. /\ LocalLatGet \/ LocalLatSend \/ RemoteLatSend \/ RemoteLatGet => prog = "lat"
      /\ LocalThrGet \/ RemoteThrSend => prog = "thr"
      /\ SrvHello \/ SrvSignal => prog = "pubsub"
      /\ \A c \in Clients : CliHello(c) => prog = "pubsub"
  BY DEF LocalLatGet, LocalLatSend, RemoteLatSend, RemoteLatGet, LocalThrGet, RemoteThrSend,
         SrvHello, SrvSignal, CliHello
<1>8. CASE Server
  BY <1>2, <1>4, <1>5, <1>7, <1>8 DEF Server
<1>9. CASE Remote
  BY <1>3, <1>7, <1>9 DEF Remote
<1>10. CASE \E c \in Clients : Client(c) \/ Accept(c)
  BY <1>1, <1>6, <1>7, <1>10 DEF Client
<1>11. CASE \E c \in Clients, d \in {"up", "down"} : StaysBehind(d, c) \/ Loses(d, c)
  BY <1>11
<1> QED
  BY <1>8, <1>9, <1>10, <1>11 DEF BenchNext

\* A loss takes one frame off the way and moves nobody.
LEMMA LossSteps ==
    ASSUME BenchInv, NEW c \in Clients, Loses("up", c) \/ Loses("down", c)
    PROVE  /\ UNCHANGED <<prog, srv, cli, n, m, joined, stuck, main, gone>>
           /\ upset' = upset \cup {"lost"}
           /\ up' \in [Clients -> Nat] /\ down' \in [Clients -> Nat]
           /\ \A e \in Clients : up'[e] <= up[e] /\ down'[e] <= down[e]
<1>1. up \in [Clients -> Nat] /\ down \in [Clients -> Nat]
  BY DEF BenchInv, BenchBase
<1>2. CASE Loses("up", c)
  <2>1. up[c] > 0 /\ up' = [up EXCEPT ![c] = up[c] - 1] /\ down' = down
    BY <1>1, <1>2 DEF Loses
  <2>2. up' \in [Clients -> Nat] /\ \A e \in Clients : up'[e] <= up[e] /\ down'[e] <= down[e]
    BY <1>1, <2>1
  <2> QED
    BY <1>1, <1>2, <2>1, <2>2 DEF Loses
<1>3. CASE Loses("down", c)
  <2>1. down[c] > 0 /\ down' = [down EXCEPT ![c] = down[c] - 1] /\ up' = up
    BY <1>1, <1>3 DEF Loses
  <2>2. down' \in [Clients -> Nat] /\ \A e \in Clients : up'[e] <= up[e] /\ down'[e] <= down[e]
    BY <1>1, <2>1
  <2> QED
    BY <1>1, <1>3, <2>1, <2>2 DEF Loses
<1> QED
  BY <1>2, <1>3

\* Every step keeps the types.
LEMMA BenchBaseStep ==
    ASSUME BenchInv, [BenchNext]_benchVars
    PROVE  BenchBase'
<1>1. BenchBase /\ Peer \in Clients
  BY BenchAssumption DEF BenchInv
<1>2. /\ prog' = prog
      /\ \/ srv' = srv
         \/ srv' \in {"start", "get", "send", "blast", "publish", "sleep", "done"}
      /\ main' = main \/ main' \in {"measure", "done"}
      /\ n' = n \/ n' = n + 1 \/ n' = 0
      /\ joined' = joined \/ \E c \in Clients : joined' = joined \cup {c}
  BY DEF BenchNext, benchVars, Server, Remote, Client, Bind, LocalLatGet, LocalLatSend, LocalLatQuit,
             LocalThrGet, PerfThrSend, SrvHello, SrvSignal, SrvPublish, RemoteLatSend, RemoteLatGet,
             RemoteThrSend, RemoteThrQuit, MainJoin, Connect, CliHello, CliGet, Accept, StaysBehind, Loses, WokenEmpty
<1>3. \/ cli' = cli
      \/ \E c \in Clients, p \in {"off", "start", "send", "get", "sleep", "done"} : cli' = [cli EXCEPT ![c] = p]
  BY <1>1 DEF BenchNext, benchVars, Server, Remote, Client, Bind, LocalLatGet, LocalLatSend, LocalLatQuit,
             LocalThrGet, PerfThrSend, SrvHello, SrvSignal, SrvPublish, RemoteLatSend, RemoteLatGet,
             RemoteThrSend, RemoteThrQuit, MainJoin, Connect, CliHello, CliGet, Accept, StaysBehind, Loses, WokenEmpty
<1>4. m' = m \/ \E c \in Clients : m' = [m EXCEPT ![c] = m[c] + 1]
  BY <1>1 DEF BenchNext, benchVars, Server, Remote, Client, Bind, LocalLatGet, LocalLatSend, LocalLatQuit,
             LocalThrGet, PerfThrSend, SrvHello, SrvSignal, SrvPublish, RemoteLatSend, RemoteLatGet,
             RemoteThrSend, RemoteThrQuit, MainJoin, Connect, CliHello, CliGet, Accept, StaysBehind, Loses, WokenEmpty
<1>5. upset' = upset \/ \E x \in Upsets : upset' = upset \cup {x}
  BY DEF BenchNext, benchVars, Server, Remote, Client, Bind, LocalLatGet, LocalLatSend, LocalLatQuit,
             LocalThrGet, PerfThrSend, SrvHello, SrvSignal, SrvPublish, RemoteLatSend, RemoteLatGet,
             RemoteThrSend, RemoteThrQuit, MainJoin, Connect, CliHello, CliGet, Accept, StaysBehind, Loses, WokenEmpty, Expires, AssertRc, Upsets
<1>6. \/ UNCHANGED net
      \/ \E c \in Clients : \/ TakeUp(c) \/ TakeDown(c) \/ PutUp(c)
                            \/ StaysBehind("up", c) \/ StaysBehind("down", c)
                            \/ Loses("up", c) \/ Loses("down", c)
      \/ \E cs : PutDown(cs)
      \/ LocalLatQuit \/ RemoteThrQuit
  BY <1>1, BenchSteps DEF benchVars, Bind, LocalLatGet, LocalLatSend, LocalThrGet, PerfThrSend, SrvHello,
             SrvSignal, SrvPublish, RemoteLatSend, RemoteLatGet, RemoteThrSend, MainJoin, Connect,
             CliHello, CliGet, Accept, WokenEmpty, Expires, net
<1>7. up' \in [Clients -> Nat] /\ down' \in [Clients -> Nat] /\ stuck' \in SUBSET ({"up", "down"} \X Clients)
  <2>1. up \in [Clients -> Nat] /\ down \in [Clients -> Nat] /\ stuck \in SUBSET ({"up", "down"} \X Clients)
    BY <1>1 DEF BenchBase
  <2>2. CASE UNCHANGED net
    BY <2>1, <2>2 DEF net
  <2>3. ASSUME NEW c \in Clients, TakeUp(c) \/ PutUp(c) 
        PROVE  up' \in [Clients -> Nat] /\ down' \in [Clients -> Nat] /\ stuck' \in SUBSET ({"up", "down"} \X Clients)
    BY <2>1, <2>3 DEF TakeUp, PutUp
  <2>4. ASSUME NEW c \in Clients, TakeDown(c) 
        PROVE  up' \in [Clients -> Nat] /\ down' \in [Clients -> Nat] /\ stuck' \in SUBSET ({"up", "down"} \X Clients)
    BY <2>1, <2>4 DEF TakeDown
  <2>5. ASSUME NEW cs, PutDown(cs) 
        PROVE  up' \in [Clients -> Nat] /\ down' \in [Clients -> Nat] /\ stuck' \in SUBSET ({"up", "down"} \X Clients)
    BY <2>1, <2>5 DEF PutDown
  <2>6. ASSUME NEW c \in Clients, StaysBehind("up", c) \/ StaysBehind("down", c) 
        PROVE  up' \in [Clients -> Nat] /\ down' \in [Clients -> Nat] /\ stuck' \in SUBSET ({"up", "down"} \X Clients)
    BY <2>1, <2>6 DEF StaysBehind
  <2>7. CASE LocalLatQuit \/ RemoteThrQuit
    BY <1>1, <2>1, <2>7 DEF LocalLatQuit, RemoteThrQuit
  <2>8. ASSUME NEW c \in Clients, Loses("up", c) \/ Loses("down", c) 
        PROVE  up' \in [Clients -> Nat] /\ down' \in [Clients -> Nat] /\ stuck' \in SUBSET ({"up", "down"} \X Clients)
    BY <2>1, LossSteps, <2>8
  <2> QED
    BY <1>6, <2>2, <2>3, <2>4, <2>5, <2>6, <2>7, <2>8
<1>8. /\ prog' \in Programs /\ main' \in {"off", "wait", "measure", "done"} /\ n' \in Nat
      /\ srv' \in {"start", "get", "send", "blast", "publish", "sleep", "done"}
      /\ joined' \in SUBSET Clients
  BY <1>1, <1>2 DEF BenchBase
<1>9. cli' \in [Clients -> {"off", "start", "send", "get", "sleep", "done"}]
  BY <1>1, <1>3 DEF BenchBase
<1>10. m' \in [Clients -> Nat]
  BY <1>1, <1>4 DEF BenchBase
<1>11. upset' \in SUBSET Upsets
  BY <1>1, <1>5 DEF BenchBase
<1> QED
  BY <1>7, <1>8, <1>9, <1>10, <1>11 DEF BenchBase

\* gone is a Boolean.
LEMMA GoneStep ==
    ASSUME BenchInv, [BenchNext]_benchVars
    PROVE  GoneOK'
<1>1. GoneOK
  BY DEF BenchInv
<1>2. \/ gone' = gone \/ gone' = TRUE \/ gone' = (srv = "start")
      \/ gone' \in {FALSE, "expired" \in upset}
  BY DEF BenchNext, benchVars, Server, Remote, Client, Bind, LocalLatGet, LocalLatSend, LocalLatQuit,
             LocalThrGet, PerfThrSend, SrvHello, SrvSignal, SrvPublish, RemoteLatSend, RemoteLatGet,
             RemoteThrSend, RemoteThrQuit, MainJoin, Connect, CliHello, CliGet, Accept, StaysBehind, Loses, WokenEmpty, Expires, AssertRc
<1>3. ASSUME gone' \in {FALSE, "expired" \in upset} PROVE gone' \in BOOLEAN
  <2>1. gone' = FALSE \/ gone' = ("expired" \in upset)
    BY Zenon, <1>3
  <2>2. ("expired" \in upset) \in BOOLEAN
    OBVIOUS
  <2> QED
    BY Zenon, <2>1, <2>2
<1>4. (srv = "start") \in BOOLEAN
  OBVIOUS
<1> QED
  BY Zenon, <1>1, <1>2, <1>3, <1>4 DEF GoneOK

\* The steps all programs share count nothing and move no frame; they move the
\* server out of "start", or one client.
LEMMA SharedSteps ==
    ASSUME BenchInv,
           \/ UNCHANGED benchVars \/ Bind \/ MainJoin \/ WokenEmpty
           \/ \E c \in Clients : \/ Connect(c) \/ Accept(c)
                                 \/ StaysBehind("up", c) \/ StaysBehind("down", c)
    PROVE  /\ UNCHANGED <<prog, n, m, up, down>> /\ upset \subseteq upset'
           /\ joined \subseteq joined'
           /\ \/ srv' = srv
              \/ srv = "start" /\ srv' = "blast" /\ prog = "perf_thr"
              \/ srv = "start" /\ srv' = "get" /\ prog # "perf_thr"
           /\ \/ cli' = cli
              \/ \E c \in Clients : /\ cli[c] = "start"
                                    /\ cli' = [cli EXCEPT ![c] = IF prog = "perf_thr" THEN "get" ELSE "send"]
  BY DEF benchVars, Bind, MainJoin, WokenEmpty, Connect, Accept, StaysBehind, net

\* Clients that a program does not have do nothing.
LEMMA PairStep ==
    ASSUME BenchInv, [BenchNext]_benchVars
    PROVE  PairInv'
<1>1. BenchBase /\ PairInv /\ Peer \in Clients
  BY BenchAssumption DEF BenchInv
<1>2. prog' = prog
  BY DEF BenchNext, benchVars, Server, Remote, Client, Bind, LocalLatGet, LocalLatSend, LocalLatQuit,
         LocalThrGet, PerfThrSend, SrvHello, SrvSignal, SrvPublish, RemoteLatSend, RemoteLatGet,
         RemoteThrSend, RemoteThrQuit, MainJoin, Connect, CliHello, CliGet, Accept, StaysBehind, Loses, WokenEmpty
<1> SUFFICES ASSUME prog # "pubsub", NEW c \in Clients \ {Peer}
             PROVE  cli'[c] = "off" /\ up'[c] = 0 /\ down'[c] = 0 /\ m'[c] = 0
  BY <1>2 DEF PairInv
<1>3. cli[c] = "off" /\ up[c] = 0 /\ down[c] = 0 /\ m[c] = 0
  BY <1>1 DEF PairInv
<1>4. CASE /\ UNCHANGED <<m, up, down>>
           /\ \/ cli' = cli
              \/ \E e \in Clients, p \in {"get", "send"} : cli[e] = "start" /\ cli' = [cli EXCEPT ![e] = p]
  BY <1>1, <1>3, <1>4 DEF BenchBase
<1>5. CASE LocalLatGet \/ LocalLatSend \/ LocalLatQuit
  BY <1>1, <1>3, <1>5
     DEF BenchBase, LocalLatGet, LocalLatSend, LocalLatQuit, TakeUp, PutDown, Expires, net
<1>6. CASE RemoteLatSend \/ RemoteLatGet
  BY <1>1, <1>3, <1>6 DEF BenchBase, RemoteLatSend, RemoteLatGet, PutUp, TakeDown, Expires, net
<1>7. CASE LocalThrGet \/ RemoteThrSend \/ RemoteThrQuit
  BY <1>1, <1>3, <1>7 DEF BenchBase, LocalThrGet, RemoteThrSend, RemoteThrQuit, TakeUp, PutUp, Expires, net
<1>8. CASE PerfThrSend \/ CliGet(Peer)
  BY <1>1, <1>3, <1>8 DEF BenchBase, PerfThrSend, CliGet, PutDown, TakeDown, Expires, net
<1>9. CASE \/ UNCHANGED benchVars \/ Bind \/ MainJoin \/ WokenEmpty
           \/ \E e \in Clients : \/ Connect(e) \/ Accept(e)
                                 \/ StaysBehind("up", e) \/ StaysBehind("down", e)
  <2>1. /\ UNCHANGED <<m, up, down>>
        /\ \/ cli' = cli
           \/ \E e \in Clients : /\ cli[e] = "start"
                                 /\ cli' = [cli EXCEPT ![e] = IF prog = "perf_thr" THEN "get" ELSE "send"]
    BY <1>9, SharedSteps
  <2> QED
    BY <1>4, <2>1
<1>10. CASE \E e \in Clients : Loses("up", e) \/ Loses("down", e)
  <2>1. /\ UNCHANGED <<cli, m>> /\ up'[c] \in Nat /\ down'[c] \in Nat
        /\ up'[c] <= up[c] /\ down'[c] <= down[c]
    BY <1>10, LossSteps
  <2> QED
    BY <1>3, <2>1
<1> QED
  BY <1>5, <1>6, <1>7, <1>8, <1>9, <1>10, BenchSteps

\* What the steps of the programs with one client do to its counters.
LEMMA PeerSteps ==
    ASSUME BenchInv
    PROVE  /\ TakeUp(Peer) => up[Peer] > 0 /\ up'[Peer] = up[Peer] - 1 /\ down' = down
           /\ TakeDown(Peer) => down[Peer] > 0 /\ down'[Peer] = down[Peer] - 1 /\ up' = up
           /\ PutUp(Peer) => up'[Peer] = up[Peer] + 1 /\ down' = down
           /\ PutDown({Peer}) => down'[Peer] = down[Peer] + 1 /\ up' = up
           /\ \A k : m' = [m EXCEPT ![Peer] = k] => m'[Peer] = k
           /\ \A p : cli' = [cli EXCEPT ![Peer] = p] => cli'[Peer] = p
           /\ n \in Nat /\ m[Peer] \in Nat /\ up[Peer] \in Nat /\ down[Peer] \in Nat
           /\ Rounds \in Nat /\ Rounds > 0 /\ Peer \in Clients
<1>1. BenchBase /\ Peer \in Clients /\ Rounds \in Nat /\ Rounds > 0
  BY BenchAssumption DEF BenchInv
<1>2. up \in [Clients -> Nat] /\ down \in [Clients -> Nat] /\ m \in [Clients -> Nat] /\ n \in Nat
      /\ cli \in [Clients -> {"off", "start", "send", "get", "sleep", "done"}]
  BY <1>1 DEF BenchBase
<1>3. up[Peer] \in Nat /\ down[Peer] \in Nat /\ m[Peer] \in Nat
  BY <1>1, <1>2
<1>4. TakeUp(Peer) => up[Peer] > 0 /\ up'[Peer] = up[Peer] - 1 /\ down' = down
  BY <1>1, <1>2, <1>3 DEF TakeUp
<1>5. TakeDown(Peer) => down[Peer] > 0 /\ down'[Peer] = down[Peer] - 1 /\ up' = up
  BY <1>1, <1>2, <1>3 DEF TakeDown
<1>6. PutUp(Peer) => up'[Peer] = up[Peer] + 1 /\ down' = down
  BY <1>1, <1>2, <1>3 DEF PutUp
<1>7. PutDown({Peer}) => down'[Peer] = down[Peer] + 1 /\ up' = up
  BY <1>1, <1>2, <1>3 DEF PutDown
<1> QED
  BY <1>1, <1>2, <1>3, <1>4, <1>5, <1>6, <1>7

\* The steps of local_lat and remote_lat.
LEMMA LatStep ==
    ASSUME BenchInv, [BenchNext]_benchVars
    PROVE  LatInv'
<1>1. prog' = prog
  BY DEF BenchNext, benchVars, Server, Remote, Client, Bind, LocalLatGet, LocalLatSend, LocalLatQuit,
         LocalThrGet, PerfThrSend, SrvHello, SrvSignal, SrvPublish, RemoteLatSend, RemoteLatGet,
         RemoteThrSend, RemoteThrQuit, MainJoin, Connect, CliHello, CliGet, Accept, StaysBehind, Loses, WokenEmpty
<1> SUFFICES ASSUME prog = "lat" PROVE LatInv'
  BY <1>1 DEF LatInv
<1>2. LatInv /\ BenchBase
  BY DEF BenchInv
<1>3. /\ n \in Nat /\ m[Peer] \in Nat /\ up[Peer] \in Nat /\ down[Peer] \in Nat
      /\ Rounds \in Nat /\ Rounds > 0 /\ Peer \in Clients
  BY PeerSteps
<1>4. CASE \/ UNCHANGED benchVars \/ Bind \/ MainJoin \/ WokenEmpty
           \/ \E e \in Clients : \/ Connect(e) \/ Accept(e)
                                 \/ StaysBehind("up", e) \/ StaysBehind("down", e)
  <2>1. /\ UNCHANGED <<prog, n, m, up, down>>
        /\ \/ srv' = srv
           \/ srv = "start" /\ srv' = "get"
        /\ \/ cli' = cli
           \/ \E c \in Clients : cli[c] = "start" /\ cli' = [cli EXCEPT ![c] = "send"]
    BY <1>4, SharedSteps
  <2>2. cli'[Peer] = cli[Peer] \/ (cli[Peer] = "start" /\ cli'[Peer] = "send")
    BY <1>2, <1>3, <2>1 DEF BenchBase
  <2> QED
    BY <1>2, <2>1, <2>2 DEF LatInv
<1>5. CASE LocalLatGet
  <2>1. /\ UNCHANGED <<cli, n, m>> /\ srv = "get"
        /\ \/ srv' = "send" /\ TakeUp(Peer)
           \/ srv' = srv /\ UNCHANGED <<up, down>>
    BY <1>5 DEF LocalLatGet, Expires, net
  <2> QED
    BY <1>1, <1>2, <1>3, <2>1, PeerSteps DEF LatInv
<1>6. CASE LocalLatSend
  <2>1. /\ UNCHANGED <<cli, m>> /\ srv = "send" /\ PutDown({Peer}) /\ n' = n + 1
        /\ srv' = IF n + 1 = Rounds THEN "sleep" ELSE "get"
    BY <1>6 DEF LocalLatSend
  <2> QED
    BY <1>1, <1>2, <1>3, <2>1, PeerSteps DEF LatInv
<1>7. CASE LocalLatQuit
  <2>1. /\ UNCHANGED <<cli, n, m, up>> /\ srv = "sleep" /\ srv' = "done"
        /\ \E k \in 0..down[Peer] : down'[Peer] = k
    BY <1>2, <1>3, <1>7 DEF LocalLatQuit, BenchBase
  <2> QED
    BY <1>1, <1>2, <1>3, <2>1 DEF LatInv
<1>8. CASE RemoteLatSend
  <2>1. UNCHANGED <<srv, n, m>> /\ cli[Peer] = "send" /\ PutUp(Peer) /\ cli'[Peer] = "get"
    BY <1>8, PeerSteps DEF RemoteLatSend
  <2> QED
    BY <1>1, <1>2, <1>3, <2>1, PeerSteps DEF LatInv
<1>9. CASE RemoteLatGet
  <2>1. /\ UNCHANGED <<srv, n>> /\ cli[Peer] = "get"
        /\ \/ /\ TakeDown(Peer) /\ m'[Peer] = m[Peer] + 1
              /\ cli'[Peer] = IF m[Peer] + 1 = Rounds THEN "done" ELSE "send"
           \/ UNCHANGED <<cli, m, up, down>>
    BY <1>9, PeerSteps DEF RemoteLatGet, Expires, net
  <2>2. CASE UNCHANGED <<cli, m, up, down>>
    BY <1>1, <1>2, <2>1, <2>2 DEF LatInv
  <2>3. CASE /\ TakeDown(Peer) /\ m'[Peer] = m[Peer] + 1
             /\ cli'[Peer] = IF m[Peer] + 1 = Rounds THEN "done" ELSE "send"
    <3>1. down[Peer] > 0 /\ down'[Peer] = down[Peer] - 1 /\ up' = up
      BY <2>3, PeerSteps
    <3>2. up[Peer] = 0 /\ down[Peer] = 1 /\ srv # "send" /\ m[Peer] < Rounds
      BY <1>2, <1>3, <2>1, <3>1 DEF LatInv
    <3>3. up'[Peer] = 0 /\ down'[Peer] = 0 /\ m'[Peer] <= Rounds
      BY <1>3, <2>3, <3>1, <3>2
    <3> QED
      BY <1>1, <1>2, <1>3, <2>1, <2>3, <3>2, <3>3 DEF LatInv
  <2> QED
    BY <2>1, <2>2, <2>3
<1>10. ASSUME NEW e \in Clients, Loses("up", e) \/ Loses("down", e) PROVE LatInv'
  <2>1. /\ UNCHANGED <<prog, srv, cli, n, m>> /\ up'[Peer] \in Nat /\ down'[Peer] \in Nat
        /\ up'[Peer] <= up[Peer] /\ down'[Peer] <= down[Peer]
    BY <1>3, <1>10, LossSteps
  <2> QED
    BY <1>2, <1>3, <2>1 DEF LatInv
<1> QED
  BY <1>4, <1>5, <1>6, <1>7, <1>8, <1>9, <1>10, BenchSteps

\* Those of local_thr and remote_thr.
LEMMA ThrStep ==
    ASSUME BenchInv, [BenchNext]_benchVars
    PROVE  ThrInv'
<1>1. prog' = prog
  BY DEF BenchNext, benchVars, Server, Remote, Client, Bind, LocalLatGet, LocalLatSend, LocalLatQuit,
         LocalThrGet, PerfThrSend, SrvHello, SrvSignal, SrvPublish, RemoteLatSend, RemoteLatGet,
         RemoteThrSend, RemoteThrQuit, MainJoin, Connect, CliHello, CliGet, Accept, StaysBehind, Loses, WokenEmpty
<1> SUFFICES ASSUME prog = "thr" PROVE ThrInv'
  BY <1>1 DEF ThrInv
<1>2. ThrInv /\ BenchBase
  BY DEF BenchInv
<1>3. /\ n \in Nat /\ m[Peer] \in Nat /\ up[Peer] \in Nat /\ down[Peer] \in Nat
      /\ Rounds \in Nat /\ Rounds > 0 /\ Peer \in Clients
  BY PeerSteps
<1>4. CASE \/ UNCHANGED benchVars \/ Bind \/ MainJoin \/ WokenEmpty
           \/ \E e \in Clients : \/ Connect(e) \/ Accept(e)
                                 \/ StaysBehind("up", e) \/ StaysBehind("down", e)
  <2>1. /\ UNCHANGED <<prog, n, m, up, down>>
        /\ \/ srv' = srv
           \/ srv = "start" /\ srv' = "get"
        /\ \/ cli' = cli
           \/ \E c \in Clients : cli[c] = "start" /\ cli' = [cli EXCEPT ![c] = "send"]
    BY <1>4, SharedSteps
  <2>2. cli'[Peer] = cli[Peer] \/ (cli[Peer] = "start" /\ cli'[Peer] = "send")
    BY <1>2, <1>3, <2>1 DEF BenchBase
  <2> QED
    BY <1>2, <2>1, <2>2 DEF ThrInv
<1>5. CASE LocalThrGet
  <2>1. /\ UNCHANGED <<cli, m>> /\ srv = "get"
        /\ \/ TakeUp(Peer) /\ n' = n + 1 /\ srv' = IF n + 1 = Rounds THEN "done" ELSE "get"
           \/ UNCHANGED <<srv, n, up, down>>
    BY <1>5 DEF LocalThrGet, Expires, net
  <2> QED
    BY <1>1, <1>2, <1>3, <2>1, PeerSteps DEF ThrInv
<1>6. CASE RemoteThrSend
  <2>1. /\ UNCHANGED <<srv, n>> /\ cli[Peer] = "send" /\ PutUp(Peer) /\ m'[Peer] = m[Peer] + 1
        /\ cli'[Peer] = IF m[Peer] + 1 = Rounds THEN "sleep" ELSE "send"
    BY <1>6, PeerSteps DEF RemoteThrSend
  <2> QED
    BY <1>1, <1>2, <1>3, <2>1, PeerSteps DEF ThrInv
<1>7. CASE RemoteThrQuit
  <2>1. /\ UNCHANGED <<srv, n, m, down>> /\ cli'[Peer] = "done"
        /\ \E k \in 0..up[Peer] : up'[Peer] = k
    BY <1>2, <1>3, <1>7 DEF RemoteThrQuit, BenchBase
  <2> QED
    BY <1>1, <1>2, <1>3, <2>1 DEF ThrInv
<1>8. ASSUME NEW e \in Clients, Loses("up", e) \/ Loses("down", e) PROVE ThrInv'
  <2>1. /\ UNCHANGED <<prog, srv, cli, n, m>> /\ up'[Peer] \in Nat /\ down'[Peer] \in Nat
        /\ up'[Peer] <= up[Peer] /\ down'[Peer] <= down[Peer]
    BY <1>3, <1>8, LossSteps
  <2> QED
    BY <1>2, <1>3, <2>1 DEF ThrInv
<1> QED
  BY <1>4, <1>5, <1>6, <1>7, <1>8, BenchSteps

\* Those of perf_thr.
LEMMA PerfStep ==
    ASSUME BenchInv, [BenchNext]_benchVars
    PROVE  PerfInv'
<1>1. prog' = prog
  BY DEF BenchNext, benchVars, Server, Remote, Client, Bind, LocalLatGet, LocalLatSend, LocalLatQuit,
         LocalThrGet, PerfThrSend, SrvHello, SrvSignal, SrvPublish, RemoteLatSend, RemoteLatGet,
         RemoteThrSend, RemoteThrQuit, MainJoin, Connect, CliHello, CliGet, Accept, StaysBehind, Loses, WokenEmpty
<1> SUFFICES ASSUME prog = "perf_thr" PROVE PerfInv'
  BY <1>1 DEF PerfInv
<1>2. PerfInv /\ BenchBase
  BY DEF BenchInv
<1>3. /\ n \in Nat /\ m[Peer] \in Nat /\ up[Peer] \in Nat /\ down[Peer] \in Nat
      /\ Rounds \in Nat /\ Rounds > 0 /\ Peer \in Clients
  BY PeerSteps
<1>4. CASE \/ UNCHANGED benchVars \/ Bind \/ MainJoin \/ WokenEmpty
           \/ \E e \in Clients : \/ Connect(e) \/ Accept(e)
                                 \/ StaysBehind("up", e) \/ StaysBehind("down", e)
  <2>1. /\ UNCHANGED <<prog, n, m, up, down>>
        /\ \/ srv' = srv
           \/ srv = "start" /\ srv' = "blast"
        /\ \/ cli' = cli
           \/ \E c \in Clients : cli[c] = "start" /\ cli' = [cli EXCEPT ![c] = "get"]
    BY <1>4, SharedSteps
  <2>2. cli'[Peer] = cli[Peer] \/ (cli[Peer] = "start" /\ cli'[Peer] = "get")
    BY <1>2, <1>3, <2>1 DEF BenchBase
  <2> QED
    BY <1>2, <2>1, <2>2 DEF PerfInv
<1>5. CASE PerfThrSend
  <2>1. /\ UNCHANGED <<cli, m>> /\ srv = "blast" /\ n' = n + 1
        /\ srv' = IF n + 1 = Rounds THEN "done" ELSE "blast"
        /\ PutDown({Peer}) \/ UNCHANGED <<up, down>>
    BY <1>5 DEF PerfThrSend, net
  <2> QED
    BY <1>1, <1>2, <1>3, <2>1, PeerSteps DEF PerfInv
<1>6. CASE CliGet(Peer)
  <2>1. /\ UNCHANGED <<srv, n>> /\ cli[Peer] = "get"
        /\ \/ /\ TakeDown(Peer) /\ m'[Peer] = m[Peer] + 1
              /\ cli'[Peer] = IF m[Peer] + 1 = Rounds THEN "done" ELSE "get"
           \/ UNCHANGED <<cli, m, up, down>>
    BY <1>6, PeerSteps DEF CliGet, Expires, net
  <2> QED
    BY <1>1, <1>2, <1>3, <2>1, PeerSteps DEF PerfInv
<1>7. ASSUME NEW e \in Clients, Loses("up", e) \/ Loses("down", e) PROVE PerfInv'
  <2>1. /\ UNCHANGED <<prog, srv, cli, n, m>> /\ up'[Peer] \in Nat /\ down'[Peer] \in Nat
        /\ up'[Peer] <= up[Peer] /\ down'[Peer] <= down[Peer]
    BY <1>3, <1>7, LossSteps
  <2> QED
    BY <1>2, <1>3, <2>1 DEF PerfInv
<1> QED
  BY <1>4, <1>5, <1>6, <1>7, BenchSteps

\* The parts of PubInv: the server's count, one client, the hellos, and what
\* holds until a wait expires.
PubServer == /\ srv \in {"start", "get", "publish", "done"}
             /\ srv \in {"start", "get"} => n <= Cardinality(Clients)
             /\ srv = "publish" => n < Rounds
             /\ srv = "done" => n = Rounds
PubClient(c) == /\ cli[c] \in {"start", "send", "get", "done"} /\ up[c] <= 1
                /\ cli[c] \in {"start", "send"} => up[c] = 0
                /\ m[c] + down[c] <= Published
PubSmooth == /\ srv \in {"start", "get"} => \E S \in SUBSET (Heard \cap joined) : Cardinality(S) = n
             /\ srv \in {"publish", "done"} => joined = Clients
             /\ "lost" \notin upset => \A c \in Clients : m[c] + down[c] = Published

\* The hellos the publisher has taken.
LEMMA HeardSteps ==
    ASSUME BenchInv, prog = "pubsub"
    PROVE  /\ \A S \in SUBSET Heard : /\ IsFiniteSet(S) /\ S \subseteq Clients
                                      /\ Cardinality(S) = Cardinality(Clients) => S = Clients
           /\ \A c \in Clients : TakeUp(c) /\ cli' = cli =>
                 Heard' = Heard \cup {c} /\ c \in joined /\ c \notin Heard
           /\ \A c \in Clients : PutUp(c) /\ cli[c] = "send" /\ cli' = [cli EXCEPT ![c] = "get"] =>
                 Heard' = Heard
           /\ \A c \in Clients : \A p : up' = up /\ cli' = [cli EXCEPT ![c] = p]
                 /\ (cli[c] \in {"get", "done"} <=> p \in {"get", "done"}) => Heard' = Heard
<1>1. BenchBase /\ PubInv
  BY DEF BenchInv
<1>2. ASSUME NEW S \in SUBSET Heard
      PROVE  /\ IsFiniteSet(S) /\ S \subseteq Clients
             /\ Cardinality(S) = Cardinality(Clients) => S = Clients
  <2>1. S \in SUBSET Clients
    BY DEF Heard
  <2> QED
    BY <2>1, BenchAssumption, FS_Subset
<1>4. ASSUME NEW c \in Clients, TakeUp(c), cli' = cli
      PROVE  Heard' = Heard \cup {c} /\ c \in joined /\ c \notin Heard
  <2>1. up \in [Clients -> Nat] /\ up[c] \in Nat
    BY <1>1 DEF BenchBase
  <2>2. up[c] > 0 /\ up' = [up EXCEPT ![c] = up[c] - 1] /\ c \in joined
    BY <1>4, <2>1 DEF TakeUp
  <2>3. up[c] = 1 /\ cli[c] \in {"get", "done"}
    BY <1>1, <2>1, <2>2 DEF PubInv
  <2>4. up'[c] = 0 /\ \A e \in Clients : e # c => up'[e] = up[e]
    BY <2>1, <2>2, <2>3
  <2>5. c \notin Heard /\ Heard' = Heard \cup {c}
    BY <1>4, <2>3, <2>4 DEF Heard
  <2> QED
    BY <2>2, <2>5
<1>5. ASSUME NEW c \in Clients, PutUp(c), cli[c] = "send", cli' = [cli EXCEPT ![c] = "get"]
      PROVE  Heard' = Heard
  <2>1. up[c] = 0 /\ up' = [up EXCEPT ![c] = up[c] + 1]
    BY <1>1, <1>5 DEF PubInv, PutUp
  <2>2. up'[c] = 1 /\ \A e \in Clients : e # c => up'[e] = up[e] /\ cli'[e] = cli[e]
    BY <1>1, <1>5, <2>1 DEF BenchBase
  <2> QED
    BY <1>5, <2>2 DEF Heard
<1>6. ASSUME NEW c \in Clients, NEW p, up' = up, cli' = [cli EXCEPT ![c] = p],
             cli[c] \in {"get", "done"} <=> p \in {"get", "done"}
      PROVE  Heard' = Heard
  <2>1. cli'[c] = p /\ \A e \in Clients : e # c => cli'[e] = cli[e]
    BY <1>1, <1>6 DEF BenchBase
  <2> QED
    BY <1>6, <2>1 DEF Heard
<1> QED
  BY <1>2, <1>4, <1>5, <1>6

\* Those of perf_pubsub.
LEMMA PubStep ==
    ASSUME BenchInv, [BenchNext]_benchVars
    PROVE  PubInv'
<1>1. prog' = prog /\ upset \subseteq upset'
  BY DEF BenchNext, benchVars, Server, Remote, Client, Bind, LocalLatGet, LocalLatSend, LocalLatQuit,
         LocalThrGet, PerfThrSend, SrvHello, SrvSignal, SrvPublish, RemoteLatSend, RemoteLatGet,
         RemoteThrSend, RemoteThrQuit, MainJoin, Connect, CliHello, CliGet, Accept, StaysBehind, Loses, WokenEmpty,
         Expires, AssertRc
<1> SUFFICES ASSUME prog = "pubsub" PROVE PubInv'
  BY <1>1 DEF PubInv
<1>2. /\ PubServer /\ (\A c \in Clients : PubClient(c))
      /\ "expired" \notin upset => PubSmooth
  BY DEF BenchInv, PubInv, PubServer, PubClient, PubSmooth
<1>3. /\ n \in Nat /\ Rounds \in Nat /\ Rounds > 0 /\ Cardinality(Clients) \in Nat
      /\ m \in [Clients -> Nat] /\ up \in [Clients -> Nat] /\ down \in [Clients -> Nat]
      /\ joined \subseteq Clients
      /\ cli \in [Clients -> {"off", "start", "send", "get", "sleep", "done"}]
  BY BenchAssumption, FS_CardinalityType DEF BenchInv, BenchBase
<1>4. ASSUME PubServer', \A c \in Clients : PubClient(c)',
             "expired" \notin upset' => PubSmooth'
      PROVE  PubInv'
  BY <1>4 DEF PubInv, PubServer, PubClient, PubSmooth
<1>5. CASE \/ UNCHANGED benchVars \/ Bind \/ MainJoin \/ WokenEmpty
           \/ \E e \in Clients : \/ Connect(e) \/ Accept(e)
                                 \/ StaysBehind("up", e) \/ StaysBehind("down", e)
  <2>1. /\ UNCHANGED <<n, m, up, down>> /\ joined \subseteq joined'
        /\ srv' = srv \/ (srv = "start" /\ srv' = "get")
        /\ \/ cli' = cli
           \/ \E c \in Clients : cli[c] = "start" /\ cli' = [cli EXCEPT ![c] = "send"]
    BY <1>5, SharedSteps
  <2>2. Published' = Published /\ PubServer'
    BY <1>2, <2>1 DEF Published, PubServer
  <2>3. Heard' = Heard
    <3>1. CASE cli' = cli
      BY <2>1, <3>1 DEF Heard
    <3>2. CASE \E c \in Clients : cli[c] = "start" /\ cli' = [cli EXCEPT ![c] = "send"]
      BY <2>1, <3>2, HeardSteps
    <3> QED
      BY <2>1, <3>1, <3>2
  <2>4. ASSUME NEW c \in Clients PROVE PubClient(c)'
    <3>1. cli'[c] = cli[c] \/ (cli[c] = "start" /\ cli'[c] = "send")
      BY <1>3, <2>1
    <3> QED
      BY <1>2, <2>1, <2>2, <3>1 DEF PubClient
  <2>5. "expired" \notin upset' => PubSmooth'
    <3>1. joined' \subseteq Clients
      BY BenchBaseStep DEF BenchBase
    <3>2. Heard \cap joined \subseteq Heard' \cap joined'
      BY <2>1, <2>3
    <3> QED
      BY <1>1, <1>2, <2>1, <2>2, <3>1, <3>2 DEF PubSmooth
  <2> QED
    BY <1>2, <1>4, <2>1, <2>2, <2>3, <2>4, <2>5
<1>6. CASE SrvHello
  <2>1. /\ srv = "get" /\ n < Cardinality(Clients) /\ n' = n + 1 /\ UNCHANGED <<srv, cli, m, joined>>
        /\ \/ (\E c \in Clients : TakeUp(c)) /\ upset' = upset
           \/ "expired" \in upset' /\ UNCHANGED <<up, down>>
    BY <1>6 DEF SrvHello, Expires, net, Hellos
  <2>2. Published' = Published /\ PubServer'
    BY <1>3, <2>1 DEF Published, PubServer
  <2>3. CASE "expired" \in upset' /\ UNCHANGED <<up, down>>
    <3>1. Heard' = Heard
      BY <2>1, <2>3 DEF Heard
    <3>2. \A c \in Clients : PubClient(c)'
      BY <1>2, <2>1, <2>2, <2>3 DEF PubClient
    <3> QED
      BY <1>2, <1>4, <2>1, <2>2, <2>3, <3>1, <3>2
  <2>4. CASE (\E c \in Clients : TakeUp(c)) /\ upset' = upset
    <3>1. PICK c \in Clients : TakeUp(c)
      BY <2>4
    <3>2. up' = [up EXCEPT ![c] = up[c] - 1] /\ down' = down /\ up[c] > 0
      BY <1>3, <3>1 DEF TakeUp
    <3>3. Heard' = Heard \cup {c} /\ c \in joined /\ c \notin Heard
      BY <2>1, <3>1, HeardSteps
    <3>4. ASSUME NEW e \in Clients PROVE PubClient(e)'
      <4>1. up'[e] \in Nat /\ up'[e] <= up[e] /\ up[e] \in Nat
        BY <1>3, <3>2
      <4> QED
        BY <1>2, <2>1, <2>2, <3>2, <4>1 DEF PubClient
    <3>5. ASSUME PubSmooth PROVE PubSmooth'
      <4>1. PICK S \in SUBSET (Heard \cap joined) : Cardinality(S) = n
        BY <2>1, <3>5 DEF PubSmooth
      <4>2. IsFiniteSet(S) /\ c \notin S
        BY <3>3, <4>1, HeardSteps
      <4>3. Cardinality(S \cup {c}) = n + 1
        BY <4>1, <4>2, FS_AddElement
      <4>4. S \cup {c} \in SUBSET (Heard' \cap joined')
        BY <2>1, <3>3, <4>1
      <4>5. \E T \in SUBSET (Heard' \cap joined') : Cardinality(T) = n'
        BY <2>1, <4>3, <4>4
      <4> QED
        BY <2>1, <2>2, <2>4, <3>2, <3>5, <4>5 DEF PubSmooth
    <3> QED
      BY <1>1, <1>2, <1>4, <2>1, <2>2, <3>3, <3>4, <3>5
  <2> QED
    BY <2>1, <2>3, <2>4
<1>7. CASE SrvSignal
  <2>1. /\ srv = "get" /\ n = Cardinality(Clients) /\ n' = 0 /\ srv' = "publish"
        /\ UNCHANGED <<cli, m, joined, up, down, upset>>
    BY <1>7 DEF SrvSignal, net, Hellos
  <2>2. Published' = 0 /\ Published = 0 /\ PubServer'
    BY <1>3, <2>1 DEF Published, PubServer
  <2>3. Heard' = Heard
    BY <2>1 DEF Heard
  <2>4. \A c \in Clients : PubClient(c)'
    BY <1>2, <2>1, <2>2 DEF PubClient
  <2>5. ASSUME PubSmooth PROVE PubSmooth'
    <3>1. PICK S \in SUBSET (Heard \cap joined) : Cardinality(S) = Cardinality(Clients)
      BY <2>1, <2>5 DEF PubSmooth
    <3>2. S \in SUBSET Heard /\ S \subseteq joined
      BY <3>1
    <3>3. S = Clients
      BY <3>1, <3>2, HeardSteps
    <3>4. joined' = Clients
      BY <1>3, <2>1, <3>2, <3>3
    <3> QED
      BY <2>1, <2>2, <2>5, <3>4 DEF PubSmooth
  <2> QED
    BY <1>1, <1>2, <1>4, <2>1, <2>2, <2>3, <2>4, <2>5
<1>8. CASE SrvPublish
  <2>1. /\ srv = "publish" /\ n' = n + 1 /\ srv' = IF n + 1 = Rounds THEN "done" ELSE "publish"
        /\ UNCHANGED <<cli, m, joined, upset, up>>
        /\ down' = [c \in Clients |-> IF c \in joined THEN down[c] + 1 ELSE down[c]]
    BY <1>8 DEF SrvPublish, PutDown
  <2>2. Published' = n + 1 /\ Published = n /\ PubServer'
    BY <1>2, <1>3, <2>1 DEF Published, PubServer
  <2>3. Heard' = Heard
    BY <2>1 DEF Heard
  <2>4. ASSUME NEW c \in Clients PROVE PubClient(c)'
    <3>1. m[c] \in Nat /\ down[c] \in Nat /\ (down'[c] = down[c] \/ down'[c] = down[c] + 1)
      BY <1>3, <2>1
    <3> QED
      BY <1>2, <1>3, <2>1, <2>2, <3>1 DEF PubClient
  <2>5. ASSUME PubSmooth PROVE PubSmooth'
    <3>1. joined = Clients
      BY <2>1, <2>5 DEF PubSmooth
    <3>2. \A c \in Clients : m[c] \in Nat /\ down[c] \in Nat /\ down'[c] = down[c] + 1
      BY <1>3, <2>1, <3>1
    <3> QED
      BY <1>3, <2>1, <2>2, <2>5, <3>1, <3>2 DEF PubSmooth
  <2> QED
    BY <1>1, <1>2, <1>4, <2>1, <2>2, <2>3, <2>4, <2>5
<1>9. ASSUME NEW c \in Clients, CliHello(c) PROVE PubInv'
  <2>1. /\ cli[c] = "send" /\ cli' = [cli EXCEPT ![c] = "get"] /\ PutUp(c)
        /\ UNCHANGED <<srv, n, m, joined, upset>>
    BY <1>9 DEF CliHello
  <2>2. up' = [up EXCEPT ![c] = up[c] + 1] /\ down' = down
    BY <2>1 DEF PutUp
  <2>3. Published' = Published /\ PubServer'
    BY <1>2, <2>1 DEF Published, PubServer
  <2>4. Heard' = Heard
    BY <2>1, HeardSteps
  <2>5. ASSUME NEW e \in Clients PROVE PubClient(e)'
    <3>1. CASE e = c
      BY <1>2, <1>3, <2>1, <2>2, <2>3, <3>1 DEF PubClient
    <3>2. CASE e # c
      BY <1>2, <1>3, <2>1, <2>2, <2>3, <3>2 DEF PubClient
    <3> QED
      BY <3>1, <3>2
  <2>6. PubSmooth => PubSmooth'
    BY <2>1, <2>2, <2>3, <2>4 DEF PubSmooth
  <2> QED
    BY <1>1, <1>2, <1>4, <2>1, <2>3, <2>4, <2>5, <2>6
<1>10. ASSUME NEW c \in Clients, CliGet(c) PROVE PubInv'
  <2>1. UNCHANGED <<srv, n, joined>> /\ cli[c] = "get"
    BY <1>10 DEF CliGet
  <2>2. Published' = Published /\ PubServer'
    BY <1>2, <2>1 DEF Published, PubServer
  <2>3. CASE UNCHANGED <<cli, m, up, down>>
    <3>1. Heard' = Heard
      BY <2>3 DEF Heard
    <3>2. \A e \in Clients : PubClient(e)'
      BY <1>2, <2>2, <2>3 DEF PubClient
    <3>3. PubSmooth => PubSmooth'
      BY <1>1, <2>1, <2>2, <2>3, <3>1 DEF PubSmooth
    <3> QED
      BY <1>1, <1>2, <1>4, <2>1, <2>2, <3>1, <3>2, <3>3
  <2>4. CASE /\ TakeDown(c) /\ m' = [m EXCEPT ![c] = m[c] + 1]
             /\ cli' = [cli EXCEPT ![c] = IF m[c] + 1 = Rounds THEN "done" ELSE "get"]
    <3>1. down[c] > 0 /\ down' = [down EXCEPT ![c] = down[c] - 1] /\ up' = up
      BY <1>3, <2>4 DEF TakeDown
    <3>2. PICK p \in {"get", "done"} : cli' = [cli EXCEPT ![c] = p]
      BY <2>4
    <3>3. Heard' = Heard
      BY <2>1, <3>1, <3>2, HeardSteps
    <3>4. \A e \in Clients : m'[e] + down'[e] = m[e] + down[e]
      BY <1>3, <2>4, <3>1
    <3>5. \A e \in Clients : cli'[e] = cli[e] \/ (cli[e] = "get" /\ cli'[e] \in {"get", "done"})
      BY <1>3, <2>1, <3>2
    <3>6. ASSUME NEW e \in Clients PROVE PubClient(e)'
      BY <1>2, <2>2, <3>1, <3>4, <3>5 DEF PubClient
    <3>7. PubSmooth => PubSmooth'
      BY <1>1, <2>1, <2>2, <3>3, <3>4 DEF PubSmooth
    <3> QED
      BY <1>1, <1>2, <1>4, <2>1, <2>2, <3>3, <3>6, <3>7
  <2> QED
    BY <1>10, <2>3, <2>4 DEF CliGet, Expires, net
<1>11. ASSUME NEW c \in Clients, Loses("up", c) \/ Loses("down", c) PROVE PubInv'
  <2>1. /\ UNCHANGED <<srv, cli, n, m, joined>> /\ upset' = upset \cup {"lost"}
        /\ up' \in [Clients -> Nat] /\ down' \in [Clients -> Nat]
        /\ \A e \in Clients : up'[e] <= up[e] /\ down'[e] <= down[e]
    BY <1>11, LossSteps
  <2>2. Published' = Published /\ PubServer'
    BY <1>2, <2>1 DEF Published, PubServer
  <2>3. \A e \in Clients : /\ up'[e] \in Nat /\ down'[e] \in Nat /\ up[e] \in Nat
                           /\ down[e] \in Nat /\ m[e] \in Nat
    BY <1>3, <2>1
  <2>4. Published \in Nat
    BY <1>3 DEF Published
  <2>5. ASSUME NEW e \in Clients PROVE PubClient(e)'
    BY <1>2, <2>1, <2>2, <2>3, <2>4 DEF PubClient
  <2>6. Heard \subseteq Heard'
    BY <2>1, <2>3 DEF Heard
  <2>7. ASSUME PubSmooth PROVE PubSmooth'
    <3>1. Heard \cap joined \subseteq Heard' \cap joined'
      BY <2>1, <2>6
    <3> QED
      BY <2>1, <2>7, <3>1 DEF PubSmooth
  <2> QED
    BY <1>1, <1>2, <1>4, <2>2, <2>5, <2>7
<1> QED
  BY <1>5, <1>6, <1>7, <1>8, <1>9, <1>10, <1>11, BenchSteps

\* Before the programs start nothing was sent.
LEMMA BenchStart == BenchInit => BenchInv
<1> SUFFICES ASSUME BenchInit PROVE BenchInv
  OBVIOUS
<1>1. Rounds \in Nat /\ Rounds > 0 /\ Peer \in Clients /\ Cardinality(Clients) \in Nat
  BY BenchAssumption, FS_CardinalityType
<1>2. /\ prog \in Programs /\ srv = "start" /\ n = 0 /\ m = [c \in Clients |-> 0]
      /\ joined = {} /\ up = [c \in Clients |-> 0] /\ down = [c \in Clients |-> 0]
      /\ stuck = {} /\ (main = "wait" \/ main = "off") /\ upset = {}
      /\ cli = [c \in Clients |-> IF prog = "pubsub" \/ c = Peer THEN "start" ELSE "off"]
  BY DEF BenchInit
<1>3. BenchBase
  BY <1>2 DEF BenchBase
<1>4. GoneOK
  BY Zenon DEF BenchInit, GoneOK
<1>5. \A c \in Clients : up[c] = 0 /\ down[c] = 0 /\ m[c] = 0
  BY <1>2
<1>6. /\ cli[Peer] = "start"
      /\ prog = "pubsub" => \A c \in Clients : cli[c] = "start"
      /\ prog # "pubsub" => \A c \in Clients : c # Peer => cli[c] = "off"
  BY <1>1, <1>2
<1>7. PairInv /\ LatInv /\ ThrInv /\ PerfInv
  BY <1>1, <1>2, <1>5, <1>6 DEF PairInv, LatInv, ThrInv, PerfInv
<1>8. PubInv
  <2>2. Published = 0
    BY <1>2 DEF Published
  <2>3. \E S \in SUBSET (Heard \cap joined) : Cardinality(S) = 0
    BY FS_EmptySet
  <2> QED
    BY <1>1, <1>2, <1>5, <1>6, <2>2, <2>3 DEF PubInv
<1> QED
  BY <1>3, <1>4, <1>7, <1>8 DEF BenchInv

\* The invariant is inductive.
LEMMA BenchKeeps == BenchInv /\ [BenchNext]_benchVars => BenchInv'
<1> SUFFICES ASSUME BenchInv, [BenchNext]_benchVars PROVE BenchInv'
  OBVIOUS
<1> QED
  BY BenchBaseStep, GoneStep, PairStep, LatStep, ThrStep, PerfStep, PubStep DEF BenchInv

\* It bounds every counter.
LEMMA BenchBounds == BenchInv => BenchTypeOK
<1> SUFFICES ASSUME BenchInv PROVE BenchTypeOK
  OBVIOUS
<1>1. /\ Rounds \in Nat /\ Rounds > 0 /\ Peer \in Clients /\ Cardinality(Clients) \in Nat
      /\ BenchBase /\ PairInv
  BY BenchAssumption, FS_CardinalityType DEF BenchInv
<1>2. \A c \in Clients : m[c] \in Nat /\ up[c] \in Nat /\ down[c] \in Nat /\ n \in Nat
  BY <1>1 DEF BenchBase
<1>3. CASE prog = "pubsub"
  <2>1. Published \in Nat /\ Published <= Rounds
    BY <1>1, <1>2, <1>3 DEF BenchInv, PubInv, Published
  <2>2. n <= Rounds + Cardinality(Clients)
    BY <1>1, <1>2, <1>3 DEF BenchInv, PubInv
  <2>3. \A c \in Clients : m[c] <= Rounds /\ up[c] <= Rounds /\ down[c] <= Rounds
    BY <1>1, <1>2, <1>3, <2>1 DEF BenchInv, PubInv
  <2>4. gone \in BOOLEAN
    BY DEF BenchInv, GoneOK
  <2> QED
    BY <1>1, <1>2, <2>2, <2>3, <2>4 DEF BenchTypeOK, BenchBase
<1>4. CASE prog # "pubsub"
  <2>1. prog \in {"lat", "thr", "perf_thr"}
    BY <1>1, <1>4 DEF BenchBase, Programs
  <2>2. n <= Rounds /\ m[Peer] <= Rounds /\ up[Peer] <= Rounds /\ down[Peer] <= Rounds
    BY <1>1, <1>2, <2>1 DEF BenchInv, LatInv, ThrInv, PerfInv
  <2>3. \A c \in Clients : m[c] <= Rounds /\ up[c] <= Rounds /\ down[c] <= Rounds
    BY <1>1, <1>4, <2>2 DEF PairInv
  <2>4. gone \in BOOLEAN
    BY DEF BenchInv, GoneOK
  <2> QED
    BY <1>1, <1>2, <2>2, <2>3, <2>4 DEF BenchTypeOK, BenchBase
<1> QED
  BY <1>3, <1>4

\* remote_lat has one frame in the air, no subscriber sees more than was
\* published, and unless a wait expires perf_pubsub's clients have all joined
\* before the first message, and miss only what the library loses: for any
\* clients and rounds.
THEOREM BenchmarksSound == BenchSpec => []BenchSound
<1>1. BenchInv => BenchSound
  BY DEF BenchInv, GoneOK, LatInv, PubInv, BenchSound
<1> QED
  BY <1>1, BenchStart, BenchKeeps, PTL DEF BenchSpec

-----------------------------------------------------------------------------
(* The parts side by side.                                                 *)

\* Array, event descriptor, worker and programs stay within their types, the
\* bounds of their counters included, whichever of them runs.
THEOREM PartsTypes == PartsSpec => []PartsTypeOK
<1> DEFINE PartsInv == ParrInv /\ EfdInv /\ WorkerInv /\ BenchInv
<1>1. PartsInit => PartsInv
  BY ParrStart, EfdStart, WorkerStart, BenchStart DEF PartsInit
<1>2. ASSUME PartsInv, [PartsNext]_allVars PROVE PartsInv'
  <2>1. /\ [ParrNext]_parrVars /\ [EfdNext]_efdVars
        /\ [WorkerNext]_workerVars /\ [BenchNext]_benchVars
    BY <1>2 DEF PartsNext, allVars
  <2> QED
    BY <1>2, <2>1, ParrKeeps, EfdInductive, WorkerInductive, BenchKeeps
<1>3. PartsInv => PartsTypeOK
  BY BenchBounds DEF ParrInv, ParrShape, EfdInv, WorkerInv, PartsTypeOK
<1> QED
  BY <1>1, <1>2, <1>3, PTL DEF PartsSpec
=============================================================================
