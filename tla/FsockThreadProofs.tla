-------------------------- MODULE FsockThreadProofs --------------------------
(***************************************************************************)
(* The worker threads, for every number of connections and threads: an     *)
(* item is queued at most once, the last bulk request wins on every        *)
(* connection however batches and cancellations interleave, and no job     *)
(* waits without a wake-up.  The lemmas speak of one action each, so that  *)
(* the modules built on FsockThread can use them for their own steps.      *)
(***************************************************************************)
EXTENDS FsockThread, QueueOpsProofs

Items == Tasks \cup {Stop}

\* The read tasks of c in the queue s.
HasRead(s, c, op) == <<c, op>> \in Elems(s)

\* No connection has both its read tasks in s.
OneRead(s) == \A c \in Conns : ~(HasRead(s, c, "START_READ") /\ HasRead(s, c, "STOP_READ"))

\* Nothing stands behind the stop item.
StopLast(s) == \A k \in 1..Len(s) : s[k] = Stop => k = Len(s)

\* The jobs J and the batch B of thread t: every item once, in the queues of its
\* own thread, one read task per connection in each, the stop item at the end.
Sound(t, J, B) ==
    /\ J \in Seq(Items) /\ B \in Seq(Items)
    /\ Distinct(J) /\ Distinct(B) /\ Elems(J) \cap Elems(B) = {}
    /\ \A x \in Elems(J) \cup Elems(B) : x # Stop => ThrOf[x[1]] = t
    /\ OneRead(J) /\ OneRead(B)
    /\ StopLast(J) /\ StopLast(B) /\ (Stop \in Elems(B) => J = << >>)

\* What Eventually(c) comes to when the queues are sound: the read task in jobs
\* decides, without one that in the batch, without one the watcher.
Decides(J, B, r, c) ==
    IF HasRead(J, c, "START_READ") \/ HasRead(J, c, "STOP_READ")
    THEN HasRead(J, c, "START_READ")
    ELSE IF HasRead(B, c, "START_READ") \/ HasRead(B, c, "STOP_READ")
    THEN HasRead(B, c, "START_READ")
    ELSE r

Queues ==
    /\ \A t \in Threads : Sound(t, jobs[t], batch[t])
    /\ \A t \in Threads : Stop \in Elems(jobs[t]) \cup Elems(batch[t]) => life[t] # "runs"

\* While a bulk loop runs it does the last request's bidding, and no thread is
\* joined while it holds their mutexes.
BulkSound ==
    bulk.on => /\ bulk.i \in 1..(NConns + 2) /\ bulk.op = request
               /\ WorkersLocked => \A t \in Threads : life[t] = "runs"

ThreadInv == ThreadTypeOK /\ Queues /\ BulkSound

-----------------------------------------------------------------------------
(* Items.                                                                  *)

\* A task carries its connection and its operation; the stop item is none.
LEMMA TaskShape ==
    /\ \A x \in Tasks : /\ x[1] \in Conns /\ x[2] \in ReadOps \cup {"START_WRITE"}
                        /\ x = <<x[1], x[2]>> /\ x # Stop
    /\ Stop[1] = 0 /\ Stop[2] = "STOP" /\ 0 \notin Conns
    /\ \A c \in Conns, op \in ReadOps \cup {"START_WRITE"} :
          <<c, op>> \in Tasks /\ <<c, op>> \in Items /\ <<c, op>> # Stop
<1>1. 0 \notin Conns
  BY ThreadAssumption DEF Conns
<1>2. Stop[1] = 0 /\ Stop[2] = "STOP"
  BY DEF Stop
<1>3. \A c \in Conns, op \in ReadOps \cup {"START_WRITE"} : <<c, op>> \in Tasks
  BY DEF Tasks
<1>4. ASSUME NEW x \in Tasks
      PROVE  /\ x[1] \in Conns /\ x[2] \in ReadOps \cup {"START_WRITE"}
             /\ x = <<x[1], x[2]>> /\ x # Stop
  <2>1. PICK c \in Conns, op \in ReadOps \cup {"START_WRITE"} : x = <<c, op>>
    BY DEF Tasks
  <2>2. x[1] = c /\ x[2] = op
    BY <2>1
  <2> QED
    BY <1>1, <1>2, <2>1, <2>2
<1> QED
  BY <1>1, <1>2, <1>3, <1>4 DEF Items

\* Pushing a write task, or the stop item, keeps the queues sound.
LEMMA SoundPush ==
    ASSUME NEW t, NEW J, NEW B, Sound(t, J, B), NEW x \in Items,
           x \notin Elems(J) \cup Elems(B), Stop \notin Elems(J) \cup Elems(B),
           x # Stop => ThrOf[x[1]] = t /\ x[2] = "START_WRITE"
    PROVE  Sound(t, Append(J, x), B)
<1> DEFINE r == Append(J, x)
<1>1. /\ r \in Seq(Items) /\ Elems(r) = Elems(J) \cup {x} /\ Distinct(r)
  BY ElemsAppend DEF Sound
<1>2. OneRead(r)
  <2>1. \A c \in Conns, op \in ReadOps : x # <<c, op>>
    BY TaskShape DEF ReadOps
  <2> QED
    BY <1>1, <2>1 DEF OneRead, HasRead, Sound, ReadOps
<1>3. StopLast(r)
  <2>1. /\ Len(J) \in Nat /\ Len(r) = Len(J) + 1
        /\ \A k \in 1..Len(r) : k # Len(r) => k \in 1..Len(J) /\ r[k] = J[k]
    BY DEF Sound
  <2>2. \A k \in 1..Len(J) : J[k] # Stop
    BY DEF Elems
  <2> QED
    BY <2>1, <2>2 DEF StopLast
<1> HIDE DEF r
<1>4. Sound(t, r, B)
  BY <1>1, <1>2, <1>3 DEF Sound
<1> QED
  BY <1>4 DEF r

\* async_routine's take.
LEMMA SoundTake ==
    ASSUME NEW t, NEW J, NEW B, Sound(t, J, B), B = << >>
    PROVE  Sound(t, << >>, J)
<1>1. << >> \in Seq(Items) /\ Elems(<< >>) = {} /\ Distinct(<< >>) /\ StopLast(<< >>)
  BY DEF Elems, Distinct, StopLast
<1> QED
  BY <1>1 DEF Sound, OneRead, HasRead

\* The pop of one item; the stop item is the last one.
LEMMA SoundPop ==
    ASSUME NEW t, NEW J, NEW B, Sound(t, J, B), B # << >>
    PROVE  /\ Sound(t, J, Tail(B))
           /\ Head(B) \in Items /\ Head(B) \in Elems(B)
           /\ Elems(Tail(B)) = Elems(B) \ {Head(B)}
           /\ Head(B) = Stop => Tail(B) = << >> /\ J = << >>
<1> DEFINE r == Tail(B)
<1>1. /\ r \in Seq(Items) /\ Head(B) \in Items /\ Distinct(r)
      /\ Elems(B) = {Head(B)} \cup Elems(r) /\ Elems(r) = Elems(B) \ {Head(B)}
      /\ Len(B) \in Nat /\ Len(r) = Len(B) - 1
      /\ \A j \in 1..Len(r) : r[j] = B[j + 1] /\ j + 1 \in 1..Len(B)
      /\ Head(B) = B[1] /\ 1 \in 1..Len(B)
  BY ElemsTail DEF Sound
<1> HIDE DEF r
<1>2. StopLast(r)
  <2> SUFFICES ASSUME NEW k \in 1..Len(r), r[k] = Stop PROVE k = Len(r)
    BY DEF StopLast
  <2>1. k + 1 \in 1..Len(B) /\ B[k + 1] = Stop
    BY <1>1
  <2>2. k + 1 = Len(B)
    BY <2>1 DEF StopLast, Sound
  <2> QED
    BY <1>1, <2>2
<1>3. Head(B) = Stop => r = << >> /\ J = << >>
  <2> SUFFICES ASSUME Head(B) = Stop PROVE r = << >> /\ J = << >>
    OBVIOUS
  <2>1. 1 = Len(B)
    BY <1>1 DEF StopLast, Sound
  <2>2. Len(r) = 0
    <3>1. Len(r) = Len(B) - 1
      BY <1>1
    <3> QED
      BY <2>1, <3>1
  <2>3. r \in Seq(Items)
    BY <1>1
  <2>4. r = << >>
    BY <2>2, <2>3, LenZero, Zenon
  <2>5. Stop \in Elems(B)
    BY <1>1
  <2> QED
    BY <2>4, <2>5 DEF Sound
<1>4. Sound(t, J, r)
  BY <1>1, <1>2 DEF Sound, OneRead, HasRead
<1> QED
  BY <1>1, <1>3, <1>4 DEF r

\* One turn of the bulk loop leaves the queues of its thread sound and lets
\* the requested operation decide for its connection, and for no other.
LEMMA SoundBulk ==
    ASSUME NEW c \in Conns, NEW op \in ReadOps, NEW J, NEW B, NEW r,
           J = jobs[ThrOf[c]], B = batch[ThrOf[c]], Sound(ThrOf[c], J, B),
           Stop \notin Elems(J) \cup Elems(B)
    PROVE  /\ Sound(ThrOf[c], BulkJobs(c, op), B)
           /\ Stop \notin Elems(BulkJobs(c, op))
           /\ Decides(BulkJobs(c, op), B, r, c) <=> op = "START_READ"
           /\ \A d \in Conns, o \in ReadOps :
                 d # c => (HasRead(BulkJobs(c, op), d, o) <=> HasRead(J, d, o))
<1> DEFINE t == ThrOf[c]
           x == <<c, op>>
           y == <<c, Opposite(op)>>
           P == IF IsInQueue(c, op) THEN J ELSE Append(J, x)
           R == BulkJobs(c, op)
<1>1. /\ x \in Items /\ y \in Items /\ x # y /\ x # Stop /\ y # Stop
      /\ x[1] = c /\ Opposite(op) \in ReadOps /\ op # Opposite(op)
  BY TaskShape DEF Opposite, ReadOps
<1>2. /\ IsInQueue(c, op) <=> x \in Elems(J) \cup Elems(B)
      /\ IsInQueue(c, Opposite(op)) <=> y \in Elems(J) \cup Elems(B)
  BY DEF IsInQueue
<1>3. /\ P \in Seq(Items) /\ Distinct(P)
      /\ Elems(P) = Elems(J) \cup (IF x \in Elems(J) \cup Elems(B) THEN {} ELSE {x})
  BY <1>1, <1>2, ElemsAppend DEF Sound
<1>4. R = IF IsInQueue(c, Opposite(op)) THEN Without(P, y) ELSE P
  BY DEF BulkJobs
<1> HIDE DEF x, y, P, R
<1>5. /\ R \in Seq(Items) /\ Distinct(R)
      /\ Elems(R) = Elems(P) \ {y}
  <2>1. CASE IsInQueue(c, Opposite(op))
    <3>1. /\ Without(P, y) \in Seq(Items) /\ Distinct(Without(P, y))
          /\ Elems(Without(P, y)) = Elems(P) \ {y}
      <4>1. P \in Seq(Items) /\ Distinct(P)
        BY <1>3
      <4> QED
        BY <4>1, WithoutElems
    <3>2. R = Without(P, y)
      BY <1>4, <2>1
    <3> QED
      BY <3>1, <3>2, Zenon
  <2>2. CASE ~IsInQueue(c, Opposite(op))
    BY <1>1, <1>2, <1>3, <1>4, <2>2
  <2> QED
    BY <2>1, <2>2
<1>6. Elems(R) = (Elems(J) \cup (IF x \in Elems(J) \cup Elems(B) THEN {} ELSE {x})) \ {y}
  BY <1>3, <1>5
<1>7. Stop \notin Elems(R)
  BY <1>1, <1>6
<1>8. StopLast(R)
  BY <1>7 DEF StopLast, Elems
<1>9. \A d \in Conns, o \in ReadOps : d # c => (HasRead(R, d, o) <=> HasRead(J, d, o))
  <2>1. \A d \in Conns, o \in ReadOps : d # c => <<d, o>> # x /\ <<d, o>> # y
    BY DEF x, y
  <2> QED
    BY <1>6, <2>1 DEF HasRead
<1>10. OneRead(R)
  <2>1. ASSUME NEW d \in Conns
        PROVE  ~(HasRead(R, d, "START_READ") /\ HasRead(R, d, "STOP_READ"))
    <3>1. CASE d = c
      <4>1. y \notin Elems(R)
        BY <1>6
      <4>2. y = <<d, "START_READ">> \/ y = <<d, "STOP_READ">>
        BY <1>1, <3>1 DEF y, ReadOps
      <4> QED
        BY <4>1, <4>2 DEF HasRead
    <3>2. CASE d # c
      BY <1>9, <3>2 DEF OneRead, Sound, ReadOps
    <3> QED
      BY <3>1, <3>2
  <2> QED
    BY <2>1 DEF OneRead
<1>11. Sound(t, R, B)
  <2>1. \A z \in Elems(R) \cup Elems(B) : z # Stop => ThrOf[z[1]] = t
    BY <1>1, <1>6 DEF Sound
  <2>2. Elems(R) \cap Elems(B) = {}
    BY <1>6 DEF Sound
  <2> QED
    BY <1>5, <1>7, <1>8, <1>10, <2>1, <2>2 DEF Sound
<1>12. Decides(R, B, r, c) <=> op = "START_READ"
  <2>1. y \notin Elems(R)
    BY <1>6
  <2>2. x \in Elems(R) \/ (x \in Elems(B) /\ y \notin Elems(B))
    <3>1. CASE x \in Elems(B)
      BY <1>1, <3>1 DEF x, y, Sound, OneRead, HasRead, ReadOps, Opposite
    <3>2. CASE x \notin Elems(B)
      BY <1>1, <1>6, <3>2
    <3> QED
      BY <3>1, <3>2
  <2>3. CASE op = "START_READ"
    BY <2>1, <2>2, <2>3 DEF Decides, HasRead, x, y, Opposite
  <2>4. CASE op = "STOP_READ"
    BY <2>1, <2>2, <2>4 DEF Decides, HasRead, x, y, Opposite
  <2> QED
    BY <2>3, <2>4 DEF ReadOps
<1> QED
  BY <1>7, <1>9, <1>11, <1>12 DEF R

\* The last read task in the queues decides what the watcher will be.
LEMMA OutcomeDecides ==
    ASSUME NEW c \in Conns, NEW J, NEW B, NEW r, NEW t, Sound(t, J, B)
    PROVE  Outcome(B \o J, r, c) <=> Decides(J, B, r, c)
<1> DEFINE out == Outcome(B \o J, r, c)
           todo == B \o J
           ops == {k \in 1..Len(todo) : todo[k][1] = c /\ todo[k][2] \in ReadOps}
           start == <<c, "START_READ">>
           stop == <<c, "STOP_READ">>
<1>1. J \in Seq(Items) /\ B \in Seq(Items)
  BY DEF Sound
<1>2. PICK a \in Nat, b \in Nat : a = Len(B) /\ b = Len(J)
  BY <1>1
<1>3. /\ Len(todo) = a + b
      /\ \A j \in 1..a : todo[j] = B[j] /\ B[j] \in Items /\ j \in 1..(a + b)
      /\ \A k \in 1..b : todo[a + k] = J[k] /\ J[k] \in Items /\ a + k \in 1..(a + b)
      /\ \A j \in 1..(a + b) : j \in 1..a \/ \E k \in 1..b : j = a + k
  <2>1. /\ Len(todo) = a + b
        /\ \A j \in 1..a : todo[j] = B[j] /\ j \in 1..(a + b)
        /\ \A k \in 1..b : todo[a + k] = J[k] /\ a + k \in 1..(a + b)
        /\ \A j \in 1..(a + b) : j \in 1..a \/ \E k \in 1..b : j = a + k
    BY <1>1, <1>2, ConcatPositions
  <2>2. (\A j \in 1..a : B[j] \in Items) /\ (\A k \in 1..b : J[k] \in Items)
    BY <1>1, <1>2
  <2> HIDE DEF todo
  <2> QED
    BY <2>1, <2>2
<1>4. ASSUME NEW z \in Items
      PROVE  /\ z[1] = c /\ z[2] \in ReadOps <=> z = start \/ z = stop
             /\ z = start \/ z = stop => (z[2] = "START_READ" <=> z = start)
  <2>1. CASE z = Stop
    <3>1. z[1] = 0 /\ c # 0
      BY <2>1, TaskShape
    <3>2. z # start /\ z # stop
      BY <2>1, TaskShape DEF ReadOps
    <3> QED
      BY <3>1, <3>2
  <2>2. CASE z # Stop
    <3>1. z = <<z[1], z[2]>>
      BY <2>2, TaskShape DEF Items
    <3>2. start[1] = c /\ start[2] = "START_READ" /\ stop[1] = c /\ stop[2] = "STOP_READ"
      OBVIOUS
    <3> QED
      BY <3>1, <3>2 DEF ReadOps
  <2> QED
    BY <2>1, <2>2
<1>5. out <=> IF ops = {} THEN r
                        ELSE \E k \in ops : (\A l \in ops : l <= k) /\ todo[k][2] = "START_READ"
  BY DEF Outcome
<1> SUFFICES out <=> Decides(J, B, r, c)
  OBVIOUS
<1> HIDE DEF todo, ops, start, stop, out
<1>6. \A j \in 1..(a + b) : j \in ops <=> todo[j] = start \/ todo[j] = stop
  <2> TAKE j \in 1..(a + b)
  <2>1. todo[j] \in Items
    <3>1. CASE j \in 1..a
      BY <1>3, <3>1
    <3>2. CASE j \notin 1..a
      <4>1. PICK k \in 1..b : j = a + k
        BY <1>3, <3>2
      <4> QED
        BY <1>3, <4>1
    <3> QED
      BY <3>1, <3>2
  <2> QED
    BY <1>3, <1>4, <2>1 DEF ops
<1>7. ASSUME NEW p \in ops, \A j \in ops : j <= p, todo[p] \in Items
      PROVE  out <=> todo[p] = start
  <2>1. ops # {} /\ ops \subseteq Nat /\ (todo[p] = start \/ todo[p] = stop)
    BY <1>3, <1>6 DEF ops
  <2>2. \A k \in ops : (\A l \in ops : l <= k) => k = p
    BY <1>7, <2>1
  <2>3. todo[p][2] = "START_READ" <=> todo[p] = start
    BY <1>4, <1>7, <2>1
  <2> QED
    BY <1>5, <1>7, <2>1, <2>2, <2>3
<1>8. CASE start \in Elems(J) \/ stop \in Elems(J)
  <2>1. PICK k \in 1..b : J[k] = start \/ J[k] = stop
    BY <1>2, <1>8 DEF Elems
  <2> DEFINE p == a + k
  <2>2. p \in ops /\ todo[p] = J[k] /\ J[k] \in Items
    BY <1>3, <1>6, <2>1
  <2>3. ASSUME NEW j \in ops PROVE j <= p
    <3>1. j \in 1..(a + b) /\ (todo[j] = start \/ todo[j] = stop)
      BY <1>3, <1>6 DEF ops
    <3>2. CASE j \in 1..a
      BY <3>2
    <3>3. CASE j \notin 1..a
      <4>1. PICK l \in 1..b : j = a + l
        BY <1>3, <3>1, <3>3
      <4>2. J[l] = start \/ J[l] = stop
        BY <1>3, <3>1, <4>1
      <4>3. ~(start \in Elems(J) /\ stop \in Elems(J))
        BY DEF Sound, OneRead, HasRead, start, stop
      <4>4. J[l] = J[k]
        BY <1>2, <2>1, <4>2, <4>3 DEF Elems
      <4>5. l = k
        BY <1>2, <4>4 DEF Sound, Distinct
      <4> QED
        BY <4>1, <4>5
    <3> QED
      BY <3>1, <3>2, <3>3
  <2> HIDE DEF p
  <2>4. out <=> J[k] = start
    BY <1>7, <2>2, <2>3
  <2>5. J[k] = start <=> start \in Elems(J)
    <3>1. J[k] \in Elems(J)
      BY <1>2 DEF Elems
    <3>2. ~(start \in Elems(J) /\ stop \in Elems(J))
      BY DEF Sound, OneRead, HasRead, start, stop
    <3> QED
      BY <2>1, <3>1, <3>2
  <2> QED
    BY <1>8, <2>4, <2>5 DEF Decides, HasRead, start, stop
<1>9. CASE start \notin Elems(J) /\ stop \notin Elems(J)
  <2>1. \A k \in 1..b : a + k \notin ops
    BY <1>2, <1>3, <1>6, <1>9 DEF Elems
  <2>2. ops \subseteq 1..a
    BY <1>3, <2>1 DEF ops
  <2>3. CASE start \in Elems(B) \/ stop \in Elems(B)
    <3>0. ~(start \in Elems(B) /\ stop \in Elems(B))
      BY DEF Sound, OneRead, HasRead, start, stop
    <3>1. PICK k \in 1..a : B[k] = start \/ B[k] = stop
      BY <1>2, <2>3 DEF Elems
    <3>2. k \in ops /\ todo[k] = B[k] /\ B[k] \in Items /\ B[k] \in Elems(B)
      BY <1>2, <1>3, <1>6, <3>1 DEF Elems
    <3>3. ASSUME NEW j \in ops PROVE j <= k
      <4>1. j \in 1..a /\ (B[j] = start \/ B[j] = stop)
        BY <1>3, <1>6, <2>2
      <4>2. B[j] = B[k]
        BY <1>2, <3>0, <3>1, <4>1 DEF Elems
      <4>3. j = k
        BY <1>2, <4>1, <4>2 DEF Sound, Distinct
      <4> QED
        BY <4>1, <4>3
    <3>4. out <=> B[k] = start
      BY <1>7, <3>2, <3>3
    <3> QED
      BY <1>9, <2>3, <3>0, <3>1, <3>2, <3>4 DEF Decides, HasRead, start, stop
  <2>4. CASE start \notin Elems(B) /\ stop \notin Elems(B)
    <3>1. ops = {}
      BY <1>2, <1>3, <1>6, <2>2, <2>4 DEF Elems
    <3> QED
      BY <1>5, <1>9, <2>4, <3>1 DEF Decides, HasRead, start, stop
  <2> QED
    BY <2>3, <2>4
<1> QED
  BY <1>8, <1>9

-----------------------------------------------------------------------------
(* The steps of the threads.                                               *)

\* The last request wins on c, in terms of Decides.
Follows(c) ==
    (~bulk.on \/ c < bulk.i) =>
       (Decides(jobs[ThrOf[c]], batch[ThrOf[c]], rio[c], c) <=> request = "START_READ")

\* LastRequestWins speaks of each connection on its own.
LEMMA FollowsIff ==
    ASSUME ThreadInv, NEW closed
    PROVE  LastRequestWins(closed) <=> \A c \in Conns \ closed : Follows(c)
<1>1. ASSUME NEW c \in Conns
      PROVE  Eventually(c) <=> Decides(jobs[ThrOf[c]], batch[ThrOf[c]], rio[c], c)
  <2>1. Sound(ThrOf[c], jobs[ThrOf[c]], batch[ThrOf[c]])
    BY ThreadAssumption DEF ThreadInv, Queues
  <2> QED
    BY <2>1, OutcomeDecides DEF Eventually
<1> QED
  BY <1>1 DEF LastRequestWins, Follows

\* The invariant in terms of sequences gives the property the runs check.
LEMMA QueuesQueuedOnce ==
    ASSUME ThreadInv
    PROVE  QueuedOnce
<1>1. ASSUME NEW t \in Threads
      PROVE  Distinct(batch[t] \o jobs[t])
  BY DistinctConcat DEF ThreadInv, Queues, Sound
<1>2. ASSUME NEW c \in Conns
      PROVE  ~(JobsOnlyInQueue(c, "START_READ") /\ JobsOnlyInQueue(c, "STOP_READ"))
  <2>1. OneRead(jobs[ThrOf[c]])
    BY ThreadAssumption DEF ThreadInv, Queues, Sound
  <2> QED
    BY <2>1 DEF OneRead, HasRead, JobsOnlyInQueue
<1> QED
  BY <1>1, <1>2 DEF QueuedOnce, Distinct

\* What every step of the threads keeps.
Keeps ==
    /\ ThreadInv'
    /\ NoLostWakeup => NoLostWakeup'
    /\ \A c \in Conns : Follows(c) => Follows(c)'

\* fsock_thread_init establishes the invariant: nothing is queued and no watcher runs.
LEMMA ThreadInitInv ==
    ASSUME ThreadInit
    PROVE  ThreadInv /\ NoLostWakeup /\ \A c \in Conns : Follows(c)
<1>1. /\ << >> \in Seq(Items) /\ Elems(<< >>) = {} /\ Distinct(<< >>)
      /\ StopLast(<< >>) /\ OneRead(<< >>)
  BY DEF Elems, Distinct, StopLast, OneRead, HasRead
<1>2. ThreadTypeOK
  <2>1. jobs \in [Threads -> Seq(Tasks \cup {Stop})] /\ batch \in [Threads -> Seq(Tasks \cup {Stop})]
    BY <1>1 DEF ThreadInit, Items
  <2>2. /\ async \in [Threads -> BOOLEAN] /\ rio \in [Conns -> BOOLEAN]
        /\ wio \in [Conns -> BOOLEAN]
    BY Zenon DEF ThreadInit
  <2>3. /\ bulk \in [on : BOOLEAN, op : ReadOps, i : Nat] /\ request \in ReadOps
    BY DEF ThreadInit, NoBulk, ReadOps
  <2>4. life \in [Threads -> {"runs", "joining", "stopped"}]
    BY DEF ThreadInit
  <2> QED
    BY <2>1, <2>2, <2>3, <2>4 DEF ThreadTypeOK
<1>3. Queues
  BY <1>1 DEF ThreadInit, Queues, Sound
<1>4. BulkSound /\ NoLostWakeup
  BY DEF ThreadInit, BulkSound, WorkersLocked, NoLostWakeup, NoBulk
<1>5. \A c \in Conns : Follows(c)
  <2> TAKE c \in Conns
  <2>1. jobs[ThrOf[c]] = << >> /\ batch[ThrOf[c]] = << >> /\ rio[c] = TRUE
    BY ThreadAssumption DEF ThreadInit
  <2> QED
    BY <1>1, <2>1 DEF Follows, Decides, HasRead, ThreadInit
<1> QED
  BY <1>2, <1>3, <1>4, <1>5 DEF ThreadInv

\* A step that leaves the queues, the read watchers and the loop alone.
LEMMA KeepsIdle ==
    ASSUME ThreadInv, UNCHANGED <<jobs, batch, async, rio, bulk, request, life>>,
           wio' \in [Conns -> BOOLEAN]
    PROVE  Keeps
<1>1. ThreadTypeOK'
  BY DEF ThreadInv, ThreadTypeOK
<1>2. Queues' /\ BulkSound' /\ (NoLostWakeup => NoLostWakeup')
  BY DEF ThreadInv, Queues, BulkSound, WorkersLocked, NoLostWakeup
<1>3. \A c \in Conns : Follows(c) => Follows(c)'
  BY DEF Follows
<1> QED
  BY <1>1, <1>2, <1>3 DEF Keeps, ThreadInv

\* fsock_workers_lock: the loop starts before the first connection.
LEMMA KeepsBulkBegin ==
    ASSUME ThreadInv, NEW op \in ReadOps, BulkBegin(op), \A t \in Threads : life[t] = "runs",
           UNCHANGED <<jobs, batch, async, rio, wio, life>>
    PROVE  Keeps
<1>0. bulk'.on = TRUE /\ bulk'.i = 1 /\ bulk'.op = op /\ request' = op
  BY DEF BulkBegin
<1>1. ThreadTypeOK'
  BY DEF ThreadInv, ThreadTypeOK, BulkBegin
<1>2. Queues' /\ (NoLostWakeup => NoLostWakeup')
  BY <1>0 DEF ThreadInv, Queues, NoLostWakeup
<1>3. BulkSound'
  BY <1>0, ThreadAssumption DEF BulkSound, WorkersLocked
<1>4. \A c \in Conns : Follows(c) => Follows(c)'
  BY <1>0, ThreadAssumption DEF Follows, Conns
<1> QED
  BY <1>1, <1>2, <1>3, <1>4 DEF Keeps, ThreadInv

\* One turn of the loop: the requested operation decides for its connection.
LEMMA KeepsBulkStep ==
    ASSUME ThreadInv, BulkStep
    PROVE  Keeps
<1> DEFINE c == bulk.i
           t == ThrOf[c]
           R == BulkJobs(c, bulk.op)
<1>0. /\ c \in Conns /\ t \in Threads /\ bulk.op \in ReadOps /\ c \in Nat
      /\ bulk.on /\ bulk.op = request /\ \A u \in Threads : life[u] = "runs"
  BY ThreadAssumption DEF BulkStep, ThreadInv, ThreadTypeOK, BulkSound, WorkersLocked, Conns
<1>1. /\ jobs' = [jobs EXCEPT ![t] = R]
      /\ bulk' = [bulk EXCEPT !.i = c + 1]
      /\ UNCHANGED <<batch, async, rio, wio, request, life>>
  BY DEF BulkStep
<1>2. /\ jobs \in [Threads -> Seq(Items)] /\ batch \in [Threads -> Seq(Items)]
      /\ bulk \in [on : BOOLEAN, op : ReadOps, i : Nat]
  BY DEF ThreadInv, ThreadTypeOK, Items
<1>3. bulk'.on /\ bulk'.i = c + 1 /\ bulk'.op = bulk.op
  BY <1>0, <1>1, <1>2
<1>4. Sound(t, jobs[t], batch[t]) /\ Stop \notin Elems(jobs[t]) \cup Elems(batch[t])
  BY <1>0 DEF ThreadInv, Queues
<1>5. /\ Sound(t, R, batch[t]) /\ Stop \notin Elems(R)
      /\ Decides(R, batch[t], rio[c], c) <=> bulk.op = "START_READ"
      /\ \A d \in Conns, o \in ReadOps : d # c => (HasRead(R, d, o) <=> HasRead(jobs[t], d, o))
  BY <1>0, <1>4, SoundBulk
<1> HIDE DEF R
<1>6. jobs'[t] = R /\ \A u \in Threads : u # t => jobs'[u] = jobs[u]
  BY <1>0, <1>1, <1>2
<1>7. ThreadTypeOK'
  <2>1. jobs' \in [Threads -> Seq(Items)]
    BY <1>0, <1>1, <1>2, <1>5 DEF Sound
  <2>2. bulk' \in [on : BOOLEAN, op : ReadOps, i : Nat]
    <3>1. c + 1 \in Nat
      BY <1>0
    <3> HIDE DEF c
    <3> QED
      BY <1>1, <1>2, <3>1
  <2> QED
    BY <1>1, <2>1, <2>2 DEF ThreadInv, ThreadTypeOK, Items
<1>8. Queues'
  <2>1. ASSUME NEW u \in Threads
        PROVE  /\ Sound(u, jobs'[u], batch'[u])
               /\ Stop \in Elems(jobs'[u]) \cup Elems(batch'[u]) => life'[u] # "runs"
    <3>1. CASE u = t
      BY <1>1, <1>4, <1>5, <1>6, <3>1
    <3>2. CASE u # t
      BY <1>1, <1>6, <3>2 DEF ThreadInv, Queues
    <3> QED
      BY <3>1, <3>2
  <2> QED
    BY <2>1 DEF Queues
<1>9. BulkSound'
  <2>1. c + 1 \in 1..(NConns + 2)
    BY <1>0, ThreadAssumption DEF Conns
  <2> QED
    BY <1>0, <1>1, <1>3, <2>1 DEF BulkSound, WorkersLocked
<1>10. NoLostWakeup'
  BY <1>3 DEF NoLostWakeup
<1>11. ASSUME NEW d \in Conns, Follows(d)
       PROVE  Follows(d)'
  <2>1. SUFFICES ASSUME d < bulk'.i
                 PROVE  Decides(jobs'[ThrOf[d]], batch[ThrOf[d]], rio[d], d) <=> request = "START_READ"
    BY <1>1, <1>3 DEF Follows
  <2>2. CASE d = c
    <3>1. Decides(R, batch[t], rio[c], c) <=> request = "START_READ"
      BY <1>0, <1>5
    <3> QED
      BY <1>6, <2>2, <3>1
  <2>3. CASE d # c
    <3>1. d < c
      BY <1>0, <1>3, <2>1, <2>3, ThreadAssumption DEF Conns
    <3>2. Decides(jobs[ThrOf[d]], batch[ThrOf[d]], rio[d], d) <=> request = "START_READ"
      BY <1>11, <3>1 DEF Follows
    <3>3. \A o \in ReadOps : HasRead(jobs'[ThrOf[d]], d, o) <=> HasRead(jobs[ThrOf[d]], d, o)
      BY <1>5, <1>6, <2>3, ThreadAssumption
    <3> QED
      BY <3>2, <3>3 DEF Decides, ReadOps
  <2> QED
    BY <2>2, <2>3
<1> QED
  BY <1>7, <1>8, <1>9, <1>10, <1>11 DEF Keeps, ThreadInv

\* fsock_workers_unlock: the loop has passed every connection, the signals are
\* still to come.
LEMMA KeepsBulkUnlock ==
    ASSUME ThreadInv, BulkUnlock
    PROVE  Keeps
<1>1. /\ bulk.on /\ bulk.i = NConns + 1 /\ bulk' = [bulk EXCEPT !.i = NConns + 2]
      /\ UNCHANGED <<jobs, batch, async, rio, wio, request, life>>
  BY ThreadAssumption DEF BulkUnlock
<1>2. ThreadTypeOK' /\ bulk'.on /\ bulk'.i = NConns + 2 /\ bulk'.op = bulk.op
  <2>1. bulk \in [on : BOOLEAN, op : ReadOps, i : Nat] /\ NConns + 2 \in Nat
    BY ThreadAssumption DEF ThreadInv, ThreadTypeOK
  <2>2. bulk' \in [on : BOOLEAN, op : ReadOps, i : Nat]
    BY <1>1, <2>1
  <2>3. ThreadTypeOK'
    BY <1>1, <2>2 DEF ThreadInv, ThreadTypeOK
  <2> QED
    BY <1>1, <2>1, <2>3
<1>3. Queues' /\ NoLostWakeup'
  BY <1>1, <1>2 DEF ThreadInv, Queues, NoLostWakeup
<1>4. BulkSound'
  BY <1>1, <1>2, ThreadAssumption DEF ThreadInv, BulkSound, WorkersLocked
<1>5. ASSUME NEW c \in Conns, Follows(c)
      PROVE  Follows(c)'
  <2>1. c < bulk.i
    BY <1>1, ThreadAssumption DEF Conns
  <2> QED
    BY <1>1, <1>5, <2>1 DEF Follows
<1> QED
  BY <1>2, <1>3, <1>4, <1>5 DEF Keeps, ThreadInv

\* fsock_workers_signal, the wake-up of every thread.
LEMMA KeepsBulkEnd ==
    ASSUME ThreadInv, BulkEnd
    PROVE  Keeps
<1>1. /\ bulk.on /\ bulk.i = NConns + 2 /\ bulk' = NoBulk /\ ~bulk'.on
      /\ async' = [t \in Threads |-> TRUE]
      /\ UNCHANGED <<jobs, batch, rio, wio, request, life>>
  BY DEF BulkEnd, NoBulk
<1>2. ThreadTypeOK'
  <2>1. bulk' \in [on : BOOLEAN, op : ReadOps, i : Nat]
    BY <1>1 DEF NoBulk, ReadOps
  <2>2. async' \in [Threads -> BOOLEAN]
    BY <1>1, Zenon
  <2> QED
    BY <1>1, <2>1, <2>2 DEF ThreadInv, ThreadTypeOK
<1>3. Queues' /\ BulkSound'
  BY <1>1 DEF ThreadInv, Queues, BulkSound, WorkersLocked
<1>4. NoLostWakeup'
  <2>1. \A t \in Threads : async'[t] = TRUE
    BY <1>1
  <2> QED
    BY <2>1 DEF NoLostWakeup
<1>5. ASSUME NEW c \in Conns, Follows(c)
      PROVE  Follows(c)'
  <2>1. c < bulk.i
    BY <1>1, ThreadAssumption DEF ThreadInv, BulkSound, WorkersLocked, Conns
  <2> QED
    BY <1>1, <1>5, <2>1 DEF Follows
<1> QED
  BY <1>2, <1>3, <1>4, <1>5 DEF Keeps, ThreadInv

\* async_routine's take moves the deciding task along with all others.
LEMMA KeepsAsync ==
    ASSUME ThreadInv, NEW t \in Threads, AsyncRoutine(t)
    PROVE  Keeps
<1>1. /\ batch[t] = << >> /\ ~WorkersLocked
      /\ async' = [async EXCEPT ![t] = FALSE]
      /\ batch' = [batch EXCEPT ![t] = jobs[t]] /\ jobs' = [jobs EXCEPT ![t] = << >>]
      /\ UNCHANGED <<rio, wio, bulk, request, life>>
  BY DEF AsyncRoutine
<1>2. /\ jobs \in [Threads -> Seq(Items)] /\ batch \in [Threads -> Seq(Items)]
      /\ async \in [Threads -> BOOLEAN]
  BY DEF ThreadInv, ThreadTypeOK, Items
<1>3. /\ jobs'[t] = << >> /\ batch'[t] = jobs[t]
      /\ \A u \in Threads : u # t => /\ jobs'[u] = jobs[u] /\ batch'[u] = batch[u]
                                     /\ async'[u] = async[u]
  BY <1>1, <1>2
<1>4. Sound(t, << >>, jobs[t]) /\ Elems(<< >>) = {}
  BY <1>1, SoundTake DEF ThreadInv, Queues, Elems
<1>5. ThreadTypeOK'
  <2>1. jobs' \in [Threads -> Seq(Items)] /\ batch' \in [Threads -> Seq(Items)]
    BY <1>1, <1>2
  <2>2. async' \in [Threads -> BOOLEAN]
    BY <1>1, <1>2
  <2> QED
    BY <1>1, <2>1, <2>2 DEF ThreadInv, ThreadTypeOK, Items
<1>6. Queues'
  <2>1. ASSUME NEW u \in Threads
        PROVE  /\ Sound(u, jobs'[u], batch'[u])
               /\ Stop \in Elems(jobs'[u]) \cup Elems(batch'[u]) => life'[u] # "runs"
    <3>1. CASE u = t
      BY <1>1, <1>3, <1>4, <3>1 DEF ThreadInv, Queues
    <3>2. CASE u # t
      BY <1>1, <1>3, <3>2 DEF ThreadInv, Queues
    <3> QED
      BY <3>1, <3>2
  <2> QED
    BY <2>1 DEF Queues
<1>7. BulkSound'
  BY <1>1 DEF ThreadInv, BulkSound, WorkersLocked
<1>8. NoLostWakeup => NoLostWakeup'
  BY <1>1, <1>3 DEF NoLostWakeup
<1>9. ASSUME NEW c \in Conns, Follows(c)
      PROVE  Follows(c)'
  <2>1. CASE ThrOf[c] = t
    <3>1. \A o \in ReadOps : ~HasRead(<< >>, c, o)
      BY <1>4 DEF HasRead
    <3>2. Decides(<< >>, jobs[t], rio[c], c) <=> Decides(jobs[t], << >>, rio[c], c)
      BY <3>1 DEF Decides, ReadOps
    <3> QED
      BY <1>1, <1>3, <1>9, <2>1, <3>2 DEF Follows
  <2>2. CASE ThrOf[c] # t
    BY <1>1, <1>3, <1>9, <2>2, ThreadAssumption DEF Follows
  <2> QED
    BY <2>1, <2>2
<1> QED
  BY <1>5, <1>6, <1>7, <1>8, <1>9 DEF Keeps, ThreadInv

\* One task: the watcher takes over what the task decided.
LEMMA KeepsRun ==
    ASSUME ThreadInv, NEW t \in Threads, RunTask(t)
    PROVE  Keeps
<1> DEFINE B == batch[t]
           x == Head(B)
<1>1. /\ B # << >> /\ batch' = [batch EXCEPT ![t] = IF x[2] = "STOP" THEN << >> ELSE Tail(@)]
      /\ rio' = IF x[2] \in ReadOps THEN [rio EXCEPT ![x[1]] = x[2] = "START_READ"] ELSE rio
      /\ wio' = IF x[2] = "START_WRITE" THEN [wio EXCEPT ![x[1]] = TRUE] ELSE wio
      /\ life' = IF x[2] = "STOP" THEN [life EXCEPT ![t] = "stopped"] ELSE life
      /\ UNCHANGED <<jobs, async, bulk, request>>
  BY DEF RunTask
<1>2. /\ jobs \in [Threads -> Seq(Items)] /\ batch \in [Threads -> Seq(Items)]
      /\ rio \in [Conns -> BOOLEAN] /\ wio \in [Conns -> BOOLEAN]
      /\ life \in [Threads -> {"runs", "joining", "stopped"}]
  BY DEF ThreadInv, ThreadTypeOK, Items
<1>3. /\ Sound(t, jobs[t], B)
      /\ Stop \in Elems(B) => life[t] # "runs"
  BY DEF ThreadInv, Queues
<1>4. /\ Sound(t, jobs[t], Tail(B)) /\ x \in Items /\ x \in Elems(B)
      /\ Elems(Tail(B)) = Elems(B) \ {x}
      /\ x = Stop => Tail(B) = << >> /\ jobs[t] = << >>
  BY <1>1, <1>3, SoundPop
<1>5. /\ x = Stop => x[2] = "STOP"
      /\ x # Stop => /\ x = <<x[1], x[2]>> /\ x[1] \in Conns
                     /\ x[2] \in ReadOps \cup {"START_WRITE"} /\ x[2] # "STOP"
                     /\ ThrOf[x[1]] = t
  <2>1. x # Stop => ThrOf[x[1]] = t
    BY <1>3, <1>4 DEF Sound
  <2> QED
    BY <1>4, <2>1, TaskShape DEF Items, ReadOps
<1> HIDE DEF x
<1>6. batch' = [batch EXCEPT ![t] = Tail(B)]
  <2>1. (IF x[2] = "STOP" THEN << >> ELSE Tail(B)) = Tail(B)
    BY <1>4, <1>5
  <2> QED
    BY <1>1, <2>1
<1> HIDE DEF B
<1>7. batch'[t] = Tail(B) /\ \A u \in Threads : u # t => batch'[u] = batch[u]
  BY <1>2, <1>6
<1>8. ThreadTypeOK'
  <2>1. batch' \in [Threads -> Seq(Items)]
    BY <1>2, <1>4, <1>6 DEF Sound
  <2>2. rio' \in [Conns -> BOOLEAN]
    <3>1. CASE x[2] \in ReadOps
      <4>1. rio' = [rio EXCEPT ![x[1]] = x[2] = "START_READ"]
        BY <1>1, <3>1
      <4>2. (x[2] = "START_READ") \in BOOLEAN
        OBVIOUS
      <4> QED
        BY <1>2, <4>1, <4>2
    <3>2. CASE x[2] \notin ReadOps
      BY <1>1, <1>2, <3>2
    <3> QED
      BY <3>1, <3>2
  <2>3. wio' \in [Conns -> BOOLEAN]
    BY <1>1, <1>2
  <2>4. life' \in [Threads -> {"runs", "joining", "stopped"}]
    BY <1>1, <1>2
  <2> QED
    BY <1>1, <2>1, <2>2, <2>3, <2>4 DEF ThreadInv, ThreadTypeOK, Items
<1>9. \A u \in Threads : life'[u] = life[u] \/ (u = t /\ x = Stop /\ life'[u] = "stopped")
  BY <1>1, <1>2, <1>5
<1>10. Queues'
  <2>1. ASSUME NEW u \in Threads
        PROVE  /\ Sound(u, jobs'[u], batch'[u])
               /\ Stop \in Elems(jobs'[u]) \cup Elems(batch'[u]) => life'[u] # "runs"
    <3>1. CASE u = t
      <4>1. Stop \in Elems(jobs[t]) \cup Elems(B) => life[t] # "runs"
        BY DEF ThreadInv, Queues, B
      <4> QED
        BY <1>1, <1>4, <1>7, <1>9, <3>1, <4>1
    <3>2. CASE u # t
      BY <1>1, <1>7, <1>9, <3>2 DEF ThreadInv, Queues
    <3> QED
      BY <3>1, <3>2
  <2> QED
    BY <2>1 DEF Queues
<1>11. BulkSound'
  <2>1. WorkersLocked => x # Stop
    BY <1>3, <1>4 DEF ThreadInv, BulkSound, WorkersLocked
  <2> QED
    BY <1>1, <1>9, <2>1 DEF ThreadInv, BulkSound, WorkersLocked
<1>12. NoLostWakeup => NoLostWakeup'
  BY <1>1, <1>9 DEF NoLostWakeup
<1>13. ASSUME NEW c \in Conns, Follows(c)
       PROVE  Follows(c)'
  <2> SUFFICES Decides(jobs[ThrOf[c]], batch'[ThrOf[c]], rio'[c], c)
                  <=> Decides(jobs[ThrOf[c]], batch[ThrOf[c]], rio[c], c)
    BY <1>1, <1>13 DEF Follows
  <2>1. CASE x = Stop
    <3>1. rio' = rio
      BY <1>1, <1>5, <2>1 DEF ReadOps
    <3>2. CASE ThrOf[c] = t
      <4>1. \A o \in ReadOps : HasRead(Tail(B), c, o) <=> HasRead(B, c, o)
        BY <1>4, <2>1, TaskShape DEF HasRead
      <4> QED
        BY <1>7, <3>1, <3>2, <4>1 DEF Decides, ReadOps, B
    <3>3. CASE ThrOf[c] # t
      BY <1>7, <3>1, <3>3, ThreadAssumption
    <3> QED
      BY <3>2, <3>3
  <2>2. CASE x # Stop /\ ~(x[1] = c /\ x[2] \in ReadOps)
    <3>1. rio'[c] = rio[c]
      BY <1>1, <1>2, <2>2
    <3>2. CASE ThrOf[c] = t
      <4>1. \A o \in ReadOps : <<c, o>> # x
        BY <1>5, <2>2
      <4>2. \A o \in ReadOps : HasRead(Tail(B), c, o) <=> HasRead(B, c, o)
        BY <1>4, <4>1 DEF HasRead
      <4> QED
        BY <1>7, <3>1, <3>2, <4>2 DEF Decides, ReadOps, B
    <3>3. CASE ThrOf[c] # t
      BY <1>7, <3>1, <3>3, ThreadAssumption
    <3> QED
      BY <3>2, <3>3
  <2>3. CASE x # Stop /\ x[1] = c /\ x[2] \in ReadOps
    <3>1. ThrOf[c] = t /\ x = <<c, x[2]>>
      BY <1>5, <2>3
    <3>2. rio'[c] <=> x[2] = "START_READ"
      <4>1. rio' = [rio EXCEPT ![c] = x[2] = "START_READ"]
        BY <1>1, <2>3
      <4> QED
        BY <1>2, <4>1
    <3>3. \A o \in ReadOps : /\ HasRead(B, c, o) <=> o = x[2]
                             /\ ~HasRead(Tail(B), c, o)
      <4>1. HasRead(B, c, x[2])
        BY <1>4, <3>1 DEF HasRead
      <4>2. OneRead(B)
        BY <1>3 DEF Sound
      <4>3. \A o \in ReadOps : HasRead(B, c, o) => o = x[2]
        BY <2>3, <4>1, <4>2 DEF OneRead, ReadOps
      <4>4. ~HasRead(Tail(B), c, x[2])
        BY <1>4, <3>1 DEF HasRead
      <4>5. \A o \in ReadOps : HasRead(Tail(B), c, o) => HasRead(B, c, o)
        BY <1>4 DEF HasRead
      <4> QED
        BY <2>3, <4>1, <4>3, <4>4, <4>5
    <3>4. Decides(jobs[t], Tail(B), rio'[c], c) <=> Decides(jobs[t], B, rio[c], c)
      BY <2>3, <3>2, <3>3 DEF Decides, ReadOps
    <3> QED
      BY <1>7, <3>1, <3>4 DEF B
  <2> QED
    BY <2>1, <2>2, <2>3
<1> QED
  BY <1>8, <1>10, <1>11, <1>12, <1>13 DEF Keeps, ThreadInv

\* fsock_thread_schedule_task of a write task or, from fsock_thread_join, of
\* the stop item, on a thread that still runs.
LEMMA KeepsSchedule ==
    ASSUME ThreadInv, NEW t \in Threads, NEW x \in Items, ScheduleTask(t, x),
           life[t] = "runs", x \notin Elems(jobs[t]) \cup Elems(batch[t]),
           x # Stop => ThrOf[x[1]] = t /\ x[2] = "START_WRITE",
           UNCHANGED <<batch, rio, wio, bulk, request>>,
           life' = IF x = Stop THEN [life EXCEPT ![t] = "joining"] ELSE life
    PROVE  Keeps
<1> DEFINE R == Append(jobs[t], x)
<1>1. /\ ~WorkersLocked /\ jobs' = [jobs EXCEPT ![t] = R] /\ async' = [async EXCEPT ![t] = TRUE]
  BY DEF ScheduleTask
<1>2. /\ jobs \in [Threads -> Seq(Items)] /\ async \in [Threads -> BOOLEAN]
      /\ life \in [Threads -> {"runs", "joining", "stopped"}]
  BY DEF ThreadInv, ThreadTypeOK, Items
<1>3. Sound(t, jobs[t], batch[t]) /\ Stop \notin Elems(jobs[t]) \cup Elems(batch[t])
  BY DEF ThreadInv, Queues
<1>4. Sound(t, R, batch[t])
  BY <1>3, SoundPush
<1>5. R \in Seq(Items) /\ Elems(R) = Elems(jobs[t]) \cup {x}
  BY <1>3, ElemsAppend DEF Sound
<1> HIDE DEF R
<1>6. /\ jobs'[t] = R /\ async'[t] = TRUE
      /\ \A u \in Threads : u # t => jobs'[u] = jobs[u] /\ async'[u] = async[u] /\ life'[u] = life[u]
      /\ x # Stop => life' = life
      /\ x = Stop => life'[t] = "joining"
  BY <1>1, <1>2
<1>7. ThreadTypeOK'
  <2>1. jobs' \in [Threads -> Seq(Items)]
    BY <1>1, <1>2, <1>5
  <2>2. async' \in [Threads -> BOOLEAN]
    BY <1>1, <1>2
  <2>3. life' \in [Threads -> {"runs", "joining", "stopped"}]
    BY <1>2
  <2> QED
    BY <2>1, <2>2, <2>3 DEF ThreadInv, ThreadTypeOK, Items
<1>8. Queues'
  <2>1. ASSUME NEW u \in Threads
        PROVE  /\ Sound(u, jobs'[u], batch'[u])
               /\ Stop \in Elems(jobs'[u]) \cup Elems(batch'[u]) => life'[u] # "runs"
    <3>1. CASE u = t
      BY <1>3, <1>4, <1>5, <1>6, <3>1
    <3>2. CASE u # t
      BY <1>6, <3>2 DEF ThreadInv, Queues
    <3> QED
      BY <3>1, <3>2
  <2> QED
    BY <2>1 DEF Queues
<1>9. BulkSound'
  BY <1>1 DEF ThreadInv, BulkSound, WorkersLocked
<1>10. NoLostWakeup => NoLostWakeup'
  BY <1>6 DEF NoLostWakeup
<1>11. ASSUME NEW c \in Conns, Follows(c)
       PROVE  Follows(c)'
  <2>1. CASE ThrOf[c] = t
    <3>1. \A o \in ReadOps : <<c, o>> # x
      BY TaskShape DEF ReadOps
    <3>2. \A o \in ReadOps : HasRead(R, c, o) <=> HasRead(jobs[t], c, o)
      BY <1>5, <3>1 DEF HasRead
    <3>3. Decides(R, batch[t], rio[c], c) <=> Decides(jobs[t], batch[t], rio[c], c)
      BY <3>2 DEF Decides, ReadOps
    <3> QED
      BY <1>6, <1>11, <2>1, <3>3 DEF Follows
  <2>2. CASE ThrOf[c] # t
    BY <1>6, <1>11, <2>2, ThreadAssumption DEF Follows
  <2> QED
    BY <2>1, <2>2
<1> QED
  BY <1>7, <1>8, <1>9, <1>10, <1>11 DEF Keeps, ThreadInv

\* The stop path of the read handler switches the watchers of its own
\* connection only.
LEMMA ClosedConnInv ==
    ASSUME ThreadInv, NEW c \in Conns, rio' = [rio EXCEPT ![c] = FALSE],
           wio' = [wio EXCEPT ![c] = FALSE],
           UNCHANGED <<jobs, batch, async, bulk, request, life>>
    PROVE  /\ ThreadInv'
           /\ NoLostWakeup => NoLostWakeup'
           /\ \A d \in Conns : d # c => (Follows(d) => Follows(d)')
<1>1. rio \in [Conns -> BOOLEAN] /\ wio \in [Conns -> BOOLEAN]
  BY DEF ThreadInv, ThreadTypeOK
<1>2. rio' \in [Conns -> BOOLEAN] /\ wio' \in [Conns -> BOOLEAN]
  BY <1>1
<1>3. \A d \in Conns : d # c => rio'[d] = rio[d]
  BY <1>1
<1>4. ThreadTypeOK'
  BY <1>2 DEF ThreadInv, ThreadTypeOK
<1>5. Queues' /\ BulkSound' /\ (NoLostWakeup => NoLostWakeup')
  BY DEF ThreadInv, Queues, BulkSound, WorkersLocked, NoLostWakeup
<1>6. \A d \in Conns : d # c => (Follows(d) => Follows(d)')
  BY <1>3 DEF Follows
<1> QED
  BY <1>4, <1>5, <1>6 DEF ThreadInv

-----------------------------------------------------------------------------
(* The threads by themselves.                                              *)

ThreadIInv == ThreadInv /\ NoLostWakeup /\ \A c \in Conns : Follows(c)

\* Every step of the workers, of the bulk loop and of their environment preserves the
\* invariant.
LEMMA ThreadNextInv == ThreadIInv /\ [ThreadNext]_threadVars => ThreadIInv'
<1> SUFFICES ASSUME ThreadIInv, [ThreadNext]_threadVars
             PROVE  Keeps
  BY DEF ThreadIInv, Keeps
<1>0. ThreadInv
  BY DEF ThreadIInv
<1>1. ASSUME NEW op \in ReadOps, Request(op)
      PROVE  Keeps
  BY <1>0, <1>1, KeepsBulkBegin DEF Request
<1>2. CASE BulkStep
  BY <1>0, <1>2, KeepsBulkStep
<1>3. CASE BulkUnlock \/ BulkEnd
  BY <1>0, <1>3, KeepsBulkUnlock, KeepsBulkEnd
<1>4. ASSUME NEW c \in Conns, StartWrite(c)
      PROVE  Keeps
  <2> DEFINE x == <<c, "START_WRITE">>
             t == ThrOf[c]
  <2>1. /\ t \in Threads /\ x \in Items /\ x # Stop /\ x[1] = c /\ x[2] = "START_WRITE"
    BY ThreadAssumption, TaskShape
  <2>2. /\ x \notin Elems(jobs[t]) \cup Elems(batch[t]) /\ life[t] = "runs"
        /\ ScheduleTask(t, x) /\ UNCHANGED <<batch, rio, wio, bulk, request, life>>
    BY <1>4 DEF StartWrite, IsInQueue
  <2> HIDE DEF x, t
  <2>3. life' = IF x = Stop THEN [life EXCEPT ![t] = "joining"] ELSE life
    BY <2>1, <2>2
  <2> QED
    BY <1>0, <2>1, <2>2, <2>3, KeepsSchedule DEF t
<1>5. ASSUME NEW c \in Conns, StopWrite(c)
      PROVE  Keeps
  <2>1. wio' \in [Conns -> BOOLEAN]
    BY <1>0, <1>5 DEF StopWrite, ThreadInv, ThreadTypeOK
  <2> QED
    BY <1>0, <1>5, <2>1, KeepsIdle DEF StopWrite
<1>6. ASSUME NEW t \in Threads, AsyncRoutine(t)
      PROVE  Keeps
  BY <1>0, <1>6, KeepsAsync
<1>7. ASSUME NEW t \in Threads, RunTask(t)
      PROVE  Keeps
  BY <1>0, <1>7, KeepsRun
<1>8. ASSUME NEW t \in Threads, Join(t)
      PROVE  Keeps
  <2>1. Stop \in Items /\ Stop \notin Elems(jobs[t]) \cup Elems(batch[t])
    BY <1>0, <1>8 DEF Join, ThreadInv, Queues, Items
  <2>2. life' = IF Stop = Stop THEN [life EXCEPT ![t] = "joining"] ELSE life
    BY <1>8 DEF Join
  <2> QED
    BY <1>0, <1>8, <2>1, <2>2, KeepsSchedule DEF Join
<1>9. CASE UNCHANGED threadVars
  BY <1>0, <1>9, KeepsIdle DEF threadVars, ThreadInv, ThreadTypeOK
<1> QED
  BY <1>1, <1>2, <1>3, <1>4, <1>5, <1>6, <1>7, <1>8, <1>9 DEF ThreadNext

\* The inductive invariant holds in every reachable state.
LEMMA ThreadInvariant == ThreadSpec => []ThreadIInv
<1>1. ThreadInit => ThreadIInv
  BY ThreadInitInv DEF ThreadIInv
<1> QED
  BY <1>1, ThreadNextInv, PTL DEF ThreadSpec

\* Every queue item is in at most one queue of its thread, once, so that the
\* assertions of fsock_queue_push hold, and a connection has at most one read
\* task in jobs, for every number of connections and threads.
THEOREM ItemsQueuedOnce == ThreadSpec => []QueuedOnce
<1>1. ThreadIInv => QueuedOnce
  BY QueuesQueuedOnce DEF ThreadIInv
<1> QED
  BY <1>1, ThreadInvariant, PTL

\* The last stop or start asked of all connections wins on each of them,
\* although the bulk loop takes a task of the running batch for one that is
\* still to come.
THEOREM LastRequestHolds == ThreadSpec => []LastRequest
<1>1. ThreadIInv => LastRequest
  BY FollowsIff DEF ThreadIInv, LastRequest
<1> QED
  BY <1>1, ThreadInvariant, PTL

\* No job is left in the queue of a sleeping event loop.
THEOREM NoWakeupLost == ThreadSpec => []NoLostWakeup
<1>1. ThreadIInv => NoLostWakeup
  BY DEF ThreadIInv
<1> QED
  BY <1>1, ThreadInvariant, PTL
=============================================================================
