--------------------------- MODULE RecvPathProofs ---------------------------
(***************************************************************************)
(* The receive path, for every number of connections, threads and frames,  *)
(* every high water mark, every pattern of failing allocations and         *)
(* whatever the uninitialised cnt starts with: the watchers follow the     *)
(* stop flag, events are handed out once and in order, a waiting           *)
(* fsock_get_event misses no signal, and the whole implements FrameStream. *)
(* As long as no cnt started with a value other than zero, the events are  *)
(* also complete and counted exactly, and no signal is one too many.       *)
(***************************************************************************)
EXTENDS RecvPath, FsockThreadProofs

-----------------------------------------------------------------------------
(* The watchers and the stop flag.                                         *)

\* Nobody joins the threads while the socket is in use.
AllRun == \A t \in Threads : life[t] = "runs"

\* The watchers of open connections follow the last request, and the stop flag
\* says which one that was.
Governed ==
    /\ ThreadInv /\ NoLostWakeup /\ AllRun
    /\ zombie \in [Conns -> BOOLEAN]
    /\ \A c \in Conns : ~zombie[c] => Follows(c)
    /\ reading \in {0, STOP_OP}
    /\ reading = STOP_OP <=> request = "STOP_READ"

\* A step that keeps what the threads keep and touches neither flag.
LEMMA GovernedKeeps ==
    ASSUME Governed, Keeps, UNCHANGED <<life, zombie, reading, request>>
    PROVE  Governed'
  BY DEF Governed, Keeps, AllRun

\* A step that touches neither the workers nor reading keeps the watchers governed.
LEMMA GovernedIdle ==
    ASSUME Governed, UNCHANGED <<threadVars, zombie, reading>>
    PROVE  Governed'
<1>1. Keeps
  BY KeepsIdle DEF Governed, ThreadInv, ThreadTypeOK, threadVars
<1> QED
  BY <1>1, GovernedKeeps DEF threadVars

\* The stop path of the read handler.
LEMMA GovernedClose ==
    ASSUME Governed, NEW c \in Conns, CloseConn(c), UNCHANGED reading
    PROVE  Governed'
<1>1. /\ rio' = [rio EXCEPT ![c] = FALSE] /\ wio' = [wio EXCEPT ![c] = FALSE]
      /\ zombie' = [zombie EXCEPT ![c] = TRUE]
      /\ UNCHANGED <<jobs, batch, async, bulk, request, life>>
  BY DEF CloseConn
<1>2. /\ ThreadInv' /\ NoLostWakeup'
      /\ \A d \in Conns : d # c => (Follows(d) => Follows(d)')
  BY <1>1, ClosedConnInv DEF Governed
<1>3. zombie' \in [Conns -> BOOLEAN] /\ zombie'[c] /\ \A d \in Conns : d # c => zombie'[d] = zombie[d]
  BY <1>1 DEF Governed
<1>4. \A d \in Conns : ~zombie'[d] => Follows(d)'
  BY <1>2, <1>3 DEF Governed
<1> QED
  BY <1>1, <1>2, <1>3, <1>4 DEF Governed, AllRun

\* The start of a bulk loop together with the flag that asks for it.
LEMMA GovernedBulkBegin ==
    ASSUME Governed, NEW op \in ReadOps, BulkBegin(op),
           reading' = IF op = "STOP_READ" THEN STOP_OP ELSE 0,
           UNCHANGED <<jobs, batch, async, rio, wio, life, zombie>>
    PROVE  Governed'
<1>1. Keeps
  BY KeepsBulkBegin DEF Governed, AllRun
<1>2. reading' \in {0, STOP_OP} /\ (reading' = STOP_OP <=> request' = "STOP_READ")
  BY DEF BulkBegin, ReadOps, STOP_OP
<1>3. \A c \in Conns : Follows(c)'
  <2>1. bulk'.on = TRUE /\ bulk'.i = 1
    BY DEF BulkBegin
  <2> QED
    BY <2>1, ThreadAssumption DEF Follows, Conns
<1> QED
  BY <1>1, <1>2, <1>3 DEF Governed, Keeps, AllRun

\* A task that is run moves one watcher to what its queued request asked for.
LEMMA GovernedRun ==
    ASSUME Governed, NEW t \in Threads, RunTask(t), UNCHANGED <<zombie, reading>>
    PROVE  Governed'
<1>1. Keeps
  BY KeepsRun DEF Governed
<1>2. Head(batch[t]) # Stop /\ Head(batch[t]) \in Items
  <2>1. batch[t] # << >> /\ Sound(t, jobs[t], batch[t])
    BY DEF RunTask, Governed, ThreadInv, Queues
  <2>2. Head(batch[t]) \in Elems(batch[t]) /\ Head(batch[t]) \in Items
    BY <2>1, SoundPop
  <2> QED
    BY <2>2 DEF Governed, ThreadInv, Queues, AllRun
<1>3. Head(batch[t])[2] # "STOP"
  BY <1>2, TaskShape DEF Items, ReadOps
<1>4. UNCHANGED <<life, request>>
  BY <1>3 DEF RunTask
<1> QED
  BY <1>1, <1>4, GovernedKeeps

\* Every step keeps the read watchers in line with sock->reading.
LEMMA GovernedNext ==
    ASSUME Governed, [Next]_vars
    PROVE  Governed'
<1> USE DEF peerVars, connVars, sockVars
<1>1. ASSUME NEW c \in Conns, Peer(c)
      PROVE  Governed'
  BY <1>1, GovernedIdle DEF Peer, PeerSend, PeerEnd
<1>2. ASSUME NEW c \in Conns, Handlers(c)
      PROVE  Governed'
  <2>1. CASE Read(c)
    BY <2>1, GovernedIdle DEF Read
  <2>2. CASE ReadEof(c)
    BY <2>2, GovernedClose DEF ReadEof
  <2>3. CASE ReadBad(c)
    BY <2>3, GovernedClose DEF ReadBad
  <2>4. CASE ReadError(c)
    <3>1. CASE CloseConn(c)
      BY <2>4, <3>1, GovernedClose DEF ReadError
    <3>2. CASE UNCHANGED <<threadVars, zombie>>
      BY <2>4, <3>2, GovernedIdle DEF ReadError
    <3> QED
      BY <2>4, <3>1, <3>2 DEF ReadError
  <2> QED
    BY <1>2, <2>1, <2>2, <2>3, <2>4 DEF Handlers
<1>3. ASSUME NEW t \in Threads, Deliver(t)
      PROVE  Governed'
  <2>1. /\ UNCHANGED <<jobs, batch, async, rio, wio, life, zombie>>
    BY <1>3 DEF Deliver
  <2>2. CASE AboveHwm(rcvqsz')
    <3>1. BulkBegin("STOP_READ") /\ reading' = STOP_OP
      BY <1>3, <2>2 DEF Deliver
    <3> QED
      BY <2>1, <3>1, GovernedBulkBegin DEF ReadOps
  <2>3. CASE ~AboveHwm(rcvqsz')
    <3>1. UNCHANGED <<reading, bulk, request>>
      BY <1>3, <2>3 DEF Deliver
    <3> QED
      BY <2>1, <3>1, GovernedIdle DEF threadVars
  <2> QED
    BY <2>2, <2>3
<1>4. ASSUME NEW t \in Threads, Run(t)
      PROVE  Governed'
  BY <1>4, GovernedRun DEF Run
<1>5. ASSUME NEW t \in Threads, Jobs(t)
      PROVE  Governed'
  <2>1. Keeps
    BY <1>5, KeepsAsync DEF Jobs, Async, Governed
  <2> QED
    BY <1>5, <2>1, GovernedKeeps DEF Jobs, Async, AsyncRoutine
<1>6. CASE Bulk
  <2>1. CASE BulkLoop
    <3>1. Keeps
      BY <2>1, KeepsBulkStep DEF BulkLoop, Governed
    <3> QED
      BY <2>1, <3>1, GovernedKeeps DEF BulkLoop, BulkStep
  <2>2. CASE BulkFree
    <3>1. Keeps
      BY <2>2, KeepsBulkUnlock DEF BulkFree, Governed
    <3> QED
      BY <2>2, <3>1, GovernedKeeps DEF BulkFree, BulkUnlock
  <2>3. CASE BulkReturn
    <3>1. Keeps
      BY <2>3, KeepsBulkEnd DEF BulkReturn, Governed
    <3> QED
      BY <2>3, <3>1, GovernedKeeps DEF BulkReturn, BulkEnd
  <2> QED
    BY <1>6, <2>1, <2>2, <2>3 DEF Bulk
<1>7. ASSUME TakeEvent
      PROVE  Governed'
  <2>1. UNCHANGED <<jobs, batch, async, rio, wio, life, zombie>>
    BY <1>7 DEF TakeEvent
  <2>2. CASE BelowHwm(rcvqsz - 1)
    <3>1. BulkBegin("START_READ") /\ reading' = 0
      BY <1>7, <2>2 DEF TakeEvent
    <3> QED
      BY <2>1, <3>1, GovernedBulkBegin DEF ReadOps
  <2>3. CASE ~BelowHwm(rcvqsz - 1)
    <3>1. UNCHANGED <<reading, bulk, request>>
      BY <1>7, <2>3 DEF TakeEvent
    <3> QED
      BY <2>1, <3>1, GovernedIdle DEF threadVars
  <2> QED
    BY <2>2, <2>3
<1>8. CASE Consumer
  <2>1. CASE GetEvent
    BY <1>7, <2>1 DEF GetEvent
  <2>2. CASE GetEventWait \/ Woken
    BY <2>2, GovernedIdle DEF GetEventWait, Woken
  <2>3. CASE GetEventWoken
    <3>1. CASE ev = << >>
      BY <2>3, <3>1, GovernedIdle DEF GetEventWoken
    <3>2. CASE ev # << >>
      BY <1>7, <2>3, <3>2 DEF GetEventWoken
    <3> QED
      BY <3>1, <3>2
  <2> QED
    BY <1>8, <2>1, <2>2, <2>3 DEF Consumer
<1>9. CASE CutShort
  BY <1>9, GovernedIdle DEF CutShort, TimeOut, Interrupted
<1>10. CASE UNCHANGED vars
  BY <1>10, GovernedIdle DEF vars
<1> QED
  BY <1>1, <1>2, <1>3, <1>4, <1>5, <1>6, <1>8, <1>9, <1>10 DEF Next, Worker

-----------------------------------------------------------------------------
(* Types, and where the frames are.                                        *)
Event == Conns \X (1..MaxFrames)
Handler == [pc : {"idle", "deliver", "bulk"}, c : 0..NConns, base : 0..MaxFrames,
            n : 0..MaxFrames, cnt : Int]

PeersOK == /\ sent \in [Conns -> 0..MaxFrames]
           /\ ending \in [Conns -> {"open", "fin", "bad", "rst"}]
ConnsOK == /\ rd \in [Conns -> 0..MaxFrames] /\ part \in [Conns -> BOOLEAN]
           /\ left \in [Conns -> 0..MaxFrames]
HandlersOK == rh \in [Threads -> Handler]
EventsOK == ev \in Seq(Event) /\ evtail \in BOOLEAN /\ rcvqsz \in Int
WaitOK == wantEfd \in {0, 1} /\ efd \in Nat /\ cpc \in {"idle", "wait", "woken", "bulk"}
HistoryOK == /\ got \in [Conns -> Seq(1..MaxFrames)] /\ cutShort \in BOOLEAN
             /\ aborted \in BOOLEAN
HarmOK == lost \in [Conns -> SUBSET (1..MaxFrames)] /\ miscounted \in BOOLEAN

\* Reading never runs ahead of the peer, and a frame that is lost was taken from
\* the parser.
ReadPlaced == \A c \in Conns :
    /\ rd[c] <= sent[c] /\ left[c] <= rd[c]
    /\ \A f \in lost[c] : f <= rd[c] - left[c]

\* Of h frames taken from the parser, without those in X, the last n are the ones
\* behind frame b.
Holds(h, X, b, n) ==
    /\ b + n <= h
    /\ \A f \in (b + 1)..h : f \in X <=> b + n < f

\* A delivering handler runs on the thread of its connection and holds the last
\* frames taken from its parser.
HandlerPlaced == \A t \in Threads : rh[t].pc = "deliver" =>
    /\ rh[t].c \in Conns /\ ThrOf[rh[t].c] = t
    /\ Holds(rd[rh[t].c] - left[rh[t].c], lost[rh[t].c], rh[t].base, rh[t].n)

Placed == /\ PeersOK /\ ConnsOK /\ HandlersOK /\ EventsOK /\ WaitOK /\ HistoryOK /\ HarmOK
          /\ ReadPlaced /\ HandlerPlaced

\* Both parts together give the type invariant.
LEMMA PlacedTypes ==
    ASSUME Governed, Placed
    PROVE  RecvTypeOK
  BY DEF Governed, ThreadInv, Placed, PeersOK, ConnsOK, HandlersOK, EventsOK, WaitOK,
         HistoryOK, HarmOK, RecvTypeOK, Event, Handler

\* The frames in the hands of the handler are frames of its connection.
LEMMA LocalType ==
    ASSUME Placed, NEW t \in Threads, rh[t].pc = "deliver"
    PROVE  /\ Local(t) \in Seq(Event) /\ Len(Local(t)) = rh[t].n /\ rh[t].n \in Nat
           /\ \A k \in 1..rh[t].n : /\ Local(t)[k] = <<rh[t].c, rh[t].base + k>>
                                    /\ rh[t].base + k \in 1..MaxFrames
<1> DEFINE c == rh[t].c
           b == rh[t].base
           n == rh[t].n
           L == Local(t)
<1>1. /\ c \in Conns /\ n \in Nat /\ b \in Nat /\ rd[c] \in 0..MaxFrames
      /\ left[c] \in 0..MaxFrames /\ b + n <= rd[c] - left[c]
  BY RecvAssumption DEF Placed, HandlerPlaced, Holds, HandlersOK, Handler, ConnsOK
<1>2. L = [k \in 1..n |-> <<c, b + k>>]
  BY DEF Local
<1>3. MaxFrames \in Nat
  BY RecvAssumption
<1> HIDE DEF c, b, n, L
<1>4. \A k \in 1..n : b + k \in 1..MaxFrames
  BY <1>1, <1>3
<1>5. \A k \in 1..n : <<c, b + k>> \in Event
  BY <1>1, <1>4 DEF Event
<1>6. L \in Seq(Event)
  <2>1. L \in [1..n -> Event]
    BY <1>2, <1>5
  <2> QED
    BY <1>1, <2>1
<1>7. Len(L) = n
  BY <1>1, <1>2, <1>6
<1> QED
  BY <1>1, <1>2, <1>4, <1>6, <1>7 DEF c, b, n, L

\* What a peer does changes only what is on the way to the read handler.
LEMMA PlacedPeer ==
    ASSUME Placed, NEW c \in Conns, PeerSend(c) \/ PeerEnd(c)
    PROVE  Placed'
<1> USE DEF connVars, sockVars, history, harm
<1>1. PeersOK'
  BY RecvAssumption DEF PeerSend, PeerEnd, Placed, PeersOK
<1>2. ReadPlaced'
  <2>1. CASE PeerSend(c)
    BY <2>1, RecvAssumption DEF PeerSend, Placed, PeersOK, ConnsOK, ReadPlaced
  <2>2. CASE PeerEnd(c)
    BY <2>2, RecvAssumption DEF PeerEnd, Placed, PeersOK, ConnsOK, ReadPlaced
  <2> QED
    BY <2>1, <2>2
<1>3. UNCHANGED <<rd, part, left, rh, ev, evtail, rcvqsz, wantEfd, efd, cpc, got, cutShort,
                  lost, miscounted, aborted>>
  BY DEF PeerSend, PeerEnd
<1> QED
  BY <1>1, <1>2, <1>3 DEF Placed, ConnsOK, HandlersOK, EventsOK, WaitOK, HistoryOK, HarmOK,
                          HandlerPlaced, Holds

\* What the loop over parser.in_frames does: the frames behind b, the last one
\* taken before, are n for the handler and at most one lost.
LEMMA Taken ==
    ASSUME Placed, NEW c \in Conns, NEW new \in Nat, TakeFrames(c, new), UNCHANGED sent,
           rd' \in [Conns -> 0..MaxFrames], rd'[c] = rd[c] + new, rd'[c] <= sent[c],
           \A d \in Conns : d # c => rd'[d] = rd[d]
    PROVE  /\ left' \in [Conns -> 0..MaxFrames] /\ HarmOK'
           /\ \A d \in Conns : d # c => left'[d] = left[d] /\ lost'[d] = lost[d]
           /\ lost' = lost \/ \E f \in 1..sent[c] : /\ rd[c] - left[c] < f
                                                   /\ lost' = [lost EXCEPT ![c] = @ \cup {f}]
           /\ ReadPlaced'
           /\ \E n \in 0..MaxFrames, u \in UninitCnt :
                /\ rh' = [rh EXCEPT ![ThrOf[c]] =
                            [pc |-> "deliver", c |-> c, base |-> rd[c] - left[c], n |-> n,
                             cnt |-> u + n]]
                /\ Holds(rd'[c] - left'[c], lost'[c], rd[c] - left[c], n)
                /\ miscounted' = (miscounted \/ u # 0)
<1>1. PICK b \in Int, h \in Int : b = rd[c] - left[c] /\ h = left[c] + new
  <2>1. rd[c] \in Int /\ left[c] \in Int
    BY RecvAssumption DEF Placed, ConnsOK
  <2> QED
    BY <2>1
<1>2. PICK n \in 0..h, u \in UninitCnt :
         /\ left' = [left EXCEPT ![c] = IF n < h THEN h - n - 1 ELSE 0]
         /\ lost' = IF n < h THEN [lost EXCEPT ![c] = @ \cup {b + n + 1}] ELSE lost
         /\ rh' = [rh EXCEPT ![ThrOf[c]] = [pc |-> "deliver", c |-> c, base |-> b,
                                            n |-> n, cnt |-> u + n]]
         /\ miscounted' = (miscounted \/ u # 0)
  BY <1>1 DEF TakeFrames
<1>3. /\ rd \in [Conns -> 0..MaxFrames] /\ left \in [Conns -> 0..MaxFrames] /\ MaxFrames \in Nat
      /\ sent \in [Conns -> 0..MaxFrames] /\ lost \in [Conns -> SUBSET (1..MaxFrames)]
      /\ left[c] <= rd[c] /\ \A f \in lost[c] : f <= b
  BY <1>1, RecvAssumption DEF Placed, PeersOK, ConnsOK, HarmOK, ReadPlaced
<1>4. b \in Nat /\ h \in Nat /\ n \in 0..MaxFrames /\ rd'[c] = b + h /\ b + h <= MaxFrames
  BY <1>1, <1>2, <1>3
<1>5. /\ left'[c] = (IF n < h THEN h - n - 1 ELSE 0) /\ left' \in [Conns -> 0..MaxFrames]
      /\ \A d \in Conns : d # c => left'[d] = left[d]
  BY <1>2, <1>3, <1>4
<1>6. /\ lost'[c] = (IF n < h THEN lost[c] \cup {b + n + 1} ELSE lost[c])
      /\ lost' \in [Conns -> SUBSET (1..MaxFrames)]
      /\ \A d \in Conns : d # c => lost'[d] = lost[d]
  <2>1. CASE n < h
    <3>1. b + n + 1 \in 1..MaxFrames
      BY <1>3, <1>4, <2>1
    <3>2. lost[c] \cup {b + n + 1} \in SUBSET (1..MaxFrames)
      <4>1. lost[c] \in SUBSET (1..MaxFrames)
        BY <1>3
      <4>2. lost[c] \subseteq 1..MaxFrames
        BY <4>1
      <4> QED
        BY <3>1, <4>2
    <3> QED
      BY <1>2, <1>3, <2>1, <3>2
  <2>2. CASE ~(n < h)
    BY <1>2, <1>3, <2>2
  <2> QED
    BY <2>1, <2>2
<1>7. miscounted' \in BOOLEAN
  BY <1>2
<1>8. rd'[c] - left'[c] = IF n < h THEN b + n + 1 ELSE b + n
  BY <1>2, <1>4, <1>5
<1>9. /\ b + n <= rd'[c] - left'[c] /\ left'[c] <= rd'[c]
      /\ \A f \in lost'[c] : f <= rd'[c] - left'[c]
      /\ \A f \in (b + 1)..(rd'[c] - left'[c]) : f \in lost'[c] <=> b + n < f
  <2>1. CASE n < h
    <3>1. rd'[c] - left'[c] = b + n + 1 /\ lost'[c] = lost[c] \cup {b + n + 1}
      BY <1>6, <1>8, <2>1
    <3>2. \A f \in lost[c] : f \in Int /\ f <= b
      BY <1>3
    <3> QED
      BY <1>4, <1>5, <3>1, <3>2
  <2>2. CASE ~(n < h)
    <3>1. rd'[c] - left'[c] = b + n /\ lost'[c] = lost[c]
      BY <1>6, <1>8, <2>2
    <3>2. \A f \in lost[c] : f \in Int /\ f <= b
      BY <1>3
    <3> QED
      BY <1>4, <1>5, <3>1, <3>2
  <2> QED
    BY <2>1, <2>2
<1>10. ReadPlaced'
  <2> SUFFICES ASSUME NEW d \in Conns
               PROVE  /\ rd'[d] <= sent[d] /\ left'[d] <= rd'[d]
                      /\ \A f \in lost'[d] : f <= rd'[d] - left'[d]
    BY DEF ReadPlaced
  <2>1. CASE d = c
    BY <1>9, <2>1
  <2>2. CASE d # c
    BY <1>5, <1>6, <2>2 DEF Placed, ReadPlaced
  <2> QED
    BY <2>1, <2>2
<1>11. lost' = lost \/ \E f \in 1..sent[c] : /\ b < f
                                            /\ lost' = [lost EXCEPT ![c] = @ \cup {f}]
  <2>1. CASE n < h
    <3>1. b + n + 1 \in 1..sent[c] /\ b < b + n + 1
      BY <1>3, <1>4, <2>1
    <3> QED
      BY <1>2, <2>1, <3>1
  <2>2. CASE ~(n < h)
    BY <1>2, <2>2
  <2> QED
    BY <2>1, <2>2
<1>12. Holds(rd'[c] - left'[c], lost'[c], b, n)
  BY <1>9 DEF Holds
<1> QED
  BY <1>1, <1>2, <1>4, <1>5, <1>6, <1>7, <1>10, <1>11, <1>12 DEF HarmOK

\* So the handler is placed, and the others are where they were.
LEMMA PlacedFrames ==
    ASSUME Placed, NEW c \in Conns, NEW new \in Nat, TakeFrames(c, new), UNCHANGED sent,
           rd' \in [Conns -> 0..MaxFrames], rd'[c] = rd[c] + new, rd'[c] <= sent[c],
           \A d \in Conns : d # c => rd'[d] = rd[d],
           part' \in [Conns -> BOOLEAN]
    PROVE  ConnsOK' /\ HandlersOK' /\ HarmOK' /\ ReadPlaced' /\ HandlerPlaced'
<1> DEFINE t == ThrOf[c]
<1>1. /\ left' \in [Conns -> 0..MaxFrames] /\ HarmOK' /\ ReadPlaced'
      /\ \A d \in Conns : d # c => left'[d] = left[d] /\ lost'[d] = lost[d]
  BY Taken
<1>2. PICK b : b = rd[c] - left[c]
  OBVIOUS
<1>3. PICK n \in 0..MaxFrames, u \in UninitCnt :
         /\ rh' = [rh EXCEPT ![t] = [pc |-> "deliver", c |-> c, base |-> b, n |-> n,
                                     cnt |-> u + n]]
         /\ Holds(rd'[c] - left'[c], lost'[c], b, n)
         /\ miscounted' = (miscounted \/ u # 0)
  BY <1>2, Taken
<1>4. /\ t \in Threads /\ rh \in [Threads -> Handler] /\ u \in Int /\ MaxFrames \in Nat
      /\ b \in 0..MaxFrames
  BY <1>2, ThreadAssumption, RecvAssumption DEF Placed, HandlersOK, ConnsOK, ReadPlaced
<1>5. ConnsOK'
  BY <1>1 DEF ConnsOK
<1>6. [pc |-> "deliver", c |-> c, base |-> b, n |-> n, cnt |-> u + n] \in Handler
  BY <1>4, ThreadAssumption DEF Handler, Conns
<1>7. HandlersOK'
  BY <1>3, <1>4, <1>6 DEF HandlersOK
<1>9. HandlerPlaced'
  <2> SUFFICES ASSUME NEW v \in Threads, rh'[v].pc = "deliver"
               PROVE  /\ rh'[v].c \in Conns /\ ThrOf[rh'[v].c] = v
                      /\ Holds(rd'[rh'[v].c] - left'[rh'[v].c], lost'[rh'[v].c], rh'[v].base, rh'[v].n)
    BY DEF HandlerPlaced
  <2>1. CASE v = t
    <3>1. rh'[v].c = c /\ rh'[v].n = n /\ rh'[v].base = b
      BY <1>3, <1>4, <2>1
    <3> QED
      BY <1>3, <2>1, <3>1
  <2>2. CASE v # t
    <3>1. rh'[v] = rh[v]
      BY <1>3, <1>4, <2>2
    <3>2. /\ rh[v].c \in Conns /\ ThrOf[rh[v].c] = v
          /\ Holds(rd[rh[v].c] - left[rh[v].c], lost[rh[v].c], rh[v].base, rh[v].n)
      BY <3>1 DEF Placed, HandlerPlaced
    <3>3. rh[v].c # c
      BY <2>2, <3>2
    <3> QED
      BY <1>1, <3>1, <3>2, <3>3
  <2> QED
    BY <2>1, <2>2
<1> QED
  BY <1>1, <1>5, <1>7, <1>9

\* A read places whole frames in the handler's local queue.
LEMMA PlacedRead ==
    ASSUME Placed, NEW c \in Conns, Read(c)
    PROVE  Placed'
<1> USE DEF peerVars, sockVars, history
<1>1. PICK n \in 0..MaxChunk, p \in BOOLEAN :
         /\ n <= Avail(c) /\ rd' = [rd EXCEPT ![c] = @ + n] /\ part' = [part EXCEPT ![c] = p]
         /\ TakeFrames(c, n)
  BY DEF Read
<1>2. UNCHANGED <<sent, ending, ev, evtail, rcvqsz, wantEfd, efd, cpc, got, cutShort, aborted>>
  BY DEF Read
<1>3. /\ n \in Nat /\ sent[c] \in 0..MaxFrames /\ rd[c] \in 0..MaxFrames /\ MaxFrames \in Nat
      /\ Avail(c) = sent[c] - rd[c]
      /\ rd \in [Conns -> 0..MaxFrames] /\ part \in [Conns -> BOOLEAN]
  BY RecvAssumption DEF Placed, PeersOK, ConnsOK, Avail
<1>4. rd[c] + n \in 0..MaxFrames /\ rd[c] + n <= sent[c]
  BY <1>1, <1>3
<1>5. /\ rd' \in [Conns -> 0..MaxFrames] /\ rd'[c] = rd[c] + n /\ rd'[c] <= sent[c]
      /\ \A d \in Conns : d # c => rd'[d] = rd[d]
  BY <1>1, <1>3, <1>4
<1>6. part' \in [Conns -> BOOLEAN]
  BY <1>1, <1>3
<1>7. ConnsOK' /\ HandlersOK' /\ HarmOK' /\ ReadPlaced' /\ HandlerPlaced'
  BY <1>1, <1>2, <1>3, <1>5, <1>6, PlacedFrames
<1> QED
  BY <1>2, <1>7 DEF Placed, PeersOK, EventsOK, WaitOK, HistoryOK

\* A failing read leaves the handler with what it finds in the parser, or ends it.
LEMMA PlacedError ==
    ASSUME Placed, NEW c \in Conns, ReadError(c)
    PROVE  Placed'
<1> USE DEF sockVars, history, harm
<1>1. /\ ending' = [ending EXCEPT ![c] = "fin"]
      /\ UNCHANGED <<sent, rd, part, ev, evtail, rcvqsz, wantEfd, efd, cpc, got, cutShort, aborted>>
  BY DEF ReadError
<1>2. PeersOK'
  BY <1>1 DEF Placed, PeersOK
<1>3. CASE TakeFrames(c, 0)
  <2>1. /\ rd' \in [Conns -> 0..MaxFrames] /\ part' \in [Conns -> BOOLEAN]
        /\ rd'[c] = rd[c] + 0 /\ rd'[c] <= sent[c]
    BY <1>1, RecvAssumption DEF Placed, ConnsOK, ReadPlaced
  <2>2. ConnsOK' /\ HandlersOK' /\ HarmOK' /\ ReadPlaced' /\ HandlerPlaced'
    BY <1>1, <1>3, <2>1, PlacedFrames
  <2> QED
    BY <1>1, <1>2, <2>2 DEF Placed, EventsOK, WaitOK, HistoryOK
<1>4. CASE UNCHANGED <<left, rh, harm>>
  BY <1>1, <1>2, <1>4 DEF Placed, ConnsOK, HandlersOK, EventsOK, WaitOK, HistoryOK, HarmOK,
                          ReadPlaced, HandlerPlaced, Holds
<1> QED
  BY <1>3, <1>4 DEF ReadError

\* Bad framing leaves whole frames in the parser, behind those taken from it.
LEMMA PlacedBad ==
    ASSUME Placed, NEW c \in Conns, ReadBad(c)
    PROVE  /\ Placed'
           /\ \A d \in Conns : rd'[d] - left'[d] = rd[d] - left[d]
<1> USE DEF sockVars, history, harm
<1>1. /\ rd' = [rd EXCEPT ![c] = sent[c]] /\ left' = [left EXCEPT ![c] = @ + Avail(c)]
      /\ ending' = [ending EXCEPT ![c] = "fin"]
      /\ UNCHANGED <<sent, part, rh, ev, evtail, rcvqsz, wantEfd, efd, cpc, got, cutShort,
                     lost, miscounted, aborted>>
  BY DEF ReadBad
<1>2. /\ sent \in [Conns -> 0..MaxFrames] /\ rd \in [Conns -> 0..MaxFrames]
      /\ left \in [Conns -> 0..MaxFrames] /\ MaxFrames \in Nat
      /\ rd[c] <= sent[c] /\ left[c] <= rd[c]
  BY RecvAssumption DEF Placed, PeersOK, ConnsOK, ReadPlaced
<1>3. left[c] + Avail(c) \in 0..MaxFrames /\ left[c] + Avail(c) <= sent[c]
      /\ sent[c] - (left[c] + Avail(c)) = rd[c] - left[c]
  BY <1>2 DEF Avail
<1>4. /\ rd'[c] = sent[c] /\ left'[c] = left[c] + Avail(c)
      /\ \A d \in Conns : d # c => rd'[d] = rd[d] /\ left'[d] = left[d]
  BY <1>1, <1>2
<1>5. PeersOK' /\ ConnsOK'
  BY <1>1, <1>2, <1>3 DEF Placed, PeersOK, ConnsOK
<1>6. \A d \in Conns : rd'[d] - left'[d] = rd[d] - left[d]
  BY <1>3, <1>4
<1>7. ReadPlaced'
  BY <1>1, <1>2, <1>3, <1>4, <1>6 DEF Placed, ReadPlaced
<1>8. HandlerPlaced'
  BY <1>1, <1>6 DEF Placed, HandlerPlaced, Holds
<1> QED
  BY <1>1, <1>5, <1>6, <1>7, <1>8 DEF Placed, HandlersOK, EventsOK, WaitOK, HistoryOK, HarmOK

\* A handler that leaves "deliver" for another state.
LEMMA HandlerLeaves ==
    ASSUME HandlersOK, HandlerPlaced, UNCHANGED <<rd, left, lost>>,
           \A v \in Threads : rh'[v] = rh[v] \/ rh'[v].pc # "deliver"
    PROVE  HandlerPlaced'
  BY DEF HandlerPlaced, Holds

\* What the splice leaves in sock->events.
LEMMA AppendType ==
    ASSUME EventsOK, NEW L \in Seq(Event)
    PROVE  /\ AppendEvents(L) \in Seq(Event)
           /\ evtail \/ ev = << >> => AppendEvents(L) = ev \o L
<1>1. ev \in Seq(Event)
  BY DEF EventsOK
<1>2. CASE evtail \/ ev = << >>
  BY <1>1, <1>2 DEF AppendEvents
<1>3. CASE ~(evtail \/ ev = << >>)
  <2>1. Head(ev) \in Event
    BY <1>1, <1>3
  <2>2. <<Head(ev)>> \o L \in Seq(Event)
    BY <2>1
  <2> QED
    BY <1>3, <2>2 DEF AppendEvents
<1> QED
  BY <1>2, <1>3

\* The splice under sock->sync moves the local queue behind sock->events.
LEMMA PlacedDeliver ==
    ASSUME Placed, NEW t \in Threads, Deliver(t)
    PROVE  Placed'
<1> USE DEF peerVars, connVars, history, harm
<1> DEFINE cnt == rh[t].cnt
           L == Local(t)
<1>1. /\ rh[t].pc = "deliver" /\ ~bulk.on
      /\ rcvqsz' = rcvqsz + cnt
      /\ IF cnt > 0 THEN ev' = AppendEvents(L) /\ evtail' = (L # << >>)
         ELSE UNCHANGED <<ev, evtail>>
      /\ efd' = IF Signals(cnt) THEN efd + 1 ELSE efd
      /\ wantEfd' = IF Signals(cnt) THEN 0 ELSE wantEfd
      /\ rh' = [rh EXCEPT ![t].pc = "bulk"] \/ rh' = [rh EXCEPT ![t] = NoHandler]
      /\ UNCHANGED <<sent, ending, rd, part, left, cpc, got, cutShort,
                     lost, miscounted, aborted>>
  BY DEF Deliver, CountFrames
<1>2. L \in Seq(Event)
  BY <1>1, LocalType
<1> HIDE DEF L
<1>3. cnt \in Int /\ rh \in [Threads -> Handler]
  BY DEF Placed, HandlersOK, Handler
<1>4. EventsOK'
  <2>1. rcvqsz' \in Int
    BY <1>1, <1>3 DEF Placed, EventsOK
  <2>2. CASE cnt > 0
    <3>1. ev' \in Seq(Event) /\ evtail' = (L # << >>)
      BY <1>1, <1>2, <2>2, AppendType DEF Placed
    <3> QED
      BY <2>1, <3>1 DEF EventsOK
  <2>3. CASE ~(cnt > 0)
    BY <1>1, <2>1, <2>3 DEF Placed, EventsOK
  <2> QED
    BY <2>2, <2>3
<1>5. WaitOK'
  BY <1>1 DEF Placed, WaitOK
<1>6. NoHandler \in Handler
  BY RecvAssumption, ThreadAssumption DEF NoHandler, Handler
<1>7. HandlersOK'
  <2>1. CASE rh' = [rh EXCEPT ![t].pc = "bulk"]
    BY <1>3, <2>1 DEF HandlersOK, Handler
  <2>2. CASE rh' = [rh EXCEPT ![t] = NoHandler]
    BY <1>3, <1>6, <2>2 DEF HandlersOK
  <2> QED
    BY <1>1, <2>1, <2>2
<1>8. \A v \in Threads : rh'[v] = rh[v] \/ rh'[v].pc # "deliver"
  <2>1. CASE rh' = [rh EXCEPT ![t].pc = "bulk"]
    BY <1>3, <2>1 DEF Handler
  <2>2. CASE rh' = [rh EXCEPT ![t] = NoHandler]
    BY <1>3, <2>2 DEF NoHandler
  <2> QED
    BY <1>1, <2>1, <2>2
<1>9. HandlerPlaced'
  BY <1>1, <1>8, HandlerLeaves DEF Placed
<1> QED
  BY <1>1, <1>4, <1>5, <1>7, <1>9 DEF Placed, PeersOK, ConnsOK, HistoryOK, HarmOK, ReadPlaced

\* The end of the bulk loop ends the handler or the call that began it.
LEMMA PlacedReturn ==
    ASSUME Placed, BulkReturn
    PROVE  Placed'
<1> USE DEF peerVars, connVars, sockVars, history, harm
<1>1. /\ rh' = [t \in Threads |-> IF rh[t].pc = "bulk" THEN NoHandler ELSE rh[t]]
      /\ cpc' = IF cpc = "bulk" THEN "idle" ELSE cpc
      /\ UNCHANGED <<sent, ending, rd, part, left, ev, evtail, rcvqsz, wantEfd, efd, got, cutShort,
                     lost, miscounted, aborted>>
  BY DEF BulkReturn
<1>2. NoHandler \in Handler /\ NoHandler.pc = "idle"
  BY RecvAssumption, ThreadAssumption DEF NoHandler, Handler
<1>3. HandlersOK'
  BY <1>1, <1>2 DEF Placed, HandlersOK
<1>4. \A v \in Threads : rh'[v] = rh[v] \/ rh'[v].pc # "deliver"
  BY <1>1, <1>2
<1>5. HandlerPlaced'
  BY <1>1, <1>4, HandlerLeaves DEF Placed
<1>6. WaitOK'
  BY <1>1 DEF Placed, WaitOK
<1> QED
  BY <1>1, <1>3, <1>5, <1>6 DEF Placed, PeersOK, ConnsOK, EventsOK, HistoryOK, HarmOK, ReadPlaced

\* The pop in fsock_get_event takes the first event and nothing else.
LEMMA PlacedTake ==
    ASSUME Placed, TakeEvent, ev # << >>, aborted' \in BOOLEAN
    PROVE  Placed'
<1> USE DEF peerVars, connVars, harm
<1> DEFINE e == Head(ev)
<1>1. /\ ev' = Tail(ev) /\ evtail' = (evtail /\ Tail(ev) # << >>)
      /\ got' = [got EXCEPT ![e[1]] = Append(@, e[2])]
      /\ rcvqsz' = rcvqsz - 1 /\ cpc' \in {"bulk", "idle"}
      /\ UNCHANGED <<sent, ending, rd, part, left, rh, wantEfd, efd, cutShort, lost,
                     miscounted>>
  BY DEF TakeEvent
<1>2. ev \in Seq(Event) /\ rcvqsz \in Int
  BY DEF Placed, EventsOK
<1>3. e \in Event /\ Tail(ev) \in Seq(Event)
  BY <1>2
<1> HIDE DEF e
<1>4. e[1] \in Conns /\ e[2] \in 1..MaxFrames
  BY <1>3 DEF Event
<1>5. EventsOK'
  <2>1. ev' \in Seq(Event) /\ rcvqsz' \in Int
    BY <1>1, <1>2, <1>3
  <2>2. evtail' \in BOOLEAN
    BY <1>1
  <2> QED
    BY <2>1, <2>2 DEF EventsOK
<1>6. WaitOK'
  BY <1>1 DEF Placed, WaitOK
<1>7. HistoryOK'
  <2>1. got \in [Conns -> Seq(1..MaxFrames)]
    BY DEF Placed, HistoryOK
  <2>2. Append(got[e[1]], e[2]) \in Seq(1..MaxFrames)
    BY <1>4, <2>1
  <2>3. got' \in [Conns -> Seq(1..MaxFrames)]
    BY <1>1, <2>1, <2>2
  <2> QED
    BY <1>1, <2>3 DEF Placed, HistoryOK
<1> QED
  BY <1>1, <1>5, <1>6, <1>7 DEF Placed, PeersOK, ConnsOK, HandlersOK, HarmOK, ReadPlaced, HandlerPlaced, Holds

\* Every step keeps each frame in exactly one place.
LEMMA PlacedNext ==
    ASSUME Placed, [Next]_vars
    PROVE  Placed'
<1> USE DEF peerVars, connVars, sockVars, history, harm
<1>1. ASSUME UNCHANGED <<peerVars, rd, part, left, rh, ev, evtail, rcvqsz, got, harm>>,
             WaitOK', cutShort' \in BOOLEAN, aborted' \in BOOLEAN
      PROVE  Placed'
  BY <1>1 DEF Placed, PeersOK, ConnsOK, HandlersOK, EventsOK, HistoryOK, HarmOK, ReadPlaced, HandlerPlaced, Holds
<1>2. cutShort \in BOOLEAN /\ aborted \in BOOLEAN /\ WaitOK
  BY DEF Placed, HistoryOK
<1>3. ASSUME UNCHANGED <<peerVars, rd, part, left, rh, ev, evtail, rcvqsz, wantEfd, efd,
                         cpc, history, harm, aborted>>
      PROVE  Placed'
  BY <1>1, <1>2, <1>3 DEF WaitOK
<1>4. ASSUME NEW c \in Conns, Peer(c)
      PROVE  Placed'
  BY <1>4, PlacedPeer DEF Peer
<1>5. ASSUME NEW c \in Conns, Handlers(c)
      PROVE  Placed'
  <2>1. CASE Read(c)
    BY <2>1, PlacedRead
  <2>2. CASE ReadEof(c)
    BY <1>3, <2>2 DEF ReadEof
  <2>3. CASE ReadBad(c)
    BY <2>3, PlacedBad
  <2>4. CASE ReadError(c)
    BY <2>4, PlacedError
  <2> QED
    BY <1>5, <2>1, <2>2, <2>3, <2>4 DEF Handlers
<1>6. ASSUME NEW t \in Threads, Worker(t) \/ Jobs(t)
      PROVE  Placed'
  <2>1. CASE Deliver(t)
    BY <2>1, PlacedDeliver
  <2>2. CASE Run(t) \/ Async(t)
    BY <1>3, <2>2 DEF Run, Async
  <2> QED
    BY <1>6, <2>1, <2>2 DEF Worker, Jobs
<1>7. CASE Bulk
  <2>1. CASE BulkLoop \/ BulkFree
    BY <1>3, <2>1 DEF BulkLoop, BulkFree
  <2>2. CASE BulkReturn
    BY <2>2, PlacedReturn
  <2> QED
    BY <1>7, <2>1, <2>2 DEF Bulk
<1>8. CASE Consumer
  <2>1. CASE GetEvent
    BY <1>2, <2>1, PlacedTake DEF GetEvent
  <2>2. CASE GetEventWait
    <3>1. WaitOK'
      BY <1>2, <2>2 DEF GetEventWait, WaitOK, RaiseWantEfd
    <3> QED
      BY <1>1, <1>2, <2>2, <3>1 DEF GetEventWait
  <2>3. CASE Woken
    <3>1. WaitOK'
      BY <1>2, <2>3 DEF Woken, WaitOK
    <3> QED
      BY <1>1, <1>2, <2>3, <3>1 DEF Woken
  <2>4. CASE GetEventWoken
    <3>1. aborted' \in BOOLEAN
      BY <2>4 DEF GetEventWoken
    <3>2. CASE ev = << >>
      BY <1>1, <1>2, <2>4, <3>1, <3>2 DEF GetEventWoken, WaitOK
    <3>3. CASE ev # << >>
      BY <2>4, <3>1, <3>3, PlacedTake DEF GetEventWoken
    <3> QED
      BY <3>2, <3>3
  <2> QED
    BY <1>8, <2>1, <2>2, <2>3, <2>4 DEF Consumer
<1>9. CASE CutShort
  <2>1. CASE TimeOut
    BY <1>1, <1>2, <2>1 DEF TimeOut, WaitOK
  <2>2. CASE Interrupted
    BY <1>1, <1>2, <2>2 DEF Interrupted, WaitOK
  <2> QED
    BY <1>9, <2>1, <2>2 DEF CutShort
<1>10. CASE UNCHANGED vars
  BY <1>3, <1>10 DEF vars
<1> QED
  BY <1>4, <1>5, <1>6, <1>7, <1>8, <1>9, <1>10 DEF Next

-----------------------------------------------------------------------------
(* The order of the events.                                                *)

\* A larger set of frames to choose from.
LEMMA OrderWiden ==
    ASSUME NEW c, NEW g, NEW E, NEW S, InOrder(c, g, E, S), NEW X, S \subseteq X
    PROVE  InOrder(c, g, E, X)
  BY DEF InOrder

\* The frames of a concatenation.
LEMMA FramesConcat ==
    ASSUME NEW c \in Conns, NEW E \in Seq(Event), NEW L \in Seq(Event)
    PROVE  FramesIn(E \o L, c) = FramesIn(E, c) \cup FramesIn(L, c)
<1>1. Elems(E \o L) = Elems(E) \cup Elems(L)
  BY DistinctConcat
<1> QED
  BY <1>1 DEF FramesIn

\* A frame of c is where an event of c stands.
LEMMA FramesAt ==
    ASSUME NEW c \in Conns, NEW E \in Seq(Event)
    PROVE  /\ \A k \in 1..Len(E) : E[k][1] = c => E[k][2] \in FramesIn(E, c)
           /\ \A f \in FramesIn(E, c) : \E k \in 1..Len(E) : E[k][1] = c /\ E[k][2] = f
<1>1. ASSUME NEW k \in 1..Len(E), E[k][1] = c
      PROVE  E[k][2] \in FramesIn(E, c)
  <2>1. E[k] \in Event /\ E[k] \in Elems(E)
    BY DEF Elems
  <2>2. E[k] = <<c, E[k][2]>> /\ E[k][2] \in 1..MaxFrames
    BY <1>1, <2>1 DEF Event
  <2> QED
    BY <2>1, <2>2 DEF FramesIn
<1>2. ASSUME NEW f \in FramesIn(E, c)
      PROVE  \E k \in 1..Len(E) : E[k][1] = c /\ E[k][2] = f
  <2>1. <<c, f>> \in Elems(E)
    BY DEF FramesIn
  <2>2. PICK k \in 1..Len(E) : <<c, f>> = E[k]
    BY <2>1 DEF Elems
  <2>3. E[k][1] = c /\ E[k][2] = f
    BY <2>2
  <2> QED
    BY <2>3
<1> QED
  BY <1>1, <1>2

\* The frames of a local queue.
LEMMA FramesLocal ==
    ASSUME NEW c \in Conns, NEW L \in Seq(Event), NEW h \in Nat, h + Len(L) <= MaxFrames,
           \A k \in 1..Len(L) : L[k] = <<c, h + k>>
    PROVE  FramesIn(L, c) = (h + 1)..(h + Len(L))
<1>1. PICK b \in Nat : b = Len(L)
  OBVIOUS
<1>2. MaxFrames \in Nat
  BY RecvAssumption
<1>3. ASSUME NEW f \in FramesIn(L, c)
      PROVE  f \in (h + 1)..(h + b)
  <2>1. PICK k \in 1..b : L[k][2] = f
    BY <1>1, FramesAt
  <2>2. L[k][2] = h + k
    BY <1>1
  <2> QED
    BY <2>1, <2>2
<1>4. ASSUME NEW f \in (h + 1)..(h + b)
      PROVE  f \in FramesIn(L, c)
  <2>1. f - h \in 1..b /\ h + (f - h) = f
    OBVIOUS
  <2>2. L[f - h] = <<c, f>>
    BY <1>1, <2>1
  <2>3. L[f - h][1] = c /\ L[f - h][2] = f
    BY <2>2
  <2> QED
    BY <1>1, <2>1, <2>3, FramesAt
<1> QED
  BY <1>1, <1>3, <1>4

\* A splice of newer frames of c keeps c in order.
LEMMA OrderAppend ==
    ASSUME NEW c \in Conns, NEW g \in Seq(1..MaxFrames), NEW E \in Seq(Event), NEW h \in Nat,
           NEW S, InOrder(c, g, E, S), S \subseteq 1..h,
           NEW L \in Seq(Event), h + Len(L) <= MaxFrames,
           \A k \in 1..Len(L) : L[k] = <<c, h + k>>,
           NEW X, S \cup ((h + 1)..(h + Len(L))) \subseteq X
    PROVE  InOrder(c, g, E \o L, X)
<1> DEFINE R == E \o L
<1>1. PICK a \in Nat, b \in Nat : a = Len(E) /\ b = Len(L)
  OBVIOUS
<1>2. /\ Len(R) = a + b
      /\ \A j \in 1..a : R[j] = E[j]
      /\ \A k \in 1..b : R[a + k] = L[k]
      /\ \A j \in 1..(a + b) : j \in 1..a \/ \E k \in 1..b : j = a + k
  BY <1>1, ConcatPositions
<1>3. FramesIn(R, c) = FramesIn(E, c) \cup ((h + 1)..(h + b))
  BY <1>1, FramesConcat, FramesLocal
<1> HIDE DEF R
<1>4. Elems(g) \cup FramesIn(R, c) \subseteq X
  BY <1>1, <1>3 DEF InOrder
<1>5. Elems(g) \subseteq 1..h /\ FramesIn(E, c) \subseteq 1..h
  BY DEF InOrder
<1>6. \A f \in Elems(g) : \A e \in FramesIn(R, c) : f < e
  <2> SUFFICES ASSUME NEW f \in Elems(g), NEW e \in FramesIn(R, c)
               PROVE  f < e
    OBVIOUS
  <2>1. CASE e \in FramesIn(E, c)
    BY <2>1 DEF InOrder
  <2>2. CASE e \in (h + 1)..(h + b)
    <3>1. f \in 1..h
      BY <1>5
    <3> QED
      BY <2>2, <3>1
  <2> QED
    BY <1>3, <2>1, <2>2
<1>7. \A j \in 1..a : E[j][1] = c => E[j][2] \in 1..h
  BY <1>1, <1>5, FramesAt
<1>8. ASSUME NEW j \in 1..(a + b), NEW k \in 1..(a + b), j < k, R[j][1] = c, R[k][1] = c
      PROVE  R[j][2] < R[k][2]
  <2>1. CASE k \in 1..a
    <3>1. j \in 1..a
      BY <1>8, <2>1
    <3> QED
      BY <1>1, <1>2, <1>8, <2>1, <3>1 DEF InOrder
  <2>2. CASE k \notin 1..a
    <3>1. PICK l \in 1..b : k = a + l
      BY <1>2, <2>2
    <3>2. R[k] = <<c, h + l>> /\ R[k][2] = h + l
      <4>1. R[k] = L[l] /\ l \in 1..Len(L)
        BY <1>1, <1>2, <3>1
      <4>2. L[l] = <<c, h + l>>
        BY <4>1
      <4> QED
        BY <4>1, <4>2
    <3>3. CASE j \in 1..a
      <4>1. R[j][2] \in 1..h
        BY <1>2, <1>7, <1>8, <3>3
      <4> QED
        BY <3>2, <4>1
    <3>4. CASE j \notin 1..a
      <4>1. PICK q \in 1..b : j = a + q
        BY <1>2, <3>4
      <4>2. R[j] = <<c, h + q>> /\ R[j][2] = h + q
        <5>1. R[j] = L[q] /\ q \in 1..Len(L)
          BY <1>1, <1>2, <4>1
        <5>2. L[q] = <<c, h + q>>
          BY <5>1
        <5> QED
          BY <5>1, <5>2
      <4> QED
        BY <1>8, <3>1, <3>2, <4>1, <4>2
    <3> QED
      BY <3>3, <3>4
  <2> QED
    BY <2>1, <2>2
<1>9. Increasing(g)
  BY DEF InOrder
<1> QED
  BY <1>1, <1>2, <1>4, <1>6, <1>8, <1>9 DEF InOrder, R

\* A splice of frames of other connections.
LEMMA OrderOther ==
    ASSUME NEW d \in Conns, NEW g \in Seq(1..MaxFrames), NEW E \in Seq(Event), NEW S,
           InOrder(d, g, E, S), NEW L \in Seq(Event),
           \A k \in 1..Len(L) : L[k][1] # d
    PROVE  InOrder(d, g, E \o L, S) /\ FramesIn(E \o L, d) = FramesIn(E, d)
<1> DEFINE R == E \o L
<1>1. PICK a \in Nat, b \in Nat : a = Len(E) /\ b = Len(L)
  OBVIOUS
<1>2. /\ Len(R) = a + b
      /\ \A j \in 1..a : R[j] = E[j]
      /\ \A k \in 1..b : R[a + k] = L[k]
      /\ \A j \in 1..(a + b) : j \in 1..a \/ \E k \in 1..b : j = a + k
  BY <1>1, ConcatPositions
<1>3. FramesIn(L, d) = {}
  BY FramesAt
<1>4. FramesIn(R, d) = FramesIn(E, d)
  <2>1. FramesIn(R, d) = FramesIn(E, d) \cup FramesIn(L, d)
    BY FramesConcat
  <2> QED
    BY <1>3, <2>1
<1> HIDE DEF R
<1>5. \A j \in 1..(a + b) : R[j][1] = d => j \in 1..a
  <2> SUFFICES ASSUME NEW j \in 1..(a + b), j \notin 1..a
               PROVE  R[j][1] # d
    OBVIOUS
  <2>1. PICK k \in 1..b : j = a + k
    BY <1>2
  <2>2. R[j] = L[k]
    BY <1>2, <2>1
  <2> QED
    BY <1>1, <2>2
<1>6. ASSUME NEW j \in 1..(a + b), NEW k \in 1..(a + b), j < k, R[j][1] = d, R[k][1] = d
      PROVE  R[j][2] < R[k][2]
  <2>1. j \in 1..a /\ k \in 1..a /\ R[j] = E[j] /\ R[k] = E[k]
    BY <1>2, <1>5, <1>6
  <2> QED
    BY <1>1, <1>6, <2>1 DEF InOrder
<1> QED
  BY <1>1, <1>2, <1>4, <1>6 DEF InOrder, R

\* All events but the first one are cut off.
LEMMA OrderFirst ==
    ASSUME NEW c \in Conns, NEW g, NEW E \in Seq(Event), NEW S, InOrder(c, g, E, S), E # << >>
    PROVE  <<Head(E)>> \in Seq(Event) /\ InOrder(c, g, <<Head(E)>>, S)
<1> DEFINE H == <<Head(E)>>
<1>1. Head(E) \in Event /\ Head(E) = E[1] /\ 1 \in 1..Len(E)
  OBVIOUS
<1>2. H \in Seq(Event) /\ Len(H) = 1 /\ H[1] = Head(E)
  BY <1>1
<1> HIDE DEF H
<1>3. FramesIn(H, c) \subseteq FramesIn(E, c)
  <2> SUFFICES ASSUME NEW f \in FramesIn(H, c) PROVE f \in FramesIn(E, c)
    OBVIOUS
  <2>1. PICK k \in 1..Len(H) : H[k][1] = c /\ H[k][2] = f
    BY <1>2, FramesAt
  <2>2. k = 1
    BY <1>2
  <2> QED
    BY <1>1, <1>2, <2>1, <2>2, FramesAt
<1>4. \A j, k \in 1..Len(H) : ~(j < k)
  BY <1>2
<1> QED
  BY <1>2, <1>3, <1>4 DEF InOrder, H

\* The oldest event is newer than all that was handed out and older than the rest
\* of its connection; taking it keeps that connection in order.
LEMMA OrderTake ==
    ASSUME NEW c \in Conns, NEW g \in Seq(1..MaxFrames), NEW E \in Seq(Event), NEW S,
           InOrder(c, g, E, S), E # << >>, Head(E)[1] = c
    PROVE  /\ Head(E)[2] \in S /\ \A f \in Elems(g) : f < Head(E)[2]
           /\ Head(E)[2] \in 1..MaxFrames
           /\ \A f \in FramesIn(E, c) : f = Head(E)[2] \/ Head(E)[2] < f
           /\ Elems(Append(g, Head(E)[2])) \cup FramesIn(Tail(E), c)
                = Elems(g) \cup FramesIn(E, c)
           /\ InOrder(c, Append(g, Head(E)[2]), Tail(E), S)
<1> DEFINE T == Tail(E)
           G == Append(g, Head(E)[2])
<1>1. PICK a \in Nat : Len(E) = a + 1
  OBVIOUS
<1>2. /\ Len(T) = a /\ \A j \in 1..a : T[j] = E[j + 1] /\ j + 1 \in 1..(a + 1)
      /\ Head(E) = E[1] /\ 1 \in 1..(a + 1) /\ T \in Seq(Event)
  BY <1>1, ElemsTail
<1>3. PICK x \in 1..MaxFrames : x = Head(E)[2]
  BY <1>2 DEF Event
<1>4. PICK n \in Nat : n = Len(g)
  OBVIOUS
<1>5. /\ G \in Seq(1..MaxFrames) /\ Len(G) = n + 1 /\ G[n + 1] = x
      /\ \A j \in 1..n : G[j] = g[j]
  BY <1>3, <1>4
<1> HIDE DEF T, G
<1>6. Elems(G) = Elems(g) \cup {x}
  <2>1. \A j \in 1..(n + 1) : j \in 1..n \/ j = n + 1
    OBVIOUS
  <2> QED
    BY <1>4, <1>5, <2>1 DEF Elems
<1>7. x \in FramesIn(E, c)
  BY <1>1, <1>2, <1>3, FramesAt
<1>8. x \in S /\ \A f \in Elems(g) : f < x
  BY <1>7 DEF InOrder
<1>9. \A k \in 1..a : T[k][1] = c => x < T[k][2]
  <2> SUFFICES ASSUME NEW k \in 1..a, T[k][1] = c PROVE x < T[k][2]
    OBVIOUS
  <2>1. T[k] = E[k + 1] /\ k + 1 \in 1..(a + 1) /\ 1 < k + 1
    BY <1>2
  <2>2. E[1][1] = c /\ E[1][2] = x /\ E[k + 1][1] = c
    BY <1>2, <1>3, <2>1
  <2>3. E[1][2] < E[k + 1][2]
    BY <1>1, <1>2, <2>1, <2>2 DEF InOrder
  <2> QED
    BY <2>1, <2>2, <2>3
<1>10. /\ \A k \in 1..a : T[k][1] = c => T[k][2] \in FramesIn(T, c)
       /\ \A f \in FramesIn(T, c) : \E k \in 1..a : T[k][1] = c /\ T[k][2] = f
       /\ \A f \in FramesIn(T, c) : x < f
  <2>1. /\ \A k \in 1..Len(T) : T[k][1] = c => T[k][2] \in FramesIn(T, c)
        /\ \A f \in FramesIn(T, c) : \E k \in 1..Len(T) : T[k][1] = c /\ T[k][2] = f
    BY <1>2, FramesAt
  <2> QED
    BY <1>2, <1>9, <2>1
<1>11. FramesIn(E, c) = {x} \cup FramesIn(T, c)
  <2>1. ASSUME NEW f \in FramesIn(E, c), f # x
        PROVE  f \in FramesIn(T, c)
    <3>1. PICK k \in 1..(a + 1) : E[k][1] = c /\ E[k][2] = f
      BY <1>1, FramesAt
    <3>2. k # 1
      BY <1>2, <1>3, <2>1, <3>1
    <3>3. k - 1 \in 1..a /\ (k - 1) + 1 = k
      BY <3>2
    <3>4. T[k - 1] = E[k]
      BY <1>2, <3>3
    <3> QED
      BY <1>10, <3>1, <3>3, <3>4
  <2>2. ASSUME NEW f \in FramesIn(T, c)
        PROVE  f \in FramesIn(E, c)
    <3>1. PICK k \in 1..a : T[k][1] = c /\ T[k][2] = f
      BY <1>10
    <3>2. k + 1 \in 1..Len(E) /\ E[k + 1][1] = c /\ E[k + 1][2] = f
      BY <1>1, <1>2, <3>1
    <3> QED
      BY <3>2, FramesAt
  <2> QED
    BY <1>7, <2>1, <2>2
<1>12. Increasing(G)
  <2> SUFFICES ASSUME NEW j \in 1..(n + 1), NEW k \in 1..(n + 1), j < k
               PROVE  G[j] < G[k]
    BY <1>5 DEF Increasing
  <2>1. j \in 1..n /\ G[j] = g[j] /\ g[j] \in Elems(g)
    BY <1>4, <1>5 DEF Elems
  <2>2. CASE k = n + 1
    BY <1>5, <1>8, <2>1, <2>2
  <2>3. CASE k # n + 1
    <3>1. k \in 1..n /\ G[k] = g[k]
      BY <1>5, <2>3
    <3> QED
      BY <1>4, <2>1, <3>1 DEF InOrder, Increasing
  <2> QED
    BY <2>2, <2>3
<1>13. \A j, k \in 1..a : j < k /\ T[j][1] = c /\ T[k][1] = c => T[j][2] < T[k][2]
  <2> SUFFICES ASSUME NEW j \in 1..a, NEW k \in 1..a, j < k, T[j][1] = c, T[k][1] = c
               PROVE  T[j][2] < T[k][2]
    OBVIOUS
  <2>1. /\ T[j] = E[j + 1] /\ T[k] = E[k + 1] /\ j + 1 \in 1..(a + 1) /\ k + 1 \in 1..(a + 1)
        /\ j + 1 < k + 1
    BY <1>2
  <2> QED
    BY <1>1, <2>1 DEF InOrder
<1>14. Elems(G) \cup FramesIn(T, c) = Elems(g) \cup FramesIn(E, c)
  BY <1>6, <1>11
<1>15. \A f \in Elems(G) : \A e \in FramesIn(T, c) : f < e
  BY <1>6, <1>10, <1>11 DEF InOrder
<1>16. InOrder(c, G, T, S)
  BY <1>2, <1>12, <1>13, <1>14, <1>15 DEF InOrder
<1> QED
  BY <1>3, <1>8, <1>10, <1>11, <1>14, <1>16 DEF T, G

\* Taking an event of another connection.
LEMMA OrderTakeOther ==
    ASSUME NEW d \in Conns, NEW g \in Seq(1..MaxFrames), NEW E \in Seq(Event), NEW S,
           InOrder(d, g, E, S), E # << >>, Head(E)[1] # d
    PROVE  InOrder(d, g, Tail(E), S) /\ FramesIn(Tail(E), d) = FramesIn(E, d)
<1> DEFINE T == Tail(E)
<1>1. PICK a \in Nat : Len(E) = a + 1
  <2>1. Len(E) \in Nat /\ Len(T) \in Nat /\ Len(T) = Len(E) - 1
    BY ElemsTail
  <2>2. Len(E) - 1 \in Nat /\ Len(E) = (Len(E) - 1) + 1
    BY <2>1
  <2> QED
    BY <2>2
<1>2. /\ Len(T) = a /\ \A j \in 1..a : T[j] = E[j + 1] /\ j + 1 \in 1..(a + 1)
      /\ Elems(E) = {Head(E)} \cup Elems(T)
  BY <1>1, ElemsTail
<1> HIDE DEF T
<1>3. \A f \in 1..MaxFrames : <<d, f>> # Head(E)
  OBVIOUS
<1>4. FramesIn(T, d) = FramesIn(E, d)
  BY <1>2, <1>3 DEF FramesIn
<1>5. \A j, k \in 1..a : j < k /\ T[j][1] = d /\ T[k][1] = d => T[j][2] < T[k][2]
  <2> SUFFICES ASSUME NEW j \in 1..a, NEW k \in 1..a, j < k, T[j][1] = d, T[k][1] = d
               PROVE  T[j][2] < T[k][2]
    OBVIOUS
  <2>1. /\ T[j] = E[j + 1] /\ T[k] = E[k + 1] /\ j + 1 \in 1..(a + 1) /\ k + 1 \in 1..(a + 1)
        /\ j + 1 < k + 1
    BY <1>2
  <2> QED
    BY <1>1, <2>1 DEF InOrder
<1> QED
  BY <1>2, <1>4, <1>5 DEF InOrder, T

-----------------------------------------------------------------------------
(* What the events amount to.                                              *)

\* The frames of c that have passed the read handler and were not lost.
Passed(c) == (1..Through(c)) \ lost[c]

\* Whatever cnt starts with, frames are in order.  While it starts at zero a
\* handler counts what it holds, the tail of sock->events is set with its head,
\* and the events are complete and counted.
OrderInv == \A c \in Conns : InOrder(c, got[c], ev, Passed(c))
CntExact == \A t \in Threads : rh[t].pc = "deliver" => rh[t].cnt = rh[t].n
TailExact == evtail <=> ev # << >>
Complete == \A c \in Conns : Passed(c) \subseteq Elems(got[c]) \cup FramesIn(ev, c)
CountInv == ~miscounted => CntExact /\ TailExact /\ Complete /\ rcvqsz = Len(ev)
EventsInv == OrderInv /\ CountInv

\* What has passed lies between nothing and what was taken from the parser.
LEMMA ThroughType ==
    ASSUME Placed, NEW c \in Conns
    PROVE  /\ Through(c) \in Nat /\ Through(c) <= sent[c] /\ ThrOf[c] \in Threads
           /\ rd[c] \in Nat /\ left[c] \in Nat /\ sent[c] \in Nat /\ sent[c] <= MaxFrames
           /\ Passed(c) \subseteq 1..Through(c)
<1>1. /\ rd[c] \in Nat /\ left[c] \in Nat /\ ThrOf[c] \in Threads /\ sent[c] \in 0..MaxFrames
      /\ left[c] <= rd[c] /\ rd[c] <= sent[c] /\ MaxFrames \in Nat
  BY ThreadAssumption, RecvAssumption DEF Placed, PeersOK, ConnsOK, ReadPlaced
<1>2. CASE Delivers(c)
  <2>1. /\ rh[ThrOf[c]].base \in Nat /\ rh[ThrOf[c]].n \in Nat
        /\ rh[ThrOf[c]].base + rh[ThrOf[c]].n <= rd[c] - left[c]
    BY <1>1, <1>2, RecvAssumption DEF Delivers, Placed, HandlersOK, Handler, HandlerPlaced, Holds
  <2>2. Through(c) = rh[ThrOf[c]].base
    BY <1>2 DEF Through
  <2> QED
    BY <1>1, <2>1, <2>2 DEF Passed
<1>3. CASE ~Delivers(c)
  <2>1. Through(c) = rd[c] - left[c]
    BY <1>3 DEF Through
  <2> QED
    BY <1>1, <2>1 DEF Passed
<1> QED
  BY <1>2, <1>3

\* A step that leaves the queue alone and lets no frame pass.
LEMMA EventsKeep ==
    ASSUME EventsInv, UNCHANGED <<ev, evtail, rcvqsz, got>>,
           \A c \in Conns : Passed(c)' = Passed(c),
           ~miscounted' => ~miscounted /\ CntExact'
    PROVE  EventsInv'
<1>1. OrderInv'
  BY DEF EventsInv, OrderInv
<1>2. CountInv'
  BY DEF EventsInv, CountInv, TailExact, Complete
<1> QED
  BY <1>1, <1>2 DEF EventsInv

\* A handler that starts to deliver: its frames have not passed yet.
LEMMA EventsFrames ==
    ASSUME Placed, EventsInv, NEW c \in Conns, Idle(ThrOf[c]), NEW new \in Nat,
           TakeFrames(c, new), UNCHANGED sent,
           rd' \in [Conns -> 0..MaxFrames], rd'[c] = rd[c] + new, rd'[c] <= sent[c],
           \A d \in Conns : d # c => rd'[d] = rd[d],
           UNCHANGED <<ev, evtail, rcvqsz, got>>
    PROVE  /\ EventsInv'
           /\ ~miscounted' => ~miscounted
           /\ lost' = lost \/ \E f \in (1..sent[c]) \ Elems(got[c]) :
                                 lost' = [lost EXCEPT ![c] = @ \cup {f}]
<1> DEFINE t == ThrOf[c]
<1>1. PICK b : b = rd[c] - left[c]
  OBVIOUS
<1>2. PICK n \in 0..MaxFrames, u \in UninitCnt :
         /\ rh' = [rh EXCEPT ![t] = [pc |-> "deliver", c |-> c, base |-> b, n |-> n,
                                     cnt |-> u + n]]
         /\ Holds(rd'[c] - left'[c], lost'[c], b, n)
         /\ miscounted' = (miscounted \/ u # 0)
  BY <1>1, Taken
<1>3. /\ \A d \in Conns : d # c => left'[d] = left[d] /\ lost'[d] = lost[d]
      /\ lost' = lost \/ \E f \in 1..sent[c] : /\ b < f
                                              /\ lost' = [lost EXCEPT ![c] = @ \cup {f}]
  BY <1>1, Taken
<1>4. /\ t \in Threads /\ rh \in [Threads -> Handler] /\ u \in Int /\ n \in Nat
      /\ lost \in [Conns -> SUBSET (1..MaxFrames)] /\ rh[t].pc = "idle"
  BY ThreadAssumption, RecvAssumption DEF Placed, HandlersOK, HarmOK, Idle
<1>5. /\ rh'[t].pc = "deliver" /\ rh'[t].c = c /\ rh'[t].base = b /\ rh'[t].n = n
      /\ rh'[t].cnt = u + n
      /\ \A v \in Threads : v # t => rh'[v] = rh[v]
  BY <1>2, <1>4
<1>6. Through(c) = b /\ Through(c)' = b /\ b \in Nat
  <2>1. ~Delivers(c) /\ Delivers(c)'
    BY <1>4, <1>5 DEF Delivers
  <2>2. Through(c) = b
    BY <1>1, <2>1 DEF Through
  <2>3. Through(c)' = rh'[t].base
    BY <2>1 DEF Through
  <2> QED
    BY <1>5, <2>2, <2>3, ThroughType
<1>7. \A d \in Conns : d # c => Through(d)' = Through(d)
  <2> SUFFICES ASSUME NEW d \in Conns, d # c PROVE Through(d)' = Through(d)
    OBVIOUS
  <2>0. ThrOf[d] \in Threads
    BY ThreadAssumption
  <2>1. CASE ThrOf[d] = t
    <3>1. ~Delivers(d) /\ ~Delivers(d)'
      BY <1>4, <1>5, <2>1 DEF Delivers
    <3> QED
      BY <1>3, <3>1 DEF Through
  <2>2. CASE ThrOf[d] # t
    <3>1. rh'[ThrOf[d]] = rh[ThrOf[d]]
      BY <1>5, <2>0, <2>2
    <3> QED
      BY <1>3, <3>1 DEF Through, Delivers
  <2> QED
    BY <2>1, <2>2
<1>8. \A d \in Conns : Passed(d)' = Passed(d)
  <2> TAKE d \in Conns
  <2>1. CASE d = c
    <3>1. CASE lost' = lost
      BY <1>6, <2>1, <3>1 DEF Passed
    <3>2. CASE lost' # lost
      <4>1. PICK f \in 1..sent[c] : b < f /\ lost' = [lost EXCEPT ![c] = @ \cup {f}]
        BY <1>3, <3>2
      <4>2. lost'[c] = lost[c] \cup {f}
        BY <1>4, <4>1
      <4>3. f \notin 1..b
        BY <1>6, <4>1
      <4> QED
        BY <1>6, <2>1, <4>2, <4>3 DEF Passed
    <3> QED
      BY <3>1, <3>2
  <2>2. CASE d # c
    BY <1>3, <1>7, <2>2 DEF Passed
  <2> QED
    BY <2>1, <2>2
<1>9. ASSUME ~miscounted'
      PROVE  ~miscounted /\ CntExact'
  <2>1. ~miscounted /\ u = 0
    BY <1>2, <1>9
  <2>2. \A v \in Threads : rh[v].pc = "deliver" => rh[v].cnt = rh[v].n
    BY <2>1 DEF EventsInv, CountInv, CntExact
  <2>3. \A v \in Threads : rh'[v].pc = "deliver" => rh'[v].cnt = rh'[v].n
    BY <1>4, <1>5, <2>1, <2>2
  <2> QED
    BY <2>1, <2>3 DEF CntExact
<1>10. EventsInv'
  BY <1>8, <1>9, EventsKeep
<1>11. \A f \in Elems(got[c]) : f \in 1..b
  BY <1>6 DEF EventsInv, OrderInv, InOrder, Passed
<1>12. lost' = lost \/ \E f \in (1..sent[c]) \ Elems(got[c]) :
                          lost' = [lost EXCEPT ![c] = @ \cup {f}]
  <2> SUFFICES ASSUME lost' # lost
               PROVE  \E f \in (1..sent[c]) \ Elems(got[c]) :
                          lost' = [lost EXCEPT ![c] = @ \cup {f}]
    OBVIOUS
  <2>1. PICK f \in 1..sent[c] : b < f /\ lost' = [lost EXCEPT ![c] = @ \cup {f}]
    BY <1>3
  <2>2. f \notin 1..b
    BY <1>6, <2>1
  <2> QED
    BY <1>11, <2>1, <2>2
<1> QED
  BY <1>9, <1>10, <1>12

\* What a handler does to the events, and to the frames known to be lost.
LEMMA EventsHandlers ==
    ASSUME Placed, EventsInv, NEW c \in Conns, Handlers(c)
    PROVE  /\ EventsInv'
           /\ ~miscounted' => ~miscounted
           /\ miscounted' \in BOOLEAN
           /\ lost' = lost \/ \E f \in (1..sent[c]) \ Elems(got[c]) :
                                 lost' = [lost EXCEPT ![c] = @ \cup {f}]
           /\ UNCHANGED <<sent, got>>
<1> USE DEF peerVars, sockVars, history, harm
<1>0. miscounted' \in BOOLEAN
  <2>1. [Next]_vars
    BY DEF Next
  <2> QED
    BY <2>1, PlacedNext DEF Placed, HarmOK
<1>1. CASE Read(c)
  <2>1. PICK n \in 0..MaxChunk : /\ n <= Avail(c) /\ rd' = [rd EXCEPT ![c] = @ + n]
                                 /\ TakeFrames(c, n)
    BY <1>1 DEF Read
  <2>2. Idle(ThrOf[c]) /\ UNCHANGED <<sent, ev, evtail, rcvqsz, got>>
    BY <1>1 DEF Read, Serves
  <2>3. /\ n \in Nat /\ rd \in [Conns -> 0..MaxFrames] /\ sent[c] \in 0..MaxFrames
        /\ MaxFrames \in Nat /\ Avail(c) = sent[c] - rd[c]
    BY RecvAssumption DEF Placed, PeersOK, ConnsOK, Avail
  <2>4. rd[c] + n \in 0..MaxFrames /\ rd[c] + n <= sent[c]
    BY <2>1, <2>3
  <2>5. /\ rd' \in [Conns -> 0..MaxFrames] /\ rd'[c] = rd[c] + n /\ rd'[c] <= sent[c]
        /\ \A d \in Conns : d # c => rd'[d] = rd[d]
    BY <2>1, <2>3, <2>4
  <2> QED
    BY <1>0, <2>1, <2>2, <2>3, <2>5, EventsFrames
<1>2. CASE ReadEof(c)
  <2>1. UNCHANGED <<sent, rd, left, rh, ev, evtail, rcvqsz, got, lost, miscounted>>
    BY <1>2 DEF ReadEof
  <2>2. \A d \in Conns : Passed(d)' = Passed(d)
    BY <2>1 DEF Passed, Through, Delivers
  <2>3. ~miscounted => CntExact'
    BY <2>1 DEF EventsInv, CountInv, CntExact
  <2> QED
    BY <1>0, <2>1, <2>2, <2>3, EventsKeep
<1>3. CASE ReadBad(c)
  <2>1. UNCHANGED <<sent, rh, ev, evtail, rcvqsz, got, lost, miscounted>>
    BY <1>3 DEF ReadBad
  <2>2. \A d \in Conns : rd'[d] - left'[d] = rd[d] - left[d]
    BY <1>3, PlacedBad
  <2>3. \A d \in Conns : Passed(d)' = Passed(d)
    BY <2>1, <2>2 DEF Passed, Through, Delivers
  <2>4. ~miscounted => CntExact'
    BY <2>1 DEF EventsInv, CountInv, CntExact
  <2> QED
    BY <1>0, <2>1, <2>3, <2>4, EventsKeep
<1>4. CASE ReadError(c)
  <2>1. Idle(ThrOf[c]) /\ UNCHANGED <<sent, rd, ev, evtail, rcvqsz, got>>
    BY <1>4 DEF ReadError, Serves
  <2>2. CASE TakeFrames(c, 0)
    <3>1. /\ rd' \in [Conns -> 0..MaxFrames] /\ rd'[c] = rd[c] + 0 /\ rd'[c] <= sent[c]
      BY <2>1, RecvAssumption DEF Placed, ConnsOK, ReadPlaced
    <3> QED
      BY <1>0, <2>1, <2>2, <3>1, EventsFrames
  <2>3. CASE UNCHANGED <<left, rh, lost, miscounted>>
    <3>1. \A d \in Conns : Passed(d)' = Passed(d)
      BY <2>1, <2>3 DEF Passed, Through, Delivers
    <3>2. ~miscounted => CntExact'
      BY <2>3 DEF EventsInv, CountInv, CntExact
    <3> QED
      BY <1>0, <2>1, <2>3, <3>1, <3>2, EventsKeep
  <2> QED
    BY <1>4, <2>2, <2>3 DEF ReadError
<1> QED
  BY <1>1, <1>2, <1>3, <1>4 DEF Handlers

\* A delivery lets the frames of the handler pass.  Whatever cnt says, what it
\* leaves in sock->events is in order; counted from zero, all of it is there.
LEMMA EventsDeliver ==
    ASSUME Placed, EventsInv, NEW t \in Threads, Deliver(t)
    PROVE  /\ EventsInv'
           /\ rh[t].cnt \in Int /\ rcvqsz' = rcvqsz + rh[t].cnt /\ UNCHANGED miscounted
           /\ ~(rh[t].cnt > 0) => ev' = ev
           /\ ~miscounted => rh[t].cnt \in Nat
           /\ ~miscounted /\ rh[t].cnt > 0 => ev' # << >>
<1> USE DEF peerVars, connVars, history, harm
<1>0. PICK c, b, n, cnt, L : c = rh[t].c /\ b = rh[t].base /\ n = rh[t].n /\ cnt = rh[t].cnt
                             /\ L = Local(t)
  OBVIOUS
<1>1. /\ rh[t].pc = "deliver" /\ rcvqsz' = rcvqsz + cnt
      /\ IF cnt > 0 THEN ev' = AppendEvents(L) /\ evtail' = (L # << >>)
         ELSE UNCHANGED <<ev, evtail>>
      /\ rh' = [rh EXCEPT ![t].pc = "bulk"] \/ rh' = [rh EXCEPT ![t] = NoHandler]
      /\ UNCHANGED <<sent, rd, left, got, lost, miscounted>>
  BY <1>0 DEF Deliver, CountFrames
<1>2. /\ L \in Seq(Event) /\ Len(L) = n /\ n \in Nat
      /\ \A k \in 1..n : L[k] = <<c, b + k>> /\ b + k \in 1..MaxFrames
  BY <1>0, <1>1, LocalType
<1>3. PICK h : h = rd[c] - left[c]
  OBVIOUS
<1>4. /\ c \in Conns /\ ThrOf[c] = t /\ Holds(h, lost[c], b, n) /\ cnt \in Int /\ b \in Nat
      /\ rh \in [Threads -> Handler] /\ ev \in Seq(Event) /\ rcvqsz \in Int
      /\ got \in [Conns -> Seq(1..MaxFrames)] /\ h \in Nat /\ h <= MaxFrames
      /\ MaxFrames \in Nat
  <2>1. /\ c \in Conns /\ ThrOf[c] = t /\ Holds(h, lost[c], b, n)
        /\ ev \in Seq(Event) /\ rcvqsz \in Int /\ got \in [Conns -> Seq(1..MaxFrames)]
    BY <1>0, <1>1, <1>3 DEF Placed, HandlerPlaced, EventsOK, HistoryOK
  <2>2. rh \in [Threads -> Handler] /\ cnt \in Int /\ b \in Nat
    BY <1>0, RecvAssumption DEF Placed, HandlersOK, Handler
  <2>3. rd[c] \in 0..MaxFrames /\ left[c] \in 0..MaxFrames /\ left[c] <= rd[c] /\ MaxFrames \in Nat
    BY <2>1, RecvAssumption DEF Placed, ConnsOK, ReadPlaced
  <2> QED
    BY <1>3, <2>1, <2>2, <2>3
<1>5. /\ rh'[t].pc # "deliver"
      /\ \A v \in Threads : v # t => rh'[v] = rh[v]
  <2>1. CASE rh' = [rh EXCEPT ![t].pc = "bulk"]
    BY <1>4, <2>1 DEF Handler
  <2>2. CASE rh' = [rh EXCEPT ![t] = NoHandler]
    BY <1>4, <2>2 DEF NoHandler
  <2> QED
    BY <1>1, <2>1, <2>2
<1>6. Through(c) = b /\ Through(c)' = h
  <2>1. Delivers(c) /\ ~Delivers(c)'
    BY <1>0, <1>1, <1>4, <1>5 DEF Delivers
  <2> QED
    BY <1>0, <1>1, <1>3, <1>4, <2>1 DEF Through
<1>7. \A d \in Conns : d # c => Passed(d)' = Passed(d)
  <2> SUFFICES ASSUME NEW d \in Conns, d # c PROVE Through(d)' = Through(d)
    BY <1>1 DEF Passed
  <2>0. ThrOf[d] \in Threads
    BY ThreadAssumption
  <2>1. CASE ThrOf[d] = t
    <3>1. ~Delivers(d) /\ ~Delivers(d)'
      BY <1>0, <1>5, <2>1 DEF Delivers
    <3> QED
      BY <1>1, <3>1 DEF Through
  <2>2. CASE ThrOf[d] # t
    <3>1. rh'[ThrOf[d]] = rh[ThrOf[d]]
      BY <1>5, <2>0, <2>2
    <3> QED
      BY <1>1, <3>1 DEF Through, Delivers
  <2> QED
    BY <2>1, <2>2
<1>8. Passed(c)' = Passed(c) \cup ((b + 1)..(b + n)) /\ Passed(c) \subseteq 1..b
  <2>1. Passed(c) = (1..b) \ lost[c] /\ Passed(c)' = (1..h) \ lost[c]
    BY <1>1, <1>6 DEF Passed
  <2>2. b + n <= h /\ \A f \in (b + 1)..h : f \in lost[c] <=> b + n < f
    BY <1>4 DEF Holds
  <2>3. ASSUME NEW f
        PROVE  f \in (1..h) \ lost[c] <=> f \in (1..b) \ lost[c] \/ f \in (b + 1)..(b + n)
    <3>1. CASE f \in 1..b
      BY <1>2, <1>4, <2>2, <3>1
    <3>2. CASE f \in (b + 1)..h
      <4>1. f \in lost[c] <=> b + n < f
        BY <2>2, <3>2
      <4> QED
        BY <1>2, <1>4, <2>2, <3>2, <4>1
    <3>3. CASE f \notin 1..b /\ f \notin (b + 1)..h
      BY <1>2, <1>4, <2>2, <3>3
    <3> QED
      BY <3>1, <3>2, <3>3
  <2> QED
    BY <2>1, <2>3
<1>9. CntExact => CntExact'
  BY <1>5 DEF CntExact
<1>10. \A d \in Conns : /\ InOrder(d, got[d], ev, Passed(d))
                        /\ Passed(d) \subseteq Passed(d)'
  BY <1>7, <1>8 DEF EventsInv, OrderInv
<1>11. ASSUME ~miscounted
       PROVE  /\ cnt = n /\ CntExact /\ (evtail <=> ev # << >>) /\ rcvqsz = Len(ev)
              /\ \A d \in Conns : Passed(d) \subseteq Elems(got[d]) \cup FramesIn(ev, d)
  BY <1>0, <1>1, <1>11 DEF EventsInv, CountInv, CntExact, TailExact, Complete
<1>12. CASE ~(cnt > 0)
  <2>1. ev' = ev /\ evtail' = evtail
    BY <1>1, <1>12
  <2>2. OrderInv'
    <3> SUFFICES ASSUME NEW d \in Conns PROVE InOrder(d, got[d], ev, Passed(d)')
      BY <1>1, <2>1 DEF OrderInv
    <3> QED
      BY <1>10, OrderWiden
  <2>3. ASSUME ~miscounted'
        PROVE  CntExact' /\ TailExact' /\ Complete' /\ rcvqsz' = Len(ev')
    <3>1. ~miscounted
      BY <1>1, <2>3
    <3>2. cnt = 0 /\ n = 0
      BY <1>2, <1>11, <1>12, <3>1
    <3>3. Passed(c)' = Passed(c)
      BY <1>4, <1>8, <3>2
    <3>4. Complete'
      BY <1>1, <1>7, <1>11, <2>1, <3>1, <3>3 DEF Complete
    <3>5. rcvqsz' = Len(ev')
      BY <1>1, <1>4, <1>11, <2>1, <3>1, <3>2
    <3>6. TailExact'
      BY <1>11, <2>1, <3>1 DEF TailExact
    <3> QED
      BY <1>9, <1>11, <3>1, <3>4, <3>5, <3>6
  <2>4. EventsInv'
    BY <2>2, <2>3 DEF EventsInv, CountInv
  <2> QED
    BY <1>0, <1>1, <1>2, <1>4, <1>11, <1>12, <2>1, <2>4
<1>13. CASE cnt > 0
  <2>1. PICK E \in Seq(Event) : /\ ev' = E \o L
                                /\ evtail \/ ev = << >> => E = ev
                                /\ E = ev \/ (ev # << >> /\ E = <<Head(ev)>>)
    <3>1. CASE evtail \/ ev = << >>
      BY <1>1, <1>4, <1>13, <3>1 DEF AppendEvents
    <3>2. CASE ~(evtail \/ ev = << >>)
      <4>1. <<Head(ev)>> \in Seq(Event)
        BY <1>4, <3>2
      <4> QED
        BY <1>1, <1>13, <3>2, <4>1 DEF AppendEvents
    <3> QED
      BY <3>1, <3>2
  <2>2. \A d \in Conns : InOrder(d, got[d], E, Passed(d))
    <3> TAKE d \in Conns
    <3>1. CASE E = ev
      BY <1>10, <3>1
    <3>2. CASE ev # << >> /\ E = <<Head(ev)>>
      BY <1>4, <1>10, <3>2, OrderFirst
    <3> QED
      BY <2>1, <3>1, <3>2
  <2>3. \A d \in Conns : d # c => /\ InOrder(d, got[d], E \o L, Passed(d))
                                  /\ FramesIn(E \o L, d) = FramesIn(E, d)
    <3> TAKE d \in Conns
    <3> HAVE d # c
    <3>1. \A k \in 1..Len(L) : L[k][1] # d
      BY <1>2
    <3>2. InOrder(d, got[d], E, Passed(d)) /\ got[d] \in Seq(1..MaxFrames)
      BY <1>4, <2>2
    <3> QED
      BY <1>2, <3>1, <3>2, OrderOther
  <2>4. InOrder(c, got[c], E \o L, Passed(c)')
    <3>1. InOrder(c, got[c], E, Passed(c)) /\ got[c] \in Seq(1..MaxFrames)
      BY <1>4, <2>2
    <3>2. /\ b + Len(L) <= MaxFrames /\ \A k \in 1..Len(L) : L[k] = <<c, b + k>>
          /\ Passed(c) \cup ((b + 1)..(b + Len(L))) \subseteq Passed(c)'
      BY <1>2, <1>4, <1>8 DEF Holds
    <3>3. PICK S, X : S = Passed(c) /\ X = Passed(c)'
      OBVIOUS
    <3>4. /\ InOrder(c, got[c], E, S) /\ S \subseteq 1..b
          /\ S \cup ((b + 1)..(b + Len(L))) \subseteq X
      BY <1>8, <3>1, <3>2, <3>3
    <3>5. InOrder(c, got[c], E \o L, X)
      BY <1>2, <1>4, <3>1, <3>2, <3>4, OrderAppend
    <3> QED
      BY <3>3, <3>5
  <2>5. OrderInv'
    <3> SUFFICES ASSUME NEW d \in Conns PROVE InOrder(d, got[d], E \o L, Passed(d)')
      BY <1>1, <2>1 DEF OrderInv
    <3>1. CASE d = c
      BY <2>4, <3>1
    <3>2. CASE d # c
      BY <1>7, <2>3, <3>2
    <3> QED
      BY <3>1, <3>2
  <2>6. ASSUME ~miscounted
        PROVE  /\ CntExact' /\ TailExact' /\ Complete' /\ rcvqsz' = Len(ev')
               /\ ev' # << >>
    <3>1. cnt = n /\ E = ev /\ n > 0 /\ L # << >>
      BY <1>2, <1>11, <1>13, <2>1, <2>6
    <3>2. ev' = ev \o L /\ Len(ev') = Len(ev) + n /\ Len(ev) \in Nat
      <4>0. L \in Seq(Event) /\ ev \in Seq(Event)
        BY <1>2, <1>4
      <4>1. Len(ev \o L) = Len(ev) + Len(L)
        BY <4>0, ConcatPositions
      <4> QED
        BY <1>2, <1>4, <2>1, <3>1, <4>1
    <3>3. ev' # << >>
      BY <1>2, <3>1, <3>2
    <3>4. TailExact'
      BY <1>1, <1>13, <3>1, <3>3 DEF TailExact
    <3>5. rcvqsz' = Len(ev')
      BY <1>1, <1>11, <2>6, <3>1, <3>2
    <3>6. Complete'
      <4> SUFFICES ASSUME NEW d \in Conns
                   PROVE  Passed(d)' \subseteq Elems(got[d]) \cup FramesIn(ev \o L, d)
        BY <1>1, <3>2 DEF Complete
      <4>1. Passed(d) \subseteq Elems(got[d]) \cup FramesIn(ev, d)
        BY <1>11, <2>6
      <4>2. CASE d = c
        <5>1. FramesIn(L, c) = (b + 1)..(b + n)
          <6>1. b + Len(L) <= MaxFrames /\ \A k \in 1..Len(L) : L[k] = <<c, b + k>>
            BY <1>2, <1>4 DEF Holds
          <6>2. FramesIn(L, c) = (b + 1)..(b + Len(L))
            BY <1>2, <1>4, <6>1, FramesLocal
          <6> QED
            BY <1>2, <6>2
        <5>2. FramesIn(ev \o L, c) = FramesIn(ev, c) \cup FramesIn(L, c)
          BY <1>2, <1>4, FramesConcat
        <5> QED
          BY <1>8, <4>1, <4>2, <5>1, <5>2
      <4>3. CASE d # c
        BY <1>7, <2>3, <3>1, <4>1, <4>3
      <4> QED
        BY <4>2, <4>3
    <3> QED
      BY <1>9, <1>11, <2>6, <3>3, <3>4, <3>5, <3>6
  <2>7. EventsInv'
    BY <1>1, <2>5, <2>6 DEF EventsInv, CountInv
  <2> QED
    BY <1>0, <1>1, <1>2, <1>4, <1>11, <1>13, <2>6, <2>7
<1> QED
  BY <1>12, <1>13

\* The end of the bulk loop leaves the event queue alone.
LEMMA EventsReturn ==
    ASSUME Placed, EventsInv, BulkReturn
    PROVE  EventsInv'
<1> USE DEF peerVars, connVars, sockVars, history, harm
<1>1. /\ rh' = [t \in Threads |-> IF rh[t].pc = "bulk" THEN NoHandler ELSE rh[t]]
      /\ UNCHANGED <<rd, left, ev, evtail, rcvqsz, got, lost, miscounted>>
  BY DEF BulkReturn
<1>2. \A v \in Threads : /\ rh'[v].pc = "deliver" <=> rh[v].pc = "deliver"
                         /\ rh[v].pc = "deliver" => rh'[v] = rh[v]
  BY <1>1 DEF NoHandler
<1>3. \A d \in Conns : Passed(d)' = Passed(d)
  <2> TAKE d \in Conns
  <2>1. ThrOf[d] \in Threads
    BY ThreadAssumption
  <2>2. Through(d)' = Through(d)
    BY <1>1, <1>2, <2>1 DEF Through, Delivers
  <2> QED
    BY <1>1, <2>2 DEF Passed
<1>4. ~miscounted => CntExact'
  BY <1>2 DEF EventsInv, CountInv, CntExact
<1> QED
  BY <1>1, <1>3, <1>4, EventsKeep

\* What is taken is a frame its peer sent, newer than all before it; counted from
\* zero, nothing that is not lost was passed over.
LEMMA EventsTake ==
    ASSUME Placed, EventsInv, TakeEvent, ev # << >>
    PROVE  /\ EventsInv'
           /\ \E c \in Conns : \E f \in (1..sent[c]) \ lost[c] :
                 /\ \A g \in Elems(got[c]) : g < f
                 /\ ~miscounted => \A g \in 1..(f - 1) : g \in Elems(got[c]) \cup lost[c]
                 /\ got' = [got EXCEPT ![c] = Append(@, f)]
<1> USE DEF connVars, harm
<1>0. PICK c, f : c = Head(ev)[1] /\ f = Head(ev)[2]
  OBVIOUS
<1>1. /\ ev' = Tail(ev) /\ evtail' = (evtail /\ Tail(ev) # << >>)
      /\ got' = [got EXCEPT ![c] = Append(@, f)]
      /\ rcvqsz' = rcvqsz - 1 /\ UNCHANGED <<rd, left, rh, lost, miscounted>>
  BY <1>0 DEF TakeEvent
<1>2. ev \in Seq(Event) /\ got \in [Conns -> Seq(1..MaxFrames)] /\ rcvqsz \in Int
  BY DEF Placed, EventsOK, HistoryOK
<1>3. c \in Conns /\ Len(ev') = Len(ev) - 1 /\ ev' \in Seq(Event)
  BY <1>0, <1>1, <1>2 DEF Event
<1>4. \A d \in Conns : Passed(d)' = Passed(d)
  BY <1>1 DEF Passed, Through, Delivers
<1>5. \A d \in Conns : InOrder(d, got[d], ev, Passed(d)) /\ got[d] \in Seq(1..MaxFrames)
  BY <1>2 DEF EventsInv, OrderInv
<1>6. /\ f \in Passed(c) /\ \A g \in Elems(got[c]) : g < f
      /\ f \in 1..MaxFrames
      /\ \A g \in FramesIn(ev, c) : g = f \/ f < g
      /\ Elems(Append(got[c], f)) \cup FramesIn(Tail(ev), c) = Elems(got[c]) \cup FramesIn(ev, c)
      /\ InOrder(c, Append(got[c], f), Tail(ev), Passed(c))
  BY <1>0, <1>2, <1>3, <1>5, OrderTake
<1>7. \A d \in Conns : d # c => /\ InOrder(d, got[d], Tail(ev), Passed(d))
                                /\ FramesIn(Tail(ev), d) = FramesIn(ev, d)
  BY <1>0, <1>2, <1>5, OrderTakeOther
<1>8. got'[c] = Append(got[c], f) /\ \A d \in Conns : d # c => got'[d] = got[d]
  BY <1>1, <1>2, <1>3
<1>9. OrderInv'
  <2> SUFFICES ASSUME NEW d \in Conns PROVE InOrder(d, got'[d], Tail(ev), Passed(d)')
    BY <1>1 DEF OrderInv
  <2>1. CASE d = c
    BY <1>4, <1>6, <1>8, <2>1
  <2>2. CASE d # c
    BY <1>4, <1>7, <1>8, <2>2
  <2> QED
    BY <2>1, <2>2
<1>10. ASSUME ~miscounted
       PROVE  /\ CntExact' /\ TailExact' /\ Complete' /\ rcvqsz' = Len(ev')
              /\ \A d \in Conns : Passed(d) \subseteq Elems(got[d]) \cup FramesIn(ev, d)
  <2>1. /\ CntExact /\ TailExact /\ rcvqsz = Len(ev)
        /\ \A d \in Conns : Passed(d) \subseteq Elems(got[d]) \cup FramesIn(ev, d)
    BY <1>10 DEF EventsInv, CountInv, Complete
  <2>2. CntExact'
    BY <1>1, <2>1 DEF CntExact
  <2>3. TailExact'
    BY <1>1, <2>1 DEF TailExact
  <2>4. rcvqsz' = Len(ev')
    BY <1>1, <1>3, <2>1
  <2>5. Complete'
    <3> SUFFICES ASSUME NEW d \in Conns
                 PROVE  Passed(d)' \subseteq Elems(got'[d]) \cup FramesIn(Tail(ev), d)
      BY <1>1 DEF Complete
    <3>1. CASE d = c
      BY <1>4, <1>6, <1>8, <2>1, <3>1
    <3>2. CASE d # c
      BY <1>4, <1>7, <1>8, <2>1, <3>2
    <3> QED
      BY <3>1, <3>2
  <2> QED
    BY <2>1, <2>2, <2>3, <2>4, <2>5
<1>11. EventsInv'
  BY <1>1, <1>9, <1>10 DEF EventsInv, CountInv
<1>12. Through(c) \in Nat /\ Through(c) <= sent[c] /\ sent[c] \in Nat
  BY <1>3, ThroughType
<1>13. f \in 1..Through(c) /\ f \notin lost[c]
  BY <1>6 DEF Passed
<1>14. f \in (1..sent[c]) \ lost[c]
  BY <1>12, <1>13
<1>15. ASSUME ~miscounted, NEW g \in 1..(f - 1)
       PROVE  g \in Elems(got[c]) \cup lost[c]
  <2>1. CASE g \in lost[c]
    BY <2>1
  <2>2. CASE g \notin lost[c]
    <3>1. g \in Passed(c)
      BY <1>12, <1>13, <1>15, <2>2 DEF Passed
    <3>2. g \in Elems(got[c]) \cup FramesIn(ev, c)
      BY <1>3, <1>10, <1>15, <3>1
    <3>3. ~(g = f \/ f < g)
      BY <1>13, <1>12, <1>15
    <3> QED
      BY <1>6, <3>2, <3>3
  <2> QED
    BY <2>1, <2>2
<1> QED
  BY <1>1, <1>3, <1>6, <1>11, <1>14, <1>15

-----------------------------------------------------------------------------
(* The whole invariant.                                                    *)

\* A waiting fsock_get_event without a signal has announced itself and misses
\* nothing; unless a wait was cut short or a cnt did not start at zero, a signal
\* is one for a waiting call that will find an event.
WaitInv ==
    /\ cpc = "wait" /\ efd = 0 => wantEfd = 1 /\ ev = << >>
    /\ ~cutShort /\ ~miscounted =>
          /\ ~aborted
          /\ efd > 0 => cpc = "wait" /\ wantEfd = 0 /\ ev # << >>
          /\ wantEfd = 1 => cpc = "wait" /\ efd = 0
          /\ cpc = "woken" => ev # << >>

DataInv == Placed /\ EventsInv /\ HwmHysteresis /\ WaitInv /\ reading \in {0, STOP_OP}

\* A delivery keeps the count, the high water mark and the hand-shake with the waiting
\* caller.
LEMMA DataDeliver ==
    ASSUME DataInv, NEW t \in Threads, Deliver(t)
    PROVE  EventsInv' /\ HwmHysteresis' /\ WaitInv'
<1> USE DEF peerVars, connVars, history, harm
<1>0. PICK n : n = rh[t].cnt
  OBVIOUS
<1>1. /\ EventsInv' /\ n \in Int /\ rcvqsz' = rcvqsz + n /\ UNCHANGED miscounted
      /\ ~(n > 0) => ev' = ev
      /\ ~miscounted => n \in Nat
      /\ ~miscounted /\ n > 0 => ev' # << >>
  BY <1>0, EventsDeliver DEF DataInv
<1>2. /\ efd' = IF n > 0 /\ wantEfd = 1 THEN efd + 1 ELSE efd
      /\ wantEfd' = IF n > 0 /\ wantEfd = 1 THEN 0 ELSE wantEfd
      /\ IF AboveHwm(rcvqsz') THEN reading' = STOP_OP ELSE reading' = reading
      /\ UNCHANGED <<cpc, cutShort, aborted>>
  BY <1>0 DEF Deliver, Signals
<1>3. wantEfd \in {0, 1} /\ efd \in Nat /\ rcvqsz \in Int /\ RcvHwm \in Nat
  BY RecvAssumption DEF DataInv, Placed, WaitOK, EventsOK
<1>4. HwmHysteresis'
  BY <1>1, <1>2, <1>3 DEF DataInv, HwmHysteresis, AboveHwm, STOP_OP
<1>5. WaitInv'
  <2>1. CASE n > 0 /\ wantEfd = 1
    <3>1. efd' = efd + 1 /\ wantEfd' = 0 /\ efd' > 0
      BY <1>1, <1>2, <1>3, <2>1
    <3>2. ~miscounted => ev' # << >>
      BY <1>1, <2>1
    <3> QED
      BY <1>1, <1>2, <1>3, <2>1, <3>1, <3>2 DEF DataInv, WaitInv
  <2>2. CASE ~(n > 0 /\ wantEfd = 1)
    <3>1. efd' = efd /\ wantEfd' = wantEfd
      BY <1>2, <2>2
    <3>2. CASE ~(n > 0)
      BY <1>1, <1>2, <3>1, <3>2 DEF DataInv, WaitInv
    <3>3. CASE n > 0
      <4>1. wantEfd # 1 /\ (~miscounted => ev' # << >>)
        BY <1>1, <2>2, <3>3
      <4> QED
        BY <1>1, <1>2, <3>1, <4>1 DEF DataInv, WaitInv
    <3> QED
      BY <3>2, <3>3
  <2> QED
    BY <2>1, <2>2
<1> QED
  BY <1>1, <1>4, <1>5

\* So does taking an event.
LEMMA DataTake ==
    ASSUME DataInv, TakeEvent, ev # << >>, cpc \in {"idle", "woken"}, aborted' = FALSE, ~aborted
    PROVE  EventsInv' /\ HwmHysteresis' /\ WaitInv'
<1>1. EventsInv'
  BY EventsTake DEF DataInv
<1>2. /\ rcvqsz' = rcvqsz - 1 /\ cpc' \in {"bulk", "idle"}
      /\ IF BelowHwm(rcvqsz - 1) THEN reading' = 0 ELSE reading' = reading
      /\ UNCHANGED <<wantEfd, efd, cutShort, miscounted>>
  BY DEF TakeEvent, harm
<1>3. rcvqsz \in Int /\ RcvHwm \in Nat /\ wantEfd \in {0, 1} /\ efd \in Nat
  BY RecvAssumption DEF DataInv, Placed, EventsOK, WaitOK
<1>4. HwmHysteresis'
  BY <1>2, <1>3 DEF DataInv, HwmHysteresis, BelowHwm, STOP_OP
<1>5. WaitInv'
  <2>1. ASSUME ~cutShort, ~miscounted
        PROVE  efd = 0 /\ wantEfd = 0
    BY <1>3, <2>1 DEF DataInv, WaitInv
  <2> QED
    BY <1>2, <2>1 DEF WaitInv
<1> QED
  BY <1>1, <1>4, <1>5

\* Every step keeps count, high water mark and hand-shake.
LEMMA DataNext ==
    ASSUME DataInv, [Next]_vars, reading' \in {0, STOP_OP}
    PROVE  DataInv'
<1> USE DEF peerVars, connVars, sockVars, history, harm
<1> SUFFICES EventsInv' /\ HwmHysteresis' /\ WaitInv'
  BY PlacedNext DEF DataInv
<1>0. Placed /\ EventsInv /\ HwmHysteresis /\ WaitInv
  BY DEF DataInv
<1>1. ASSUME UNCHANGED <<ev, reading, rcvqsz, wantEfd, efd, cpc, cutShort, aborted>>,
             ~miscounted' => ~miscounted
      PROVE  HwmHysteresis' /\ WaitInv'
  BY <1>0, <1>1 DEF HwmHysteresis, WaitInv
<1>2. ASSUME UNCHANGED <<rd, left, rh, ev, evtail, rcvqsz, got, lost, miscounted>>
      PROVE  EventsInv'
  <2>1. \A c \in Conns : Passed(c)' = Passed(c)
    BY <1>2 DEF Passed, Through, Delivers
  <2>2. ~miscounted => CntExact'
    BY <1>0, <1>2 DEF EventsInv, CountInv, CntExact
  <2> QED
    BY <1>0, <1>2, <2>1, <2>2, EventsKeep
<1>3. ASSUME NEW c \in Conns, Peer(c)
      PROVE  EventsInv' /\ HwmHysteresis' /\ WaitInv'
  BY <1>1, <1>2, <1>3 DEF Peer, PeerSend, PeerEnd
<1>4. ASSUME NEW c \in Conns, Handlers(c)
      PROVE  EventsInv' /\ HwmHysteresis' /\ WaitInv'
  <2>1. EventsInv' /\ (~miscounted' => ~miscounted)
    BY <1>0, <1>4, EventsHandlers
  <2>2. UNCHANGED <<ev, reading, rcvqsz, wantEfd, efd, cpc, cutShort, aborted>>
    BY <1>4 DEF Handlers, Read, ReadEof, ReadBad, ReadError
  <2> QED
    BY <1>1, <2>1, <2>2
<1>5. ASSUME NEW t \in Threads, Worker(t) \/ Jobs(t)
      PROVE  EventsInv' /\ HwmHysteresis' /\ WaitInv'
  <2>1. CASE Deliver(t)
    BY <2>1, DataDeliver
  <2>2. CASE Run(t) \/ Async(t)
    BY <1>1, <1>2, <2>2 DEF Run, Async
  <2> QED
    BY <1>5, <2>1, <2>2 DEF Worker, Jobs
<1>6. CASE Bulk
  <2>1. CASE BulkLoop \/ BulkFree
    BY <1>1, <1>2, <2>1 DEF BulkLoop, BulkFree
  <2>2. CASE BulkReturn
    <3>1. EventsInv'
      BY <1>0, <2>2, EventsReturn
    <3>2. /\ cpc' = IF cpc = "bulk" THEN "idle" ELSE cpc
          /\ UNCHANGED <<ev, reading, rcvqsz, wantEfd, efd, cutShort, aborted, miscounted>>
      BY <2>2 DEF BulkReturn
    <3>3. HwmHysteresis' /\ WaitInv'
      BY <1>0, <3>2 DEF HwmHysteresis, WaitInv
    <3> QED
      BY <3>1, <3>3
  <2> QED
    BY <1>6, <2>1, <2>2 DEF Bulk
<1>7. CASE Consumer
  <2>0. ~aborted /\ wantEfd \in {0, 1} /\ efd \in Nat
    BY <1>0, <1>7 DEF Consumer, Placed, WaitOK
  <2>1. CASE GetEvent
    <3>1. aborted' = FALSE
      BY <1>0, <2>0, <2>1 DEF GetEvent, Placed, HistoryOK
    <3> QED
      BY <2>0, <2>1, <3>1, DataTake DEF GetEvent
  <2>2. CASE GetEventWait
    <3>1. EventsInv'
      BY <1>2, <2>2 DEF GetEventWait
    <3>2. /\ cpc = "idle" /\ ev = << >> /\ wantEfd' = 1 /\ cpc' = "wait"
          /\ UNCHANGED <<ev, reading, rcvqsz, efd, cutShort, aborted, miscounted>>
      BY <2>2 DEF GetEventWait, RaiseWantEfd
    <3>3. HwmHysteresis' /\ WaitInv'
      BY <1>0, <2>0, <3>2 DEF HwmHysteresis, WaitInv
    <3> QED
      BY <3>1, <3>3
  <2>3. CASE Woken
    <3>1. EventsInv'
      BY <1>2, <2>3 DEF Woken
    <3>2. /\ cpc = "wait" /\ efd > 0 /\ efd' = 0 /\ cpc' = "woken"
          /\ UNCHANGED <<ev, reading, rcvqsz, wantEfd, cutShort, aborted, miscounted>>
      BY <2>3 DEF Woken
    <3>3. HwmHysteresis' /\ WaitInv'
      BY <1>0, <2>0, <3>2 DEF HwmHysteresis, WaitInv
    <3> QED
      BY <3>1, <3>3
  <2>4. CASE GetEventWoken
    <3>1. CASE ev = << >>
      <4>1. /\ cpc = "woken" /\ UNCHANGED <<ev, reading, rcvqsz, wantEfd, efd, cpc, cutShort, miscounted>>
        BY <2>4, <3>1 DEF GetEventWoken
      <4>2. EventsInv'
        BY <1>2, <2>4, <3>1 DEF GetEventWoken
      <4>3. HwmHysteresis' /\ WaitInv'
        BY <1>0, <2>0, <3>1, <4>1 DEF HwmHysteresis, WaitInv
      <4> QED
        BY <4>2, <4>3
    <3>2. CASE ev # << >>
      BY <2>0, <2>4, <3>2, DataTake DEF GetEventWoken
    <3> QED
      BY <3>1, <3>2
  <2> QED
    BY <1>7, <2>1, <2>2, <2>3, <2>4 DEF Consumer
<1>8. CASE CutShort
  <2>1. EventsInv'
    BY <1>2, <1>8 DEF CutShort, TimeOut, Interrupted
  <2>2. /\ cutShort' = TRUE /\ cpc' \in {cpc, "idle"}
        /\ UNCHANGED <<ev, reading, rcvqsz, wantEfd, efd, miscounted>>
    BY <1>8 DEF CutShort, TimeOut, Interrupted
  <2>3. HwmHysteresis' /\ WaitInv'
    BY <1>0, <2>2 DEF HwmHysteresis, WaitInv
  <2> QED
    BY <2>1, <2>3
<1>9. CASE UNCHANGED vars
  BY <1>1, <1>2, <1>9 DEF vars
<1> QED
  BY <1>3, <1>4, <1>5, <1>6, <1>7, <1>8, <1>9 DEF Next

\* A new socket satisfies all of it.
LEMMA RecvInit ==
    ASSUME Init
    PROVE  Governed /\ DataInv
<1> USE DEF Init
<1>1. Governed
  <2>1. ThreadInv /\ NoLostWakeup /\ \A c \in Conns : Follows(c)
    BY ThreadInitInv
  <2>2. AllRun /\ request # "STOP_READ"
    BY DEF AllRun, ThreadInit
  <2>3. zombie \in [Conns -> BOOLEAN]
    BY Zenon
  <2>4. reading \in {0, STOP_OP} /\ reading # STOP_OP
    BY DEF STOP_OP
  <2> QED
    BY <2>1, <2>2, <2>3, <2>4 DEF Governed
<1>2. \A t \in Threads : rh[t] = NoHandler /\ rh[t].pc = "idle"
  BY DEF NoHandler
<1>3. Placed
  <2>1. PeersOK /\ WaitOK
    BY RecvAssumption DEF PeersOK, WaitOK
  <2>2. part \in [Conns -> BOOLEAN]
    BY Zenon
  <2>3. ConnsOK
    BY <2>2, RecvAssumption DEF ConnsOK
  <2>4. NoHandler \in Handler
    BY RecvAssumption, ThreadAssumption DEF NoHandler, Handler
  <2>5. HandlersOK
    BY <2>4 DEF HandlersOK
  <2>6. evtail \in BOOLEAN /\ cutShort \in BOOLEAN /\ aborted \in BOOLEAN
    BY Zenon
  <2>7. EventsOK /\ HistoryOK
    BY <2>6 DEF EventsOK, HistoryOK
  <2>8. ReadPlaced /\ HandlerPlaced
    BY <1>2 DEF ReadPlaced, HandlerPlaced
  <2>9. miscounted \in BOOLEAN
    BY Zenon
  <2>10. HarmOK
    BY <2>9 DEF HarmOK
  <2> QED
    BY <2>1, <2>3, <2>5, <2>7, <2>8, <2>10 DEF Placed
<1>4. EventsInv
  <2>1. CntExact /\ TailExact /\ rcvqsz = Len(ev)
    BY <1>2 DEF CntExact, TailExact
  <2>2. \A c \in Conns : Passed(c) = {}
    <3> TAKE c \in Conns
    <3>1. Through(c) = 0
      BY <1>2, ThreadAssumption DEF Through, Delivers
    <3> QED
      BY <3>1 DEF Passed
  <2>3. Complete
    BY <2>2 DEF Complete
  <2>4. OrderInv
    <3> SUFFICES ASSUME NEW c \in Conns
                 PROVE  InOrder(c, << >>, << >>, {})
      BY <2>2 DEF OrderInv
    <3>1. Len(<< >>) = 0 /\ 1..0 = {} /\ Elems(<< >>) = {}
      BY DEF Elems
    <3> QED
      BY <3>1 DEF InOrder, FramesIn, Increasing
  <2> QED
    BY <2>1, <2>3, <2>4 DEF EventsInv, CountInv
<1>5. HwmHysteresis /\ WaitInv /\ reading \in {0, STOP_OP}
  BY RecvAssumption DEF HwmHysteresis, WaitInv, STOP_OP
<1> QED
  BY <1>1, <1>3, <1>4, <1>5 DEF DataInv

-----------------------------------------------------------------------------
(* The theorems.                                                           *)

\* Every reachable state satisfies it.
LEMMA RecvInvariant == Spec => [](Governed /\ DataInv)
<1>1. Init => Governed /\ DataInv
  BY RecvInit
<1>2. (Governed /\ DataInv) /\ [Next]_vars => (Governed /\ DataInv)'
  <2> SUFFICES ASSUME Governed, DataInv, [Next]_vars
               PROVE  Governed' /\ DataInv'
    OBVIOUS
  <2>1. Governed'
    BY GovernedNext
  <2>2. reading' \in {0, STOP_OP}
    BY <2>1 DEF Governed
  <2> QED
    BY <2>1, <2>2, DataNext
<1> QED
  BY <1>1, <1>2, PTL DEF Spec

\* Every variable of the receive path keeps its type, whatever cnt starts with.
THEOREM RecvTypes == Spec => []RecvTypeOK
<1>1. Governed /\ DataInv => RecvTypeOK
  BY PlacedTypes DEF DataInv
<1> QED
  BY <1>1, RecvInvariant, PTL

\* Whatever cnt starts with, the read watchers of the open connections end up
\* the way sock->reading says, as sock.h:22-25 promises.
THEOREM ReadingGoverns == Spec => []WatchersFollowReading
<1>1. Governed => WatchersFollowReading
  <2> SUFFICES ASSUME Governed PROVE WatchersFollowReading
    OBVIOUS
  <2>1. \A c \in Conns \ {d \in Conns : zombie[d]} : Follows(c)
    BY DEF Governed
  <2>2. LastRequestWins({d \in Conns : zombie[d]})
    BY <2>1, FollowsIff DEF Governed
  <2> QED
    BY <2>2 DEF WatchersFollowReading, Governed
<1> QED
  BY <1>1, RecvInvariant, PTL

\* Frames are never doubled or reordered between the read handlers and
\* fsock_get_event, however many threads splice into the queue and whatever cnt
\* starts with; until one starts with something other than zero, none is lost
\* but those there was no memory for, and rcvqsz counts the queue.
THEOREM EventsAreExact == Spec => []EventsExact
<1>1. DataInv => EventsExact
  <2> SUFFICES ASSUME DataInv PROVE EventsExact
    OBVIOUS
  <2>1. OrderInv /\ CountInv
    BY DEF DataInv, EventsInv
  <2>2. InOrderOnce
    BY <2>1 DEF InOrderOnce, OrderInv, CountInv, Complete, Passed
  <2> QED
    BY <2>1, <2>2 DEF EventsExact, RcvqszExact, CountInv
<1> QED
  BY <1>1, RecvInvariant, PTL

\* The stop flag agrees with the watchers and, in the direction that keeps the
\* queue within its mark, with rcvqsz, whatever cnt starts with; that a stop will
\* end holds until a cnt starts with something other than zero.
THEOREM StopsAreConsistent == Spec => []StopsConsistent
<1>1. DataInv => HwmHysteresis
  BY DEF DataInv
<1> QED
  BY <1>1, RecvInvariant, ReadingGoverns, PTL DEF StopsConsistent

\* No fsock_get_event sleeps on queued events, whatever cnt starts with, and no
\* wake-up is a false one until a wait of the application was cut short or a cnt
\* started with something other than zero.
THEOREM HandShakeHolds == Spec => []HandShake
<1>1. Governed /\ DataInv => HandShake
  <2> SUFFICES ASSUME DataInv PROVE HandShake
    OBVIOUS
  <2>1. efd \in Nat /\ WaitInv
    BY DEF DataInv, Placed, WaitOK
  <2> QED
    BY <2>1 DEF WaitInv, HandShake, NoMissedSignal, WakesWithEvent
<1> QED
  BY <1>1, RecvInvariant, PTL

\* The receive path refines the stream of frames each connection promises, with
\* the frames there was no memory for as the ones that are gone; it gets loose
\* with the first cnt that does not start at zero.
THEOREM StreamImplemented == Spec => ImplementsStream
<1>1. Init => Stream!Init
  BY DEF Init, Stream!Init
<1>2. DataInv /\ [Next]_vars => [Stream!Next]_(Stream!vars)
  <2> USE DEF connVars, history, harm
  <2> SUFFICES ASSUME DataInv, [Next]_vars
               PROVE  Stream!Next \/ UNCHANGED <<sent, got, lost, miscounted>>
    BY DEF Stream!vars
  <2>1. ASSUME NEW c \in Conns, Peer(c)
        PROVE  Stream!Next \/ UNCHANGED <<sent, got, lost, miscounted>>
    <3>1. CASE PeerSend(c)
      BY <3>1 DEF PeerSend, Stream!Next, Stream!Send
    <3>2. CASE PeerEnd(c)
      BY <3>2 DEF PeerEnd
    <3> QED
      BY <2>1, <3>1, <3>2 DEF Peer
  <2>2. ASSUME NEW c \in Conns, Handlers(c)
        PROVE  Stream!Next
    <3>1. /\ ~miscounted' => ~miscounted
          /\ miscounted' \in BOOLEAN
          /\ lost' = lost \/ \E f \in (1..sent[c]) \ Elems(got[c]) :
                                lost' = [lost EXCEPT ![c] = @ \cup {f}]
          /\ UNCHANGED <<sent, got>>
      BY <2>2, EventsHandlers DEF DataInv
    <3>2. miscounted' \in {miscounted, TRUE}
      BY <3>1 DEF DataInv, Placed, HarmOK
    <3>3. Stream!Lose(c)
      BY <3>1, <3>2 DEF Stream!Lose, Elems, Stream!Elems
    <3> QED
      BY <3>3 DEF Stream!Next
  <2>3. ASSUME NEW t \in Threads, Worker(t) \/ Jobs(t)
        PROVE  UNCHANGED <<sent, got, lost, miscounted>>
    BY <2>3 DEF Worker, Jobs, Deliver, Run, Async, peerVars
  <2>4. CASE Bulk \/ CutShort
    BY <2>4 DEF Bulk, BulkLoop, BulkFree, BulkReturn, CutShort, TimeOut, Interrupted, peerVars
  <2>5. ASSUME TakeEvent, ev # << >>
        PROVE  Stream!Next
    <3>1. \E c \in Conns : \E f \in (1..sent[c]) \ lost[c] :
             /\ \A g \in Elems(got[c]) : g < f
             /\ ~miscounted => \A g \in 1..(f - 1) : g \in Elems(got[c]) \cup lost[c]
             /\ got' = [got EXCEPT ![c] = Append(@, f)]
      BY <2>5, EventsTake DEF DataInv
    <3>2. UNCHANGED <<sent, lost, miscounted>>
      BY <2>5 DEF TakeEvent, peerVars
    <3> QED
      BY <3>1, <3>2 DEF Stream!Next, Stream!Get, Elems, Stream!Elems
  <2>6. CASE Consumer
    <3>1. CASE GetEvent
      BY <2>5, <3>1 DEF GetEvent
    <3>2. CASE GetEventWait \/ Woken
      BY <3>2 DEF GetEventWait, Woken, peerVars
    <3>3. CASE GetEventWoken
      <4>1. CASE ev = << >>
        BY <3>3, <4>1 DEF GetEventWoken, peerVars
      <4>2. CASE ev # << >>
        BY <2>5, <3>3, <4>2 DEF GetEventWoken
      <4> QED
        BY <4>1, <4>2
    <3> QED
      BY <2>6, <3>1, <3>2, <3>3 DEF Consumer
  <2>7. CASE UNCHANGED vars
    BY <2>7 DEF vars, peerVars
  <2> QED
    BY <2>1, <2>2, <2>3, <2>4, <2>6, <2>7 DEF Next
<1> QED
  BY <1>1, <1>2, RecvInvariant, PTL DEF Spec, ImplementsStream, Stream!Spec
=============================================================================
