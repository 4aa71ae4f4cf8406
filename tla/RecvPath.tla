------------------------------ MODULE RecvPath ------------------------------
(***************************************************************************)
(* From the wire to the application: the read handler of each connection   *)
(* (core/sock.c), the event queue, its eventfd and the receive high water  *)
(* mark of the owner socket, and fsock_get_event (core/global.c), on top   *)
(* of the worker threads of FsockThread.                                   *)
(*                                                                         *)
(* sock->sync protects the owner's fields.  It is held for one step, or    *)
(* for a whole bulk loop: then bulk.on says so.  Bytes are abstracted to   *)
(* frame numbers; a read returns some whole frames, or only a part of one. *)
(* parser.in_frames holds the last left[c] of the rd[c] frames parsed.     *)
(***************************************************************************)
EXTENDS FsockThread, Integers

CONSTANTS RcvHwm,           \* sock->rcvhwm, 0 when switched off
          MaxFrames,        \* bound: frames a peer sends
          MaxChunk,         \* bound: whole frames in one read of 1400 bytes
          Endings,          \* how a peer may end its stream: it closes ("fin"),
                            \* sends malformed bytes ("bad") or resets ("rst")
          AllowNoMem,       \* fsock_queue_event may fail with ENOMEM
          AllowTimeout,     \* nn_efd_wait may time out
          AllowSignal,      \* a signal handler may interrupt its poll
          UninitCnt         \* the values the uninitialised cnt may start with

ASSUME RecvAssumption ==
    /\ RcvHwm \in Nat /\ MaxFrames \in Nat /\ MaxChunk \in Nat
    /\ Endings \subseteq {"fin", "bad", "rst"}
    /\ AllowTimeout \in BOOLEAN /\ AllowSignal \in BOOLEAN /\ AllowNoMem \in BOOLEAN
    /\ UninitCnt \subseteq Int

STOP_OP == -1               \* FSOCK_SOCK_STOP_OP

VARIABLES
    sent, ending,           \* the peer: frames sent so far, how its stream ends
    rd, part,               \* frames read and parsed, a part of the next one is
    left,                   \* how many of them are still in parser.in_frames
    zombie,                 \* FSOCK_SOCK_ZOMBIE
    rh,                     \* rh[t]: locals of the read handler running on t
    ev, evtail,             \* sock->events, and whether its tail is set
    reading, rcvqsz,        \* sock->reading, sock->rcvqsz
    wantEfd, efd,           \* sock->want_efd, the counter of sock->efd
    cpc,                    \* where the thread calling fsock_get_event is
    got, cutShort,          \* history: what fsock_get_event returned, and that a
                            \* wait of it expired or was interrupted
    lost, miscounted,       \* history: frames taken from the parser for which
                            \* there was no memory, and that a cnt did not
                            \* happen to start at zero
    aborted                 \* an assertion failed, the process is gone

peerVars == <<sent, ending>>
connVars == <<rd, part, left, zombie>>
sockVars == <<ev, evtail, reading, rcvqsz, wantEfd, efd>>
history == <<got, cutShort>>
harm == <<lost, miscounted>>
vars == <<threadVars, peerVars, connVars, rh, sockVars, cpc, history, harm,
          aborted>>

NoHandler == [pc |-> "idle", c |-> 0, base |-> 0, n |-> 0, cnt |-> 0]

RecvTypeOK ==
    /\ ThreadTypeOK
    /\ sent \in [Conns -> 0..MaxFrames]
    /\ ending \in [Conns -> {"open", "fin", "bad", "rst"}]
    /\ rd \in [Conns -> 0..MaxFrames] /\ part \in [Conns -> BOOLEAN]
    /\ left \in [Conns -> 0..MaxFrames] /\ zombie \in [Conns -> BOOLEAN]
    /\ rh \in [Threads -> [pc : {"idle", "deliver", "bulk"}, c : 0..NConns,
                           base : 0..MaxFrames, n : 0..MaxFrames, cnt : Int]]
    /\ ev \in Seq(Conns \X (1..MaxFrames)) /\ evtail \in BOOLEAN
    /\ reading \in {0, STOP_OP} /\ rcvqsz \in Int
    /\ wantEfd \in {0, 1} /\ efd \in Nat
    /\ cpc \in {"idle", "wait", "woken", "bulk"}
    /\ got \in [Conns -> Seq(1..MaxFrames)] /\ cutShort \in BOOLEAN
    /\ lost \in [Conns -> SUBSET (1..MaxFrames)] /\ miscounted \in BOOLEAN
    /\ aborted \in BOOLEAN

\* fsock_sock_init and an established connection per index.
Init ==
    /\ ThreadInit
    /\ sent = [c \in Conns |-> 0] /\ ending = [c \in Conns |-> "open"]
    /\ rd = [c \in Conns |-> 0] /\ part = [c \in Conns |-> FALSE]
    /\ left = [c \in Conns |-> 0] /\ zombie = [c \in Conns |-> FALSE]
    /\ rh = [t \in Threads |-> NoHandler]
    /\ ev = << >> /\ evtail = FALSE
    /\ reading = 0 /\ rcvqsz = 0
    /\ wantEfd = 0 /\ efd = 0
    /\ cpc = "idle"
    /\ got = [c \in Conns |-> << >>] /\ cutShort = FALSE
    /\ lost = [c \in Conns |-> {}] /\ miscounted = FALSE
    /\ aborted = FALSE

-----------------------------------------------------------------------------
(* The peers.                                                              *)
PeerSend(c) ==
    /\ ending[c] = "open" /\ sent[c] < MaxFrames
    /\ sent' = [sent EXCEPT ![c] = @ + 1]
    /\ UNCHANGED <<threadVars, ending, connVars, rh, sockVars, cpc, history, harm, aborted>>

PeerEnd(c) ==
    /\ ending[c] = "open"
    /\ \E e \in Endings : ending' = [ending EXCEPT ![c] = e]
    /\ UNCHANGED <<threadVars, sent, connVars, rh, sockVars, cpc, history, harm, aborted>>

-----------------------------------------------------------------------------
(* The worker threads, one event at a time.                                *)
Idle(t) == rh[t].pc = "idle"

\* The event loop serves a watcher when it is not inside another routine.
Serves(c) == rio[c] /\ Idle(ThrOf[c]) /\ batch[ThrOf[c]] = << >>

Avail(c) == sent[c] - rd[c]

\* The loop over parser.in_frames, which new frames have just joined: n of them
\* go to the local queue.  Without memory for an event the loop breaks: the
\* frame is off the list and nowhere else, the rest waits for the next read.
\* cnt has counted the n frames from whatever it started with.
KeepsUnqueued(c, new) ==                                \* the frame stays on the list
    LET base == rd[c] - left[c]
    IN \E n \in 0..(left[c] + new), u \in UninitCnt :
          /\ n < left[c] + new => AllowNoMem
          /\ left' = [left EXCEPT ![c] = left[c] + new - n]
          /\ lost' = IF n < left[c] + new THEN [lost EXCEPT ![c] = @ \cup {base + n + 1}]
                     ELSE lost
          /\ rh' = [rh EXCEPT ![ThrOf[c]] = [pc |-> "deliver", c |-> c, base |-> base,
                                             n |-> n, cnt |-> u + n]]
          /\ miscounted' = (miscounted \/ u # 0)

TakeFrames(c, new) ==
    LET base == rd[c] - left[c]
        had == left[c] + new
    IN \E n \in 0..had, u \in UninitCnt :
          /\ n < had => AllowNoMem
          /\ left' = [left EXCEPT ![c] = IF n < had THEN had - n - 1 ELSE 0]
          /\ lost' = IF n < had THEN [lost EXCEPT ![c] = @ \cup {base + n + 1}] ELSE lost
          /\ rh' = [rh EXCEPT ![ThrOf[c]] = [pc |-> "deliver", c |-> c, base |-> base,
                                             n |-> n, cnt |-> u + n]]
          /\ miscounted' = (miscounted \/ u # 0)

\* read and parse succeed and bring some whole frames, or only a part of one.
Read(c) ==
    /\ Serves(c)
    /\ \E n \in 0..MaxChunk, p \in BOOLEAN :
          /\ n <= Avail(c)
          /\ n = 0 => ~part[c] /\ p /\ Avail(c) > 0
          /\ p => n < Avail(c)
          /\ rd' = [rd EXCEPT ![c] = @ + n]
          /\ part' = [part EXCEPT ![c] = p]
          /\ TakeFrames(c, n)
    /\ UNCHANGED <<threadVars, peerVars, zombie, sockVars, cpc, history, aborted>>

\* The stop path: both watchers stop, the connection is a zombie.
ZombieStillReads(c) ==                                  \* rio not stopped
    /\ wio' = [wio EXCEPT ![c] = FALSE]
    /\ zombie' = [zombie EXCEPT ![c] = TRUE]
    /\ UNCHANGED <<jobs, batch, async, rio, bulk, request, life>>

CloseConn(c) ==
    /\ rio' = [rio EXCEPT ![c] = FALSE]
    /\ wio' = [wio EXCEPT ![c] = FALSE]
    /\ zombie' = [zombie EXCEPT ![c] = TRUE]
    /\ UNCHANGED <<jobs, batch, async, bulk, request, life>>

ReadEof(c) ==
    /\ Serves(c) /\ Avail(c) = 0 /\ ending[c] = "fin"
    /\ CloseConn(c)
    /\ UNCHANGED <<peerVars, rd, part, left, rh, sockVars, cpc, history, harm, aborted>>

\* A parse error: whole frames of the same read stay behind in the parser.
\* Nothing but the end of the stream follows the malformed bytes.
ReadBad(c) ==
    /\ Serves(c) /\ Avail(c) <= MaxChunk /\ ending[c] = "bad"
    /\ CloseConn(c)
    /\ rd' = [rd EXCEPT ![c] = sent[c]]
    /\ left' = [left EXCEPT ![c] = @ + Avail(c)]
    /\ ending' = [ending EXCEPT ![c] = "fin"]
    /\ UNCHANGED <<sent, part, rh, sockVars, cpc, history, harm, aborted>>

\* A failing read that is not EAGAIN reaches the parser as a length of -1: it
\* rejects it, or finds nothing to parse.  The end of the stream is read next.
ReadError(c) ==
    /\ Serves(c) /\ Avail(c) = 0 /\ ending[c] = "rst"
    /\ ending' = [ending EXCEPT ![c] = "fin"]
    /\ \/ CloseConn(c) /\ UNCHANGED <<left, rh, harm>>
       \/ TakeFrames(c, 0) /\ UNCHANGED <<threadVars, zombie>>
    /\ UNCHANGED <<sent, rd, part, sockVars, cpc, history, aborted>>

\* The local queue of the handler: the n frames it took from parser.in_frames.
Local(t) == [k \in 1..rh[t].n |-> <<rh[t].c, rh[t].base + k>>]

\* The splice behind sock->events; a NULL tail with a head set loses what
\* hangs behind the head.
PrependEvents(s) == s \o ev

AppendEvents(s) == IF evtail \/ ev = << >> THEN ev \o s ELSE <<Head(ev)>> \o s

\* The wake-up of a waiting fsock_get_event.
Signals(cnt) == cnt > 0 /\ wantEfd = 1

\* cnt is added to rcvqsz, frames or not.
CountEvents(cnt) == rcvqsz + IF cnt > 0 THEN 1 ELSE 0       \* one per read

CountFrames(cnt) == rcvqsz + cnt

LateAboveHwm(q) == RcvHwm > 0 /\ RcvHwm + 1 < q        \* one frame too late

AboveHwm(q) == RcvHwm > 0 /\ RcvHwm < q

Deliver(t) ==
    /\ rh[t].pc = "deliver" /\ ~bulk.on
    /\ LET cnt == rh[t].cnt
           s == Local(t)
       IN /\ rcvqsz' = CountFrames(cnt)
          /\ IF cnt > 0
             THEN ev' = AppendEvents(s) /\ evtail' = (s # << >>)
             ELSE UNCHANGED <<ev, evtail>>
          /\ efd' = IF Signals(cnt) THEN efd + 1 ELSE efd
          /\ wantEfd' = IF Signals(cnt) THEN 0 ELSE wantEfd
    /\ IF AboveHwm(rcvqsz')
       THEN /\ reading' = STOP_OP
            /\ BulkBegin("STOP_READ")
            /\ rh' = [rh EXCEPT ![t].pc = "bulk"]
       ELSE /\ rh' = [rh EXCEPT ![t] = NoHandler]
            /\ UNCHANGED <<reading, bulk, request>>
    /\ UNCHANGED <<jobs, batch, async, rio, wio, life, peerVars, connVars, cpc, history, harm, aborted>>

Async(t) == /\ Idle(t) /\ AsyncRoutine(t)
            /\ UNCHANGED <<peerVars, connVars, rh, sockVars, cpc, history, harm, aborted>>

Run(t) == /\ RunTask(t)
          /\ UNCHANGED <<peerVars, connVars, rh, sockVars, cpc, history, harm, aborted>>

-----------------------------------------------------------------------------
(* The bulk loop, run by whoever holds sock->sync, and its end.            *)
BulkLoop == /\ BulkStep
            /\ UNCHANGED <<peerVars, connVars, rh, sockVars, cpc, history, harm, aborted>>

BulkFree == /\ BulkUnlock
            /\ UNCHANGED <<peerVars, connVars, rh, sockVars, cpc, history, harm, aborted>>

BulkReturn ==
    /\ BulkEnd
    /\ rh' = [t \in Threads |-> IF rh[t].pc = "bulk" THEN NoHandler ELSE rh[t]]
    /\ cpc' = IF cpc = "bulk" THEN "idle" ELSE cpc
    /\ UNCHANGED <<peerVars, connVars, sockVars, history, harm, aborted>>

-----------------------------------------------------------------------------
(* fsock_get_event.  With FSOCK_DONWAIT an empty queue changes nothing.    *)

NeverResume(q) == FALSE
BelowHwm(q) == RcvHwm > 0 /\ reading = STOP_OP /\ q < RcvHwm

\* From the assertion on: take the oldest event, perhaps resume reading.
TakeEvent ==
    LET e == Head(ev)
    IN /\ ev' = Tail(ev)
       /\ evtail' = (evtail /\ Tail(ev) # << >>)
       /\ got' = [got EXCEPT ![e[1]] = Append(@, e[2])]
       /\ rcvqsz' = rcvqsz - 1
       /\ IF BelowHwm(rcvqsz - 1)
          THEN reading' = 0 /\ BulkBegin("START_READ") /\ cpc' = "bulk"
          ELSE cpc' = "idle" /\ UNCHANGED <<reading, bulk, request>>
       /\ UNCHANGED <<jobs, batch, async, rio, wio, life, peerVars, connVars, rh,
                      wantEfd, efd, cutShort, harm>>

GetEvent ==
    /\ cpc = "idle" /\ ~bulk.on /\ ev # << >>
    /\ TakeEvent
    /\ UNCHANGED aborted

\* Nothing there: announce the wait and poll the eventfd.
LateWantEfd == wantEfd                  \* the flag is not raised

RaiseWantEfd == 1

GetEventWait ==
    /\ cpc = "idle" /\ ~bulk.on /\ ev = << >>
    /\ wantEfd' = RaiseWantEfd
    /\ cpc' = "wait"
    /\ UNCHANGED <<threadVars, peerVars, connVars, rh, ev, evtail, reading,
                   rcvqsz, efd, history, harm, aborted>>

\* The eventfd is readable: nn_efd_unsignal empties it.
Woken ==
    /\ cpc = "wait" /\ efd > 0
    /\ efd' = 0
    /\ cpc' = "woken"
    /\ UNCHANGED <<threadVars, peerVars, connVars, rh, ev, evtail, reading,
                   rcvqsz, wantEfd, history, harm, aborted>>

\* 10 seconds without a signal: want_efd stays raised.
TimeOut ==
    /\ AllowTimeout /\ cpc = "wait" /\ efd = 0
    /\ cpc' = "idle"
    /\ cutShort' = TRUE
    /\ UNCHANGED <<threadVars, peerVars, connVars, rh, sockVars, got, harm, aborted>>

\* A signal handler runs in the polling thread: -EINTR fails assert (rc == 0).
Interrupted ==
    /\ AllowSignal /\ cpc = "wait"
    /\ cutShort' = TRUE
    /\ aborted' = TRUE
    /\ UNCHANGED <<threadVars, peerVars, connVars, rh, sockVars, cpc, got, harm>>

\* The lock again, then assert (!fsock_queue_empty (&sock->events)).
GetEventWoken ==
    /\ cpc = "woken" /\ ~bulk.on
    /\ IF ev = << >>
       THEN UNCHANGED <<threadVars, peerVars, connVars, rh, sockVars, cpc, history, harm>>
       ELSE TakeEvent
    /\ aborted' = (ev = << >>)

-----------------------------------------------------------------------------
Peer(c) == ~aborted /\ (PeerSend(c) \/ PeerEnd(c))

Handlers(c) == ~aborted /\ (Read(c) \/ ReadEof(c) \/ ReadBad(c) \/ ReadError(c))

Worker(t) == ~aborted /\ (Deliver(t) \/ Run(t))

Jobs(t) == ~aborted /\ Async(t)

Bulk == ~aborted /\ (BulkLoop \/ BulkFree \/ BulkReturn)

Consumer == ~aborted /\ (GetEvent \/ GetEventWait \/ Woken \/ GetEventWoken)

CutShort == ~aborted /\ (TimeOut \/ Interrupted)

Next == \/ \E c \in Conns : Peer(c) \/ Handlers(c)
        \/ \E t \in Threads : Worker(t) \/ Jobs(t)
        \/ Bulk \/ Consumer \/ CutShort

Spec == Init /\ [][Next]_vars

\* libev calls every pending watcher of a loop in turn (strong fairness); the
\* rest is straight-line code; the application keeps calling fsock_get_event.
Fairness ==
    /\ \A c \in Conns : SF_vars(Handlers(c))
    /\ \A t \in Threads : WF_vars(Worker(t)) /\ SF_vars(Jobs(t))
    /\ WF_vars(Bulk) /\ WF_vars(Consumer)

FairSpec == Spec /\ Fairness

-----------------------------------------------------------------------------
(***************************************************************************)
(* Properties.                                                             *)
(***************************************************************************)
\* Is the handler on the thread of c holding frames of c?
Delivers(c) == rh[ThrOf[c]].pc = "deliver" /\ rh[ThrOf[c]].c = c

\* How many frames of c have passed the read handler.
Through(c) == IF Delivers(c) THEN rh[ThrOf[c]].base ELSE rd[c] - left[c]

Increasing(g) == \A j, k \in 1..Len(g) : j < k => g[j] < g[k]

\* The frames of c among the events s.
FramesIn(s, c) == {f \in 1..MaxFrames : <<c, f>> \in Elems(s)}

\* The frames g of c were handed out and others are queued in s, each once and in
\* order, none of them outside S.
InOrder(c, g, s, S) ==
    /\ Elems(g) \cup FramesIn(s, c) \subseteq S
    /\ Increasing(g)
    /\ \A f \in Elems(g) : \A e \in FramesIn(s, c) : f < e
    /\ \A j, k \in 1..Len(s) : j < k /\ s[j][1] = c /\ s[k][1] = c => s[j][2] < s[k][2]

\* A frame is never doubled and never overtaken, whatever cnt starts with; and
\* while it starts at zero every frame taken from the parser, except the ones
\* there was no memory for, is with the application, in sock->events or in the
\* read handler: the splices of several threads and the pops lose none.
InOrderOnce ==
    \A c \in Conns :
       LET S == (1..Through(c)) \ lost[c]
       IN /\ InOrder(c, got[c], ev, S)
          /\ ~miscounted => S \subseteq Elems(got[c]) \cup FramesIn(ev, c)

\* rcvqsz, which every high water mark decision reads, counts sock->events.
RcvqszExact == ~miscounted => rcvqsz = Len(ev)

\* sock->events is exact: the frames read and not yet handed out, and rcvqsz
\* counts them, whatever the interleaving of splices and pops and wherever an
\* allocation fails.  An uninitialised cnt may lose events, never their order.
EventsExact == InOrderOnce /\ RcvqszExact

\* Reading is stopped only while enough is queued that a later get_event will
\* resume it, and runs only while the queue is within the mark.  The first needs
\* every cnt to have started at zero, the second does not.
HwmHysteresis ==
    RcvHwm > 0 => /\ reading = STOP_OP /\ ~miscounted => rcvqsz >= RcvHwm
                  /\ reading # STOP_OP => rcvqsz <= RcvHwm

\* sock.h:22-25: with reading set to STOP_OP the input of all attached sockets
\* will be stopped, and it runs again after the resume.
WatchersFollowReading ==
    /\ LastRequestWins({c \in Conns : zombie[c]})
    /\ reading = STOP_OP <=> request = "STOP_READ"

\* The stop flag agrees with the queue it guards and with the watchers it
\* governs: no connection is silent, or reads on, against the mark.
StopsConsistent == HwmHysteresis /\ WatchersFollowReading

\* A consumer that polls its eventfd while events are queued has been signalled.
NoMissedSignal == cpc = "wait" /\ ev # << >> => efd > 0

\* global.c:216: assert (!fsock_queue_empty (&sock->events)).
EventAfterWait == ~aborted

\* A wake-up finds an event, as long as no wait was cut short and every cnt that
\* asked for a signal started at zero.
WakesWithEvent == ~cutShort /\ ~miscounted => ~aborted

\* The hand-shake of want_efd and the eventfd is exact: no signal is missing,
\* whatever cnt starts with, and none is one too many until a wait expires, a
\* signal handler interrupts it or an uninitialised cnt is not zero.
HandShake == NoMissedSignal /\ WakesWithEvent

\* Queue, stops and wake-ups of sock->events are right together, each in what it
\* promises whatever cnt starts with, an allocation fails or a wait is cut short.
RecvSound == EventsExact /\ StopsConsistent /\ HandShake

\* Everything a peer sent reaches the application, whatever the stops and resumes
\* of the high water mark, except the frames there was no memory for and the ones
\* that the parser still holds because of that, as long as every cnt starts at
\* zero and no assertion ends the process.
AllDelivered ==
    \A c \in Conns : \A n \in 1..MaxFrames :
       sent[c] >= n ~> \/ n \in Elems(got[c]) \cup lost[c] \cup ((rd[c] - left[c] + 1)..rd[c])
                       \/ miscounted \/ aborted

\* Every time a resume switches the read watcher of a closed connection on
\* again, the read handler meets the end of the stream once more and switches
\* it off, unless an assertion ends the process first: a zombie never keeps its
\* event loop busy.
ClosedGoesQuiet == \A c \in Conns : zombie[c] /\ rio[c] ~> ~rio[c] \/ aborted

\* The receive path implements the per-connection stream.
Stream == INSTANCE FrameStream WITH gone <- lost, loose <- miscounted
ImplementsStream == Stream!Spec
=============================================================================
