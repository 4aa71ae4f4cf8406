------------------------------ MODULE SendPath ------------------------------
(***************************************************************************)
(* From the application to the wire: fsock_send (core/global.c) called by  *)
(* several application threads, the out list of each connection, its write *)
(* handler (core/sock.c) on the connection's worker thread, and the send   *)
(* high water mark with its condition variable, on top of FsockThread.     *)
(*                                                                         *)
(* conn->sync protects the out list and conn->writing, sock->sync the      *)
(* counters; each is held for one step.  sock->writing and the zombie flag *)
(* are also read without a lock, in steps of their own.  A frame is the    *)
(* number of its insertion on its connection.                              *)
(***************************************************************************)
EXTENDS FsockThread, Integers, FiniteSets

CONSTANTS Senders,          \* application threads
          SndHwm,           \* sock->sndhwm, 0 when switched off
          MaxSends,         \* bound: calls of fsock_send per sender
          Room,             \* bound: frames the kernel buffers per connection
          AllowClose        \* a peer may close its connection

ASSUME SendAssumption ==
    /\ SndHwm \in Nat /\ MaxSends \in Nat /\ Room \in Nat
    /\ AllowClose \in BOOLEAN /\ IsFiniteSet(Senders) /\ NConns > 0

STOP_OP == -1               \* FSOCK_SOCK_STOP_OP

VARIABLES
    spc, sconn, calls,      \* sender: program counter, connection, calls made
    ol,                     \* ol[c]: conn->ol, its frames and its last pointer
    cwriting, zombie,       \* conn->writing, FSOCK_SOCK_ZOMBIE
    wh,                     \* wh[t]: locals of the write handler running on t
    writing, sndqsz,        \* sock->writing, sock->sndqsz
    wantWcond,              \* sock->want_wcond
    room, closed,           \* the kernel: free slots, the peer is gone
    acc, wire,              \* history: frames inserted, frames written
    skipped,                \* history: written frames never subtracted
    spliced                 \* history: spliced[c]: a list was put back before newer
                            \* frames, or dropped by a failed write

sendVars == <<spc, sconn, calls>>
sockVars == <<writing, sndqsz, wantWcond>>
netVars == <<room, closed>>
history == <<acc, wire, skipped, spliced>>
vars == <<threadVars, sendVars, ol, cwriting, zombie, wh, sockVars, netVars, history>>

EmptyList == [s |-> << >>, last |-> 0]
NoHandler == [pc |-> "idle", c |-> 0, removed |-> 0, ol |-> EmptyList]

MaxAcc == MaxSends * Cardinality(Senders)       \* frames a connection can get

OutList == [s : Seq(Nat), last : Nat]

SendTypeOK ==
    /\ ThreadTypeOK
    /\ spc \in [Senders -> {"idle", "look", "lock", "wait", "insert", "count"}]
    /\ sconn \in [Senders -> Conns] /\ calls \in [Senders -> 0..MaxSends]
    /\ ol \in [Conns -> OutList]
    /\ cwriting \in [Conns -> {0, 1}] /\ zombie \in [Conns -> BOOLEAN]
    /\ wh \in [Threads -> [pc : {"idle", "top", "write", "acct", "bcast", "stop"},
                           c : 0..NConns, removed : Nat, ol : OutList]]
    /\ writing \in {0, STOP_OP} /\ sndqsz \in Int /\ wantWcond \in {0, 1}
    /\ room \in [Conns -> 0..Room] /\ closed \in [Conns -> BOOLEAN]
    /\ acc \in [Conns -> Nat] /\ wire \in [Conns -> Seq(Nat)]
    /\ skipped \in Nat /\ spliced \in [Conns -> BOOLEAN]

\* fsock_sock_init and an established connection per index.
Init ==
    /\ ThreadInit
    /\ spc = [s \in Senders |-> "idle"] /\ sconn = [s \in Senders |-> 1]
    /\ calls = [s \in Senders |-> 0]
    /\ ol = [c \in Conns |-> EmptyList]
    /\ cwriting = [c \in Conns |-> 0] /\ zombie = [c \in Conns |-> FALSE]
    /\ wh = [t \in Threads |-> NoHandler]
    /\ writing = 0 /\ sndqsz = 0 /\ wantWcond = 0
    /\ room = [c \in Conns |-> Room] /\ closed = [c \in Conns |-> FALSE]
    /\ acc = [c \in Conns |-> 0] /\ wire = [c \in Conns |-> << >>]
    /\ skipped = 0 /\ spliced = [c \in Conns |-> FALSE]

-----------------------------------------------------------------------------
(***************************************************************************)
(* The out list of framer, as the code here uses it: a linked list with a  *)
(* first and a last pointer.  last is an index into s; it is not the end   *)
(* of s once the write handler has put a list back in front of new frames. *)
(***************************************************************************)
\* frm_out_frame_list_insert hooks the frame behind last: what hung there is
\* unreachable.  last is NULL once its item is written: nothing hangs behind it.
Insert(l, f) ==
    IF l.last = 0 /\ l.s # << >> THEN l
    ELSE [s |-> Append(SubSeq(l.s, 1, l.last), f), last |-> l.last + 1]

\* frm_out_frame_list_written frees the first k frames.
Written(l, k) ==
    LET rest == SubSeq(l.s, k + 1, Len(l.s))
    IN [s |-> rest, last |-> IF l.last > k /\ rest # << >> THEN l.last - k ELSE 0]

\* The EAGAIN path: the unwritten list goes back in front of the connection's
\* list, behind its first frame when last is NULL, and its header, last
\* included, replaces the connection's.
Merge(l, new) ==
    [s |-> IF new.s = << >> THEN l.s
           ELSE SubSeq(l.s, 1, IF l.last = 0 THEN 1 ELSE l.last) \o new.s,
     last |-> l.last]

-----------------------------------------------------------------------------
(* fsock_send.                                                             *)

\* The unlocked look at the zombie flag and, with FSOCK_DONWAIT, the first one at
\* sock->writing: an error changes nothing.
SendCall(s, c) ==
    /\ spc[s] = "idle" /\ calls[s] < MaxSends /\ ~zombie[c]
    /\ sconn' = [sconn EXCEPT ![s] = c]
    /\ calls' = [calls EXCEPT ![s] = @ + 1]
    /\ spc' = [spc EXCEPT ![s] = "look"]
    /\ UNCHANGED <<threadVars, ol, cwriting, zombie, wh, sockVars, netVars, history>>

\* The second look at sock->writing, unlocked as well.
SendLook(s) ==
    /\ spc[s] = "look"
    /\ spc' = [spc EXCEPT ![s] = IF writing = STOP_OP THEN "lock" ELSE "insert"]
    /\ UNCHANGED <<threadVars, sconn, calls, ol, cwriting, zombie, wh, sockVars,
                   netVars, history>>

\* Lock, announce, and give the lock up inside pthread_cond_wait.
SendWait(s) ==
    /\ spc[s] = "lock"
    /\ wantWcond' = 1
    /\ spc' = [spc EXCEPT ![s] = "wait"]
    /\ UNCHANGED <<threadVars, sconn, calls, ol, cwriting, zombie, wh, writing,
                   sndqsz, netVars, history>>

\* POSIX lets pthread_cond_wait return without a broadcast.
SpuriousWakeup(s) ==
    /\ spc[s] = "wait"
    /\ spc' = [spc EXCEPT ![s] = "insert"]
    /\ UNCHANGED <<threadVars, sconn, calls, ol, cwriting, zombie, wh, sockVars,
                   netVars, history>>

\* Under conn->sync: schedule the write watcher if nobody writes, insert.
AlwaysSchedules(c) == TRUE

Schedules(c) == cwriting[c] = 0

CountWriters(c) == cwriting[c] + 1              \* a counter, not a flag

MarkWriting(c) == 1

SendInsert(s) ==
    LET c == sconn[s]
    IN /\ spc[s] = "insert"
       /\ IF Schedules(c)
          THEN ScheduleTask(ThrOf[c], <<c, "START_WRITE">>)
          ELSE UNCHANGED <<jobs, async>>
       /\ cwriting' = [cwriting EXCEPT ![c] = MarkWriting(c)]
       /\ ol' = [ol EXCEPT ![c] = Insert(@, acc[c] + 1)]
       /\ acc' = [acc EXCEPT ![c] = @ + 1]
       /\ spc' = [spc EXCEPT ![s] = "count"]
       /\ UNCHANGED <<batch, rio, wio, bulk, request, life, sconn, calls, zombie,
                      wh, sockVars, netVars, wire, skipped, spliced>>

\* No memory for a list item, before anything was done: -1 with ENOMEM.
SendNoMem(s) ==
    /\ spc[s] = "insert"
    /\ spc' = [spc EXCEPT ![s] = "idle"]
    /\ UNCHANGED <<threadVars, sconn, calls, ol, cwriting, zombie, wh, sockVars,
                   netVars, history>>

\* Under sock->sync: count the frame, stop at the mark.
LateStops(q) == q > SndHwm                      \* one frame too late

Stops(q) == q >= SndHwm

SendCount(s) ==
    /\ spc[s] = "count"
    /\ sndqsz' = sndqsz + 1
    /\ writing' = IF SndHwm > 0 /\ writing # STOP_OP /\ Stops(sndqsz + 1)
                  THEN STOP_OP ELSE writing
    /\ spc' = [spc EXCEPT ![s] = "idle"]
    /\ UNCHANGED <<threadVars, sconn, calls, ol, cwriting, zombie, wh, wantWcond,
                   netVars, history>>

-----------------------------------------------------------------------------
(* The write handler.                                                      *)
Idle(t) == wh[t].pc = "idle"

\* The event loop calls it on a writable connection; a zombie returns at once.
WriteReady(c) ==
    /\ wio[c] /\ Idle(ThrOf[c]) /\ batch[ThrOf[c]] = << >>
    /\ room[c] > 0 \/ closed[c]
    /\ ~zombie[c]
    /\ wh' = [wh EXCEPT ![ThrOf[c]] = [NoHandler EXCEPT !.pc = "top", !.c = c]]
    /\ UNCHANGED <<threadVars, sendVars, ol, cwriting, zombie, sockVars, netVars, history>>

\* The head of the loop, under conn->sync: take the whole list, or leave and
\* settle the account of what was written.
Settles(removed) == removed > 0

Drained(c) == ol[c].s = << >>

KeepsList(c) == ol[c]                           \* frm_out_frame_list_init forgotten

LeftBehind(c) == EmptyList

WriteTop(t) ==
    LET c == wh[t].c
    IN /\ wh[t].pc = "top"
       /\ IF Drained(c)
          THEN /\ wh' = [wh EXCEPT ![t].pc = IF Settles(wh[t].removed) THEN "acct" ELSE "stop"]
               /\ UNCHANGED ol
          ELSE /\ wh' = [wh EXCEPT ![t].pc = "write", ![t].ol = ol[c]]
               /\ ol' = [ol EXCEPT ![c] = LeftBehind(c)]
       /\ UNCHANGED <<threadVars, sendVars, cwriting, zombie, sockVars, netVars, history>>

\* writev takes k frames.
Writev(t) ==
    LET c == wh[t].c
        l == wh[t].ol
    IN /\ wh[t].pc = "write"
       /\ \E k \in 1..Len(l.s) :
             /\ k <= room[c]
             /\ room' = [room EXCEPT ![c] = @ - k]
             /\ wire' = [wire EXCEPT ![c] = @ \o SubSeq(l.s, 1, k)]
             /\ wh' = [wh EXCEPT ![t].removed = @ + k, ![t].ol = Written(l, k),
                                 ![t].pc = IF Written(l, k).s = << >>
                                           THEN "top" ELSE "write"]
       /\ UNCHANGED <<threadVars, sendVars, ol, cwriting, zombie, sockVars, closed,
                      acc, skipped, spliced>>

\* EAGAIN: put the list back; having written before, the break leaves only the
\* inner loop, so the outer one takes the list again at once.
WriteAgain(t) ==
    LET c == wh[t].c
    IN /\ wh[t].pc = "write" /\ wh[t].ol.s # << >>
       /\ room[c] = 0 /\ ~closed[c]
       /\ ol' = [ol EXCEPT ![c] = Merge(wh[t].ol, @)]
       /\ wh' = [wh EXCEPT ![t] = IF @.removed = 0 THEN NoHandler
                                  ELSE [@ EXCEPT !.pc = "top", !.ol = EmptyList]]
       /\ spliced' = [spliced EXCEPT ![c] = @ \/ ol[c].s # << >>]
       /\ UNCHANGED <<threadVars, sendVars, cwriting, zombie, sockVars, netVars,
                      acc, wire, skipped>>

\* Any other error: the local list and the count of written frames are lost.
WriteError(t) ==
    /\ wh[t].pc = "write" /\ closed[wh[t].c]
    /\ skipped' = skipped + wh[t].removed
    /\ wh' = [wh EXCEPT ![t].pc = "stop", ![t].ol = EmptyList]
    /\ spliced' = [spliced EXCEPT ![wh[t].c] = TRUE]
    /\ UNCHANGED <<threadVars, sendVars, ol, cwriting, zombie, sockVars, netVars,
                   acc, wire>>

\* Under sock->sync: subtract what was written, lift the stop below the mark.
Resumes(q) == q < SndHwm

WriteAcct(t) ==
    LET q == sndqsz - wh[t].removed
        resumes == SndHwm > 0 /\ writing = STOP_OP /\ Resumes(q)
    IN /\ wh[t].pc = "acct"
       /\ sndqsz' = q
       /\ writing' = IF resumes THEN 0 ELSE writing
       /\ wantWcond' = IF resumes THEN 0 ELSE wantWcond
       /\ wh' = [wh EXCEPT ![t].pc = IF resumes /\ wantWcond = 1 THEN "bcast" ELSE "stop"]
       /\ UNCHANGED <<threadVars, sendVars, ol, cwriting, zombie, netVars, history>>

\* pthread_cond_broadcast, after the unlock; the awakened do not look again.
WriteBroadcast(t) ==
    /\ wh[t].pc = "bcast"
    /\ spc' = [s \in Senders |-> IF spc[s] = "wait" THEN "insert" ELSE spc[s]]
    /\ wh' = [wh EXCEPT ![t].pc = "stop"]
    /\ UNCHANGED <<threadVars, sconn, calls, ol, cwriting, zombie, sockVars, netVars, history>>

\* The stop label: the watcher first, then conn->writing under conn->sync.
WriteStop(t) ==
    LET c == wh[t].c
    IN /\ wh[t].pc = "stop"
       /\ wio' = [wio EXCEPT ![c] = FALSE]
       /\ cwriting' = [cwriting EXCEPT ![c] = 0]
       /\ wh' = [wh EXCEPT ![t] = NoHandler]
       /\ UNCHANGED <<jobs, batch, async, rio, bulk, request, life, sendVars, ol,
                      zombie, sockVars, netVars, history>>

-----------------------------------------------------------------------------
(* The threads, the read handler's stop path, and the peers.               *)
Async(t) == /\ Idle(t) /\ AsyncRoutine(t)
            /\ UNCHANGED <<sendVars, ol, cwriting, zombie, wh, sockVars, netVars, history>>

Run(t) == /\ RunTask(t)
          /\ UNCHANGED <<sendVars, ol, cwriting, zombie, wh, sockVars, netVars, history>>

CloseConn(c) ==
    /\ closed[c] /\ rio[c] /\ Idle(ThrOf[c]) /\ batch[ThrOf[c]] = << >>
    /\ rio' = [rio EXCEPT ![c] = FALSE]
    /\ wio' = [wio EXCEPT ![c] = FALSE]
    /\ zombie' = [zombie EXCEPT ![c] = TRUE]
    /\ UNCHANGED <<jobs, batch, async, bulk, request, life, sendVars, ol, cwriting,
                   wh, sockVars, netVars, history>>

PeerReads(c) ==
    /\ room[c] < Room /\ ~closed[c]
    /\ room' = [room EXCEPT ![c] = @ + 1]
    /\ UNCHANGED <<threadVars, sendVars, ol, cwriting, zombie, wh, sockVars, closed, history>>

PeerCloses(c) ==
    /\ AllowClose /\ ~closed[c]
    /\ closed' = [closed EXCEPT ![c] = TRUE]
    /\ UNCHANGED <<threadVars, sendVars, ol, cwriting, zombie, wh, sockVars, room, history>>

-----------------------------------------------------------------------------
Sends(s) == SendLook(s) \/ SendWait(s) \/ SendInsert(s) \/ SendCount(s)

WriteHandler(t) == \/ WriteTop(t) \/ Writev(t) \/ WriteAgain(t) \/ WriteError(t)
                   \/ WriteAcct(t) \/ WriteBroadcast(t) \/ WriteStop(t)

Next == \/ \E s \in Senders : \/ Sends(s) \/ SpuriousWakeup(s) \/ SendNoMem(s)
                               \/ \E c \in Conns : SendCall(s, c)
        \/ \E c \in Conns : WriteReady(c) \/ CloseConn(c) \/ PeerReads(c) \/ PeerCloses(c)
        \/ \E t \in Threads : WriteHandler(t) \/ Async(t) \/ Run(t)

Spec == Init /\ [][Next]_vars

\* A call that does not block goes on; libev serves every pending watcher; a
\* handler goes on; the peers keep reading.
Fairness ==
    /\ \A s \in Senders : WF_vars(Sends(s))
    /\ \A c \in Conns : SF_vars(WriteReady(c)) /\ SF_vars(CloseConn(c)) /\ WF_vars(PeerReads(c))
    /\ \A t \in Threads : WF_vars(WriteHandler(t)) /\ SF_vars(Async(t)) /\ WF_vars(Run(t))

FairSpec == Spec /\ Fairness

-----------------------------------------------------------------------------
(***************************************************************************)
(* Properties.                                                             *)
(***************************************************************************)
Upto(n) == [k \in 1..n |-> k]

\* The sum of f over the connections: the size of a disjoint union.
Total(f) == Cardinality(UNION {{c} \X (1..f[c]) : c \in Conns})

\* The frames the handler of c has taken but not written.
Taken(c) == IF wh[ThrOf[c]].c = c THEN wh[ThrOf[c]].ol.s ELSE << >>

\* Written frames the handler of c has still to subtract.
Unsettled(c) == LET h == wh[ThrOf[c]]
                IN IF h.c = c /\ h.pc \in {"top", "write", "acct"} THEN h.removed ELSE 0

\* sock->writing is STOP_OP exactly while the count is at or above the mark:
\* no interleaving of senders and handlers leaves the socket stopped below it
\* or open above it.
StopExact == SndHwm > 0 => (writing = STOP_OP <=> sndqsz >= SndHwm)

\* sndqsz counts the frames inserted and not written, up to the steps under
\* way and to the frames a failed handler forgets to subtract.
Accounting ==
    sndqsz = Total(acc) - Total([c \in Conns |-> Len(wire[c])])
             + Total([c \in Conns |-> Unsettled(c)]) + skipped
             - Cardinality({s \in Senders : spc[s] = "count"})

\* The send mark is exact: the count is that of the frames not yet written and
\* the stop flag agrees with it.
MarkExact == Accounting /\ StopExact

\* The assertion of fsock_queue_push (queue.c:47) holds for t_start_write: a
\* sender schedules it only when it is in no queue, and a connection nobody
\* writes has its watcher off and no handler.
PushSafe ==
    \A c \in Conns : cwriting[c] = 0 =>
       /\ ~IsInQueue(c, "START_WRITE")
       /\ ~wio[c]
       /\ wh[ThrOf[c]].c # c

\* The wire carries a connection's frames in insertion order, none twice.
WireOrdered ==
    \A c \in Conns : \A j, k \in 1..Len(wire[c]) : j < k => wire[c][j] < wire[c][k]

\* Nothing but a list put back before newer frames, or a failed write, loses
\* frames: short writes, full buffers and concurrent senders alone do not.  A
\* list put back (sock.c:459) keeps its own last pointer, and the next insert
\* unlinks the newer frames behind it.
LostOnlyIfSpliced ==
    \A c \in Conns : ~spliced[c] => wire[c] \o Taken(c) \o ol[c].s = Upto(acc[c])

\* Frames go out in order, and are lost in the two named cases only.
WireExact == WireOrdered /\ LostOnlyIfSpliced

\* perf/remote_lat.c:74-77 waits for the answer to each frame it sends before it
\* sends the next: a frame must not depend on a later send to be written.
FrameSent == \A c \in Conns : \A n \in 1..MaxAcc : acc[c] >= n ~> Len(wire[c]) >= n
=============================================================================
