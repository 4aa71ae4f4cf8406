------------------------------ MODULE Dispatch ------------------------------
(***************************************************************************)
(* fsock_sendc and fsock_send_all (core/global.c) on top of SendPath: one  *)
(* call sends a frame to all connections, or to those of a bind, chosen by *)
(* the direction they were opened in, while holding sock->sync over the    *)
(* whole loop.  Only pthread_cond_wait inside fsock_send gives the lock up.*)
(*                                                                         *)
(* The arrays are as accept and connect have filled them: connection k     *)
(* stands at index k - 1 of sock->conns, and the incoming connections of a *)
(* bind stand in the bind's own array in the same order.                   *)
(***************************************************************************)
EXTENDS SendPath

CONSTANTS Topologies,       \* for each connection: its bind, 0 when outgoing
          Requests          \* the calls of fsock_sendc considered

VARIABLES bindOf,           \* the topology
          pub,              \* pub[s]: the running fsock_send_all of sender s
          held,             \* the senders holding sock->sync between steps
          log, waited       \* history: the calls that inserted on a connection,
                            \* the calls that have waited

dispatchVars == <<bindOf, pub, held, log, waited>>
allVars == <<vars, dispatchVars>>

\* A call: the kind of send, its bind and index, the wanted directions and the
\* flags FSOCK_DONWAIT and FSOCK_STOP_ONERR.
RequestType == [type : {"ALL", "BIND", "BINDCONN"}, b : Nat, c : Conns,
                dflags : SUBSET {"IN", "OUT"}, donwait : BOOLEAN, stop : BOOLEAN]

ASSUME DispatchAssumption == Requests \subseteq RequestType

NoRequest == [type |-> "ALL", b |-> 0, c |-> 1, dflags |-> {}, donwait |-> FALSE,
              stop |-> FALSE]
Off == [pc |-> "off", req |-> NoRequest, i |-> 1, got |-> << >>, refused |-> {}]

CallIds == Senders \X (1..MaxSends)

DispatchTypeOK ==
    /\ SendTypeOK
    /\ bindOf \in Topologies
    /\ pub \in [Senders -> [pc : {"off", "each", "again", "send", "left"},
                            req : RequestType, i : 1..(NConns + 1),
                            got : Seq(Conns), refused : SUBSET Conns]]
    /\ held \subseteq Senders /\ Cardinality(held) <= 1
    /\ log \in [Conns -> Seq(CallIds)] /\ waited \subseteq CallIds

DispatchInit ==
    /\ Init
    /\ bindOf \in Topologies
    /\ pub = [s \in Senders |-> Off] /\ held = {}
    /\ log = [c \in Conns |-> << >>] /\ waited = {}

-----------------------------------------------------------------------------
Kind(c) == IF bindOf[c] = 0 THEN "OUT" ELSE "IN"

\* bnd->conns, as the set of its elements: local indices run from 1 to its size.
Local(b) == {c \in Conns : bindOf[c] = b}

\* The length of the array a call walks: sock->conns or bnd->conns.
ArrayLen(req) == IF req.type = "ALL" THEN NConns ELSE Cardinality(Local(req.b))

Wanted(c, dflags) == dflags = {} \/ Kind(c) \in dflags

This(s) == <<s, calls[s]>>

\* The call of s goes on as p.
Continue(s, p) == pub' = [pub EXCEPT ![s] = p]

\* Nobody else holds sock->sync.
CanLock(s) == held \subseteq {s}

\* fsock_send_all up to the first element of the array.
HoldsNobody(s) == {}                                    \* the lock is not taken

Holds(s) == {s}

SendAll(s, req) ==
    /\ req.type # "BINDCONN"
    /\ pub[s].pc = "off" /\ spc[s] = "idle" /\ calls[s] < MaxSends /\ CanLock(s)
    /\ held' = Holds(s)
    /\ calls' = [calls EXCEPT ![s] = @ + 1]
    /\ Continue(s, [Off EXCEPT !.pc = "each", !.req = req])
    /\ UNCHANGED <<threadVars, spc, sconn, ol, cwriting, zombie, wh, sockVars,
                   netVars, history, bindOf, log, waited>>

\* One turn of the loop.  fsock_send is called with the index in the array
\* walked, and takes it for an index of sock->conns.
Target(s) == pub[s].i

SkippingNext(p) == [p EXCEPT !.pc = "each", !.i = @ + 2]

NextElement(p) == [p EXCEPT !.pc = "each", !.i = @ + 1]

\* What follows an error: the loop goes on or is left.
Refuse(p, c) == LET q == [NextElement(p) EXCEPT !.refused = @ \cup {c}]
                IN IF p.req.stop THEN [q EXCEPT !.pc = "left"] ELSE q

\* The direction, the zombie flag and the first look at sock->writing.
SendEach(s) ==
    LET p == pub[s]
        c == Target(s)
    IN /\ p.pc = "each" /\ p.i <= ArrayLen(p.req)
       /\ Continue(s, IF ~Wanted(c, p.req.dflags) THEN NextElement(p)
                      ELSE IF zombie[c] \/ (p.req.donwait /\ writing = STOP_OP)
                      THEN Refuse(p, c) ELSE [p EXCEPT !.pc = "again"])
       /\ UNCHANGED <<vars, bindOf, held, log, waited>>

\* The second look, after which the call waits or goes on.
SendAgain(s) ==
    /\ pub[s].pc = "again"
    /\ spc' = [spc EXCEPT ![s] = IF writing = STOP_OP THEN "lock" ELSE "insert"]
    /\ sconn' = [sconn EXCEPT ![s] = Target(s)]
    /\ Continue(s, [pub[s] EXCEPT !.pc = "send"])
    /\ UNCHANGED <<threadVars, calls, ol, cwriting, zombie, wh, sockVars, netVars,
                   history, bindOf, held, log, waited>>

\* The loop is left: unlock and return.
SendAllEnd(s) ==
    /\ pub[s].pc = "left" \/ (pub[s].pc = "each" /\ pub[s].i > ArrayLen(pub[s].req))
    /\ held' = held \ {s}
    /\ Continue(s, Off)
    /\ UNCHANGED <<vars, bindOf, log, waited>>

-----------------------------------------------------------------------------
(* fsock_send with FSOCK_SND_UNSAFE under the lock of fsock_send_all, and  *)
(* without it for FSOCK_SND_BINDCONN.                                      *)
Locked(s) == pub[s].pc = "send"

\* FSOCK_SND_BINDCONN hands on idxlocal of the connection it finds.
BindConnIndex(req) == req.c

SendBindConn(s, req) ==
    /\ req.type = "BINDCONN" /\ pub[s].pc = "off"
    /\ req.c <= Cardinality(Local(req.b))
    /\ ~(req.donwait /\ writing = STOP_OP)
    /\ SendCall(s, BindConnIndex(req))
    /\ UNCHANGED dispatchVars

Wait(s) ==
    /\ CanLock(s)
    /\ SendWait(s)
    /\ held' = {}
    /\ waited' = waited \cup {This(s)}
    /\ UNCHANGED <<bindOf, pub, log>>

\* The second look of a FSOCK_SND_BINDCONN, without the lock.
Look(s) == SendLook(s) /\ UNCHANGED dispatchVars

Spurious(s) == SpuriousWakeup(s) /\ UNCHANGED dispatchVars

\* A publisher that was woken has its lock again before it goes on.
InsertFrame(s) ==
    /\ Locked(s) => CanLock(s)
    /\ SendInsert(s)
    /\ held' = IF Locked(s) THEN Holds(s) ELSE held
    /\ log' = [log EXCEPT ![sconn[s]] = Append(@, This(s))]
    /\ UNCHANGED <<bindOf, pub, waited>>

\* -1 with ENOMEM is an error of this connection like any other.
NoMem(s) ==
    /\ Locked(s) => CanLock(s)
    /\ SendNoMem(s)
    /\ held' = IF Locked(s) THEN Holds(s) ELSE held
    /\ IF Locked(s) THEN Continue(s, Refuse(pub[s], sconn[s])) ELSE UNCHANGED pub
    /\ UNCHANGED <<bindOf, log, waited>>

\* fsock_send returns no value on success, so that the test of rc under
\* FSOCK_STOP_ONERR may go either way.
Count(s) ==
    LET p == [NextElement(pub[s]) EXCEPT !.got = Append(@, sconn[s])]
    IN /\ CanLock(s)
       /\ SendCount(s)
       /\ IF ~Locked(s) THEN UNCHANGED pub
          ELSE \/ Continue(s, p)
               \/ p.req.stop /\ Continue(s, [p EXCEPT !.pc = "left"])
       /\ UNCHANGED <<bindOf, held, log, waited>>

-----------------------------------------------------------------------------
\* The write handler takes sock->sync to settle its account.
Handler(t) ==
    /\ \/ WriteTop(t) \/ Writev(t) \/ WriteAgain(t) \/ WriteError(t)
       \/ held = {} /\ WriteAcct(t)
       \/ WriteBroadcast(t) \/ WriteStop(t)
    /\ UNCHANGED dispatchVars

Environment ==
    /\ \/ \E c \in Conns : WriteReady(c) \/ CloseConn(c) \/ PeerReads(c) \/ PeerCloses(c)
       \/ \E t \in Threads : Async(t) \/ Run(t)
    /\ UNCHANGED dispatchVars

Publisher(s) == \/ SendEach(s) \/ SendAgain(s) \/ SendAllEnd(s) \/ Look(s) \/ Wait(s)
                \/ InsertFrame(s) \/ NoMem(s) \/ Count(s)

DispatchNext ==
    \/ \E s \in Senders : \/ Publisher(s) \/ Spurious(s)
                          \/ \E req \in Requests : SendAll(s, req) \/ SendBindConn(s, req)
    \/ \E t \in Threads : Handler(t)
    \/ Environment

DispatchSpec == DispatchInit /\ [][DispatchNext]_allVars

-----------------------------------------------------------------------------
(***************************************************************************)
(* Properties.                                                             *)
(***************************************************************************)
Publishing(s) == pub[s].pc # "off"

\* Local index and socket-wide index of every connection of bind b agree.
Aligned(b) == Local(b) = 1..Cardinality(Local(b))

\* The connections a call is meant for.
Selected(req) == {c \in Conns : /\ req.dflags = {} \/ Kind(c) \in req.dflags
                                /\ req.type = "BIND" => bindOf[c] = req.b}

\* The calls that went through the whole array, just before they unlock.
Through(s) == pub[s].pc = "each" /\ pub[s].i > ArrayLen(pub[s].req)

\* What a call that went through its array has reached: every connection it was
\* meant for got the frame once or refused it, and no other got it.
Reaches(s) == LET p == pub[s]
                  got == {p.got[k] : k \in 1..Len(p.got)}
              IN /\ got \cup p.refused = Selected(p.req)
                 /\ got \cap p.refused = {} /\ Len(p.got) = Cardinality(got)

\* fsock_send_all over all connections, or over a bind whose indices agree,
\* reaches exactly the connections selected, although connections close and
\* the sender waits and loses the lock in the middle of the loop.
SelectedOnce ==
    \A s \in Senders : Through(s) /\ (pub[s].req.type = "BIND" => Aligned(pub[s].req.b)) => Reaches(s)

\* fsock.h:216: FSOCK_SND_BIND is "Send frame to all connection of the bind."
BindReached == \A s \in Senders : Through(s) /\ pub[s].req.type = "BIND" => Reaches(s)

\* a comes before b on c.
Before(a, b, c) == \E j, k \in 1..Len(log[c]) : j < k /\ log[c][j] = a /\ log[c][k] = b

\* Two calls that did not wait are seen in the same order by every connection
\* both have sent to: the lock over the whole loop makes each dispatch atomic.
\* A publisher that waits gives its lock up, and loses this.
SameOrder ==
    \A a, b \in CallIds \ waited : \A c, d \in Conns : ~(Before(a, b, c) /\ Before(b, a, d))

\* FSOCK_DONWAIT in a dispatch never waits, although fsock_send reads the flag
\* twice: sock->writing does not change between, because the publisher holds
\* sock->sync.
DonwaitNeverWaits ==
    \A s \in Senders : Publishing(s) /\ pub[s].req.donwait => spc[s] \notin {"lock", "wait"}

\* A publisher that waits is not forgotten when the stop is lifted: it looks
\* and announces itself under the lock that the handler takes, so until then
\* want_wcond stays set, and after that a broadcast is on its way, even if a
\* new stop comes before it.  fsock_send without that lock can be forgotten: it
\* looks before it locks.
PublisherWoken ==
    \A s \in Senders : Publishing(s) /\ spc[s] = "wait" =>
       \/ writing = STOP_OP /\ wantWcond = 1
       \/ \E t \in Threads : wh[t].pc = "bcast"
=============================================================================
