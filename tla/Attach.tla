------------------------------- MODULE Attach -------------------------------
(***************************************************************************)
(* How a socket gets its connections: fsock_bind and fsock_connect called  *)
(* by application threads (core/global.c), the accept handlers of the      *)
(* binds on their worker threads (core/sock.c), and the BIND and CONN      *)
(* tasks that start the watchers (utils/thread.c).                         *)
(*                                                                         *)
(* A connection becomes visible when it is inserted in root->conns; its    *)
(* thread, descriptor and indices are set, and its CONN task is queued, in *)
(* other steps.  The receive path may meet it in between: its bulk loop is *)
(* one step here, and jobs and batch of a thread are one queue (FsockThread*)
(* has their interleavings).  fsock_parr_insert appends, as nothing is     *)
(* cleared before fsock_close.  Indices start with 0, as in the code.      *)
(***************************************************************************)
EXTENDS QueueOps, Integers, FiniteSets

CONSTANTS NThreads,         \* worker threads (4 in global.c)
          Apps,             \* application threads
          NBinds, NOuts,    \* bound: calls of fsock_bind, of fsock_connect
          NIns,             \* bound: peers that connect
          AllowFail,        \* memory or descriptors may run out
          AllowStop         \* the receive path may stop and resume the input

ASSUME AttachAssumption ==
    /\ NThreads \in Nat \ {0}
    /\ NBinds \in Nat /\ NOuts \in Nat /\ NIns \in Nat
    /\ AllowFail \in BOOLEAN /\ AllowStop \in BOOLEAN

Threads == 0..(NThreads - 1)
Binds == 1..NBinds                              \* FSOCK_SOCK_BIND
Outs == (NBinds + 1)..(NBinds + NOuts)          \* FSOCK_SOCK_OUT
Ins == (NBinds + NOuts + 1)..(NBinds + NOuts + NIns)    \* FSOCK_SOCK_IN
Socks == Binds \cup Outs \cup Ins
Fds == Nat \ {0}

Unset == -1                 \* idx, fd -1 and thr NULL of fsock_sock_init
STOP_OP == -1               \* FSOCK_SOCK_STOP_OP

VARIABLES
    thrLastIdx,             \* thr_last_idx, protected by the global lock
    made,                   \* the struct fsock_socks in use
    thr, fd, idx, idxlocal, \* their fields
    rio,                    \* rio[o]: "uninit", or the watcher is "off" or "on"
    binds,                  \* root->binds: elems and last, protected by nothing
    conns,                  \* root->conns, protected by root->sync
    local,                  \* local[b]: the conns of bind b
    jobs,                   \* jobs[t]: the tasks queued for thread t
    reading,                \* root->reading
    call,                   \* call[a]: locals of fsock_bind and fsock_connect
    acc,                    \* acc[t]: locals of the accept handler running on t
    open, backlog, arrived, \* the kernel: open descriptors, peers not accepted
                            \* yet, peers that ever connected
    crashed,                \* the process is gone
    chosen, raced, failed,  \* history: connections given to each thread, two
                            \* binds were inserted at once, something ran out
    late                    \* history: not served yet when the last stop came

fields == <<thr, fd, idx, idxlocal>>
arrays == <<binds, conns, local>>
kernel == <<open, backlog, arrived>>
vars == <<thrLastIdx, made, fields, rio, arrays, jobs, reading, call, acc, kernel,
          crashed, chosen, raced, failed, late>>

NoCall == [pc |-> "idle", o |-> 0, fd |-> Unset, i |-> Unset]
NoAccept == [pc |-> "idle", b |-> 0, o |-> 0, fd |-> Unset, i |-> Unset, il |-> Unset]

Indices == Nat \cup {Unset}

AttachTypeOK ==
    /\ thrLastIdx \in Threads
    /\ made \subseteq Socks
    /\ thr \in [Socks -> Threads \cup {Unset}] /\ fd \in [Socks -> Fds \cup {Unset}]
    /\ idx \in [Socks -> Indices] /\ idxlocal \in [Socks -> Indices]
    /\ rio \in [Socks -> {"uninit", "off", "on"}]
    /\ binds \in [elems : [0..NBinds -> Binds \cup {0}], last : 0..NBinds]
    /\ conns \in Seq(Outs \cup Ins) /\ local \in [Binds -> Seq(Ins)]
    /\ jobs \in [Threads -> Seq(Socks \X {"BIND", "CONN", "START_READ", "STOP_READ"})]
    /\ reading \in {0, STOP_OP}
    /\ call \in [Apps -> [pc : {"idle", "open", "scan", "store", "insert", "start"},
                          o : Socks \cup {0}, fd : Fds \cup {Unset}, i : Indices]]
    /\ acc \in [Threads -> [pc : {"idle", "local", "root", "choose", "start"},
                            b : Binds \cup {0}, o : Ins \cup {0},
                            fd : Fds \cup {Unset}, i : Indices, il : Indices]]
    /\ open \subseteq Fds /\ backlog \in [Binds -> Nat] /\ arrived \in 0..NIns
    /\ crashed \in BOOLEAN
    /\ chosen \in [Threads -> Nat] /\ raced \in BOOLEAN /\ failed \in BOOLEAN
    /\ late \subseteq Outs \cup Ins

\* fsock_socket has returned; fsock_sock_init gives the fields their values.
Init ==
    /\ thrLastIdx = 0
    /\ made = {}
    /\ thr = [o \in Socks |-> Unset] /\ fd = [o \in Socks |-> Unset]
    /\ idx = [o \in Socks |-> Unset] /\ idxlocal = [o \in Socks |-> Unset]
    /\ rio = [o \in Socks |-> "uninit"]
    /\ binds = [elems |-> [i \in 0..NBinds |-> 0], last |-> 0]
    /\ conns = << >> /\ local = [b \in Binds |-> << >>]
    /\ jobs = [t \in Threads |-> << >>]
    /\ reading = 0
    /\ call = [a \in Apps |-> NoCall] /\ acc = [t \in Threads |-> NoAccept]
    /\ open = {} /\ backlog = [b \in Binds |-> 0] /\ arrived = 0
    /\ crashed = FALSE
    /\ chosen = [t \in Threads |-> 0] /\ raced = FALSE /\ failed = FALSE
    /\ late = {}

-----------------------------------------------------------------------------
\* f_choose_thr, under the global lock: thrLastIdx is the choice.
NoWrap(i) == i + 1                              \* the test for 4 dropped

WrapEarly(i) == IF i + 1 >= NThreads - 1 THEN 0 ELSE i + 1  \* the last is left out

WrapIdx(i) == IF i + 1 = NThreads THEN 0 ELSE i + 1

ChooseThr ==
    /\ thrLastIdx' = WrapIdx(thrLastIdx)
    /\ chosen' = [chosen EXCEPT ![thrLastIdx] = @ + 1]

\* fsock_thread_start_listen, fsock_thread_start_connection.
SkipTask(t, o) == UNCHANGED jobs                \* the task is built, not queued

StartTask(t, o) ==
    jobs' = [jobs EXCEPT ![t] = Append(@, <<o, IF o \in Binds THEN "BIND" ELSE "CONN">>)]

NextOf(S) == CHOOSE o \in S : \A p \in S : o <= p

\* The kernel gives out the lowest free descriptor.
NewFd == NextOf((1..(Cardinality(open) + 1)) \ open)

-----------------------------------------------------------------------------
(* fsock_bind and fsock_connect.  Without memory for the struct they       *)
(* return and change nothing.                                              *)

\* malloc, a thread, fsock_sock_init, owner and thr.
LateThr(o) == thr                               \* conn->thr not set here

PresetThr(o) == [thr EXCEPT ![o] = thrLastIdx]

CallBegin(a, S) ==
    /\ call[a].pc = "idle" /\ S \ made # {}
    /\ LET o == NextOf(S \ made)
       IN /\ made' = made \cup {o}
          /\ thr' = PresetThr(o)
          /\ call' = [call EXCEPT ![a] = [NoCall EXCEPT !.pc = "open", !.o = o]]
    /\ ChooseThr
    /\ UNCHANGED <<fd, idx, idxlocal, rio, arrays, jobs, reading, acc, kernel, crashed,
                   raced, failed, late>>

\* anetTcpServer, anetTcpNonBlockConnect: a listening socket, or one whose
\* connect has begun.
CallOpen(a) ==
    /\ call[a].pc = "open"
    /\ open' = open \cup {NewFd}
    /\ call' = [call EXCEPT ![a].fd = NewFd,
                            ![a].pc = IF call[a].o \in Binds THEN "scan" ELSE "insert"]
    /\ UNCHANGED <<thrLastIdx, made, fields, rio, arrays, jobs, reading, acc, backlog,
                   arrived, crashed, chosen, raced, failed, late>>

\* They fail: the call returns and forgets the struct.  The connecting side
\* closes its descriptor, the listening side may leave it open.
CallFails(a) ==
    /\ AllowFail /\ call[a].pc = "open"
    /\ open' \in {open} \cup IF call[a].o \in Binds THEN {open \cup {NewFd}} ELSE {}
    /\ call' = [call EXCEPT ![a] = NoCall]
    /\ failed' = TRUE
    /\ UNCHANGED <<thrLastIdx, made, fields, rio, arrays, jobs, reading, acc, backlog,
                   arrived, crashed, chosen, raced, late>>

\* fsock_parr_insert (&sock->binds), without a lock: the search for a slot
\* (one below last that was never written may look empty or not) ...
Slots == {k \in 0..(binds.last - 1) : binds.elems[k] = 0} \cup {binds.last}

BindScan(a) ==
    /\ call[a].pc = "scan"
    /\ \E i \in Slots :
          call' = [call EXCEPT ![a].pc = "store", ![a].i = i]
    /\ UNCHANGED <<thrLastIdx, made, fields, rio, arrays, jobs, reading, acc, kernel,
                   crashed, chosen, raced, failed, late>>

\* ... and the store.
BindStore(a) ==
    /\ call[a].pc = "store"
    /\ binds' = [elems |-> [binds.elems EXCEPT ![call[a].i] = call[a].o],
                 last |-> binds.last + 1]
    /\ raced' = (raced \/ \E b \in Apps \ {a} : call[b].pc = "store")
    /\ call' = [call EXCEPT ![a].pc = "start"]
    /\ UNCHANGED <<thrLastIdx, made, fields, rio, conns, local, jobs, reading, acc,
                   kernel, crashed, chosen, failed, late>>

\* fsock_connect inserts under root->sync.
ConnectInsert(a) ==
    /\ call[a].pc = "insert"
    /\ conns' = Append(conns, call[a].o)
    /\ call' = [call EXCEPT ![a].pc = "start", ![a].i = Len(conns)]
    /\ UNCHANGED <<thrLastIdx, made, fields, rio, binds, local, jobs, reading, acc,
                   kernel, crashed, chosen, raced, failed, late>>

\* No memory for the array: assert (0 && "... index < 0").
CallAborts(a) ==
    /\ AllowFail /\ call[a].pc \in {"scan", "insert"}
    /\ crashed' = TRUE /\ failed' = TRUE
    /\ UNCHANGED <<thrLastIdx, made, fields, rio, arrays, jobs, reading, call, acc,
                   kernel, chosen, raced, late>>

\* idx, fd, and the task.
CallStart(a) ==
    LET o == call[a].o
    IN /\ call[a].pc = "start"
       /\ idx' = [idx EXCEPT ![o] = call[a].i]
       /\ fd' = [fd EXCEPT ![o] = call[a].fd]
       /\ StartTask(thr[o], o)
       /\ call' = [call EXCEPT ![a] = NoCall]
       /\ UNCHANGED <<thrLastIdx, made, thr, idxlocal, rio, arrays, reading, acc, kernel,
                      crashed, chosen, raced, failed, late>>

-----------------------------------------------------------------------------
(* fsock_sock_accept_handler.                                              *)
Idle(t) == acc[t].pc = "idle"

PeerConnects(b) ==
    /\ fd[b] # Unset /\ arrived < NIns
    /\ arrived' = arrived + 1
    /\ backlog' = [backlog EXCEPT ![b] = @ + 1]
    /\ UNCHANGED <<thrLastIdx, made, fields, rio, arrays, jobs, reading, call, acc, open,
                   crashed, chosen, raced, failed, late>>

\* accept and malloc; without memory the new descriptor is forgotten.
Accept(t, b) ==
    /\ Idle(t) /\ rio[b] = "on" /\ thr[b] = t /\ backlog[b] > 0
    /\ backlog' = [backlog EXCEPT ![b] = @ - 1]
    /\ open' = open \cup {NewFd}
    /\ \/ LET o == NextOf(Ins \ made)
          IN /\ Ins \ made # {}
             /\ made' = made \cup {o}
             /\ acc' = [acc EXCEPT ![t] = [NoAccept EXCEPT !.pc = "local", !.b = b,
                                                           !.o = o, !.fd = NewFd]]
             /\ UNCHANGED failed
       \/ AllowFail /\ failed' = TRUE /\ UNCHANGED <<made, acc>>
    /\ UNCHANGED <<thrLastIdx, fields, rio, arrays, jobs, reading, call, arrived, crashed,
                   chosen, raced, late>>

\* The insert in the bind's conns, under its sync; on failure the struct is
\* freed, the descriptor forgotten.
AcceptLocal(t) ==
    LET b == acc[t].b
        o == acc[t].o
    IN /\ acc[t].pc = "local"
       /\ \/ /\ local' = [local EXCEPT ![b] = Append(@, o)]
             /\ acc' = [acc EXCEPT ![t].pc = "root", ![t].il = Len(local[b])]
             /\ UNCHANGED <<made, failed>>
          \/ /\ AllowFail /\ failed' = TRUE
             /\ made' = made \ {o}
             /\ acc' = [acc EXCEPT ![t] = NoAccept]
             /\ UNCHANGED local
       /\ UNCHANGED <<thrLastIdx, fields, rio, binds, conns, jobs, reading, call, kernel,
                      crashed, chosen, raced, late>>

\* The insert in root->conns, under root->sync; on failure the struct stays in
\* the bind's conns.
AcceptRoot(t) ==
    /\ acc[t].pc = "root"
    /\ \/ /\ conns' = Append(conns, acc[t].o)
          /\ acc' = [acc EXCEPT ![t].pc = "choose", ![t].i = Len(conns)]
          /\ UNCHANGED failed
       \/ /\ AllowFail /\ failed' = TRUE
          /\ acc' = [acc EXCEPT ![t] = NoAccept]
          /\ UNCHANGED conns
    /\ UNCHANGED <<thrLastIdx, made, fields, rio, binds, local, jobs, reading, call,
                   kernel, crashed, chosen, raced, late>>

\* A thread, and the fields.
SwapIndices(t) ==
    /\ idx' = [idx EXCEPT ![acc[t].o] = acc[t].il]
    /\ idxlocal' = [idxlocal EXCEPT ![acc[t].o] = acc[t].i]

SetIndices(t) ==
    /\ idx' = [idx EXCEPT ![acc[t].o] = acc[t].i]
    /\ idxlocal' = [idxlocal EXCEPT ![acc[t].o] = acc[t].il]

ForgetFd(t) == fd                               \* conn->fd stays -1

SetFd(t) == [fd EXCEPT ![acc[t].o] = acc[t].fd]

AcceptChoose(t) ==
    /\ acc[t].pc = "choose"
    /\ ChooseThr
    /\ thr' = [thr EXCEPT ![acc[t].o] = thrLastIdx]
    /\ fd' = SetFd(t)
    /\ SetIndices(t)
    /\ acc' = [acc EXCEPT ![t].pc = "start"]
    /\ UNCHANGED <<made, rio, arrays, jobs, reading, call, kernel, crashed, raced, failed, late>>

AcceptStart(t) ==
    /\ acc[t].pc = "start"
    /\ StartTask(thr[acc[t].o], acc[t].o)
    /\ acc' = [acc EXCEPT ![t] = NoAccept]
    /\ UNCHANGED <<thrLastIdx, made, fields, rio, arrays, reading, call, kernel, crashed,
                   chosen, raced, failed, late>>

-----------------------------------------------------------------------------
(* The worker threads, and the receive path's bulk loop under root->sync.  *)

\* task_routine of thread.c for BIND and CONN, of sock.c for the read tasks,
\* which may meet a watcher that ev_io_init has not seen: anything happens.
Run(t) ==
    /\ Idle(t) /\ jobs[t] # << >>
    /\ LET o == Head(jobs[t])[1]
           op == Head(jobs[t])[2]
       IN IF op \in {"START_READ", "STOP_READ"} /\ rio[o] = "uninit"
          THEN crashed' \in BOOLEAN /\ UNCHANGED rio
          ELSE /\ rio' = [rio EXCEPT ![o] = IF op = "STOP_READ" THEN "off" ELSE "on"]
               /\ UNCHANGED crashed
    /\ jobs' = [jobs EXCEPT ![t] = Tail(@)]
    /\ UNCHANGED <<thrLastIdx, made, fields, arrays, reading, call, acc, kernel, chosen,
                   raced, failed, late>>

\* The turn without its fsock_queue_remove.
KeepOther(q, c, op, other) ==
    [q EXCEPT ![thr[c]] = IF <<c, op>> \in Elems(@) THEN @ ELSE Append(@, <<c, op>>)]

\* A turn for connection c: push its task unless it is queued, remove the other.
Requeue(q, c, op, other) ==
    [q EXCEPT ![thr[c]] = Without(IF <<c, op>> \in Elems(@) THEN @ ELSE Append(@, <<c, op>>),
                                  <<c, other>>)]

\* The queues after each turn of the loop over root->conns.
Turns(op, other) ==
    LET turn[k \in 0..Len(conns)] ==
           IF k = 0 THEN jobs ELSE Requeue(turn[k - 1], conns[k], op, other)
    IN turn

\* A connection without a thread is a NULL dereference.
Bulk(op, other) ==
    IF \E c \in Elems(conns) : thr[c] = Unset
    THEN crashed' = TRUE /\ UNCHANGED jobs
    ELSE jobs' = Turns(op, other)[Len(conns)] /\ UNCHANGED crashed

\* A read handler crosses the receive mark.
StopReading ==
    /\ AllowStop /\ \E c \in Elems(conns) : rio[c] = "on" /\ Idle(thr[c])
    /\ reading' = STOP_OP
    /\ Bulk("STOP_READ", "START_READ")
    /\ late' = {c \in Outs \cup Ins : rio[c] = "uninit"}
    /\ UNCHANGED <<thrLastIdx, made, fields, rio, arrays, call, acc, kernel, chosen,
                   raced, failed>>

\* fsock_get_event gets below it.
StartReading ==
    /\ reading = STOP_OP
    /\ reading' = 0
    /\ Bulk("START_READ", "STOP_READ")
    /\ UNCHANGED <<thrLastIdx, made, fields, rio, arrays, call, acc, kernel, chosen,
                   raced, failed, late>>

-----------------------------------------------------------------------------
Call(a) == ~crashed /\ (\/ CallOpen(a) \/ CallFails(a) \/ BindScan(a) \/ BindStore(a)
                        \/ ConnectInsert(a) \/ CallAborts(a) \/ CallStart(a))

Handler(t) == ~crashed /\ (\/ AcceptLocal(t) \/ AcceptRoot(t) \/ AcceptChoose(t)
                           \/ AcceptStart(t))

Tasks(t) == ~crashed /\ Run(t)

Accepts(b) == ~crashed /\ \E t \in Threads : Accept(t, b)

Environment ==
    /\ ~crashed
    /\ \/ \E a \in Apps : CallBegin(a, Binds) \/ CallBegin(a, Outs)
       \/ \E b \in Binds : PeerConnects(b)
       \/ StopReading \/ StartReading

Next == \/ Environment
        \/ \E a \in Apps : Call(a)
        \/ \E t \in Threads : Handler(t) \/ Tasks(t)
        \/ \E b \in Binds : Accepts(b)

\* Straight-line code goes on; a loop serves its queue and its ready watchers
\* in turn, though each may find it busy with the other.
Fairness ==
    /\ \A a \in Apps : WF_vars(Call(a))
    /\ \A t \in Threads : WF_vars(Handler(t)) /\ SF_vars(Tasks(t))
    /\ \A b \in Binds : SF_vars(Accepts(b))

Spec == Init /\ [][Next]_vars /\ Fairness

-----------------------------------------------------------------------------
(***************************************************************************)
(* Properties.                                                             *)
(***************************************************************************)

\* f_choose_thr spreads the load: however calls and accept handlers interleave,
\* and whichever fail afterwards, no thread is chosen twice more than another.
Balanced == \A t, u \in Threads : chosen[t] <= chosen[u] + 1

\* The indices a settled connection carries, which fsock_send and fsock_sendc
\* are given, name it in both arrays; the connections of a bind stand in its own
\* array in the order of root->conns, and unless something ran out only the one
\* being accepted is missing there.
IndicesName ==
    /\ \A o \in Outs \cup Ins : idx[o] # Unset => conns[idx[o] + 1] = o
    /\ \A b \in Binds : \A k \in 1..Len(local[b]) :
          /\ idxlocal[local[b][k]] \in {Unset, k - 1}
          /\ \A i \in 1..(k - 1) : \A p, q \in 1..Len(conns) :
                conns[p] = local[b][i] /\ conns[q] = local[b][k] => p < q
          /\ ~failed => \/ local[b][k] \in Elems(conns)
                        \/ /\ k = Len(local[b])
                           /\ \E t \in Threads : acc[t].o = local[b][k] /\ acc[t].pc = "root"

\* fsock_bind returns the index of its bind, unless two calls were inside the
\* unlocked insert at once.
BindIndexNames ==
    ~raced => \A b \in Binds : idx[b] # Unset => binds.elems[idx[b]] = b

\* The index a call returns or a connection carries names it, in every array it
\* stands in.
HandlesName == IndicesName /\ BindIndexNames

\* The task that starts a watcher finds the descriptor, the index and its own
\* thread in the socket it is given.
ReadyWhenQueued ==
    \A t \in Threads : \A j \in Elems(jobs[t]) :
       j[2] \in {"BIND", "CONN"} =>
          thr[j[1]] = t /\ fd[j[1]] \in open /\ idx[j[1]] # Unset

\* The only window in which a published connection has no thread is inside the
\* accept handler, between its insert and its choice of a thread.
ThreadlessOnlyInAccept ==
    \A c \in Elems(conns) :
       thr[c] = Unset => \E t \in Threads : acc[t].o = c /\ acc[t].pc = "choose"

\* What another thread finds through a queue or an array is ready for it, but
\* for the one window inside accept.
ReadyInTime == ReadyWhenQueued /\ ThreadlessOnlyInAccept

\* Who has descriptor d: a socket, a call, or an accept handler that has not
\* handed it on.
Holders(d) ==
    {<<"sock", o>> : o \in {x \in Socks : fd[x] = d}}
    \cup {<<"call", a>> : a \in {x \in Apps : call[x].fd = d}}
    \cup {<<"accept", t>> : t \in {x \in Threads : acc[x].fd = d /\ acc[x].pc # "start"}}

\* Every descriptor belongs to one socket or to one running call, unless
\* something ran out.
FdsOwned ==
    \A d \in open : /\ \A x, y \in Holders(d) : x = y
                    /\ ~failed => Holders(d) # {}

\* The CONN task of a published connection runs: it does not stay without
\* watchers, however the handlers, the tasks and the bulk loop compete.
PublishedServed ==
    \A c \in Outs \cup Ins : c \in Elems(conns) ~> rio[c] # "uninit" \/ crashed

\* A peer that connected is accepted.
WaitingAccepted == \A b \in Binds : backlog[b] > 0 ~> backlog[b] = 0 \/ crashed

\* Nobody is left waiting: peers are accepted and connections get watchers.
Served == PublishedServed /\ WaitingAccepted

\* sock.h:22-24, with reading set to STOP_OP the input of all attached sockets
\* will be stopped, holds for those that had watchers when the stop came: a
\* connection attached after it, or just then, reads on.
StopReaches ==
    reading = STOP_OP /\ ~crashed =>
       \A c \in Elems(conns) \ late :
          rio[c] = "on" => <<c, "STOP_READ">> \in Elems(jobs[thr[c]])
=============================================================================
