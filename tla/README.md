# A verification project for fsocket

fsocket is a small C library that moves frames between applications over TCP.
An application owns *sockets*; a socket owns *binds* and *connections*; four
worker threads run the connections' handlers on libev loops. The application
talks to its socket through `fsock_send` and `fsock_get_event`.

This directory holds TLA+ modules translated from the C code, TLC
configurations that check them on small instances, and proofs that TLAPS
checks for every instance. `PROJECT.json` lists, definition by definition, the
source lines each one models.

## Inventory

| component | state | operations | hard behaviour | what makes it correct |
|---|---|---|---|---|
| queue (`utils/queue.c`) | head, tail, `item->next` | init, push, pop, remove, isinqueue, splice by hand | `next` is also the membership flag other threads read; the removal walk runs while another queue is popped | pointers spell out a sequence, FIFO order, exact membership |
| worker thread (`utils/thread.c`, bulk macro in `core/sock.h`, `fsock_workers_*` in `core/global.c`) | job queue, async watcher, private batch, watchers | schedule, async routine, tasks, bulk stop/start, join | a bulk loop under all mutexes races unlocked pops of a batch; wake-ups; stop item drops tasks | the last request wins on every connection, no job sleeps, joins return |
| receive path (`fsock_sock_read_handler`, `fsock_get_event`) | event queue, `rcvqsz`, `reading`, `want_efd`, eventfd | read, parse, deliver, get, wait, time out | several threads deliver; signals race time-outs; stop/resume of all inputs | no frame twice or out of order, none lost but for want of memory, exact count, no missed or stale signal, no stall |
| send path (`fsock_send`, `fsock_sock_write_handler`) | out list, `conn->writing`, `sndqsz`, `writing`, `want_wcond` | send, wait, write, put back, account, stop | unlocked tests, two mutexes, EAGAIN in the middle of a list, errors | frames kept and in order, exact stop flag, no lost wake-up |
| pointer array (`utils/parr.c`) | elems, last, capacity | insert, clear, size, begin, next, term | holes, growth one slot early, shrink loop, uninitialised memory, a walk that clears what it walks | handles stay valid, size exact, walks complete, loops end |
| event descriptor (`utils/efd*.{c,inc}`) | a counter, or bytes in a pipe or socket pair | init, signal, unsignal, wait, stop, term | level-triggered signal that outlives its wait; block-wise reads; a close during a signal | an unsignal takes all earlier signals, the assertions hold |
| attach (`fsock_bind`, `fsock_connect`, `fsock_sock_accept_handler`, CONN/BIND tasks) | two arrays, `conn->thr`, `idx`, `idxlocal` | bind, connect, accept | publication before initialisation; arrays read while they are reallocated | a published connection is usable, indices name it |
| life cycle (`fsock_socket`, `fsock_close`, global init/term) | `g_initialized`, socket array, threads | socket, close, init, term | freeing under running handlers, restart after the last close | nobody uses freed memory, term and init do not overlap |
| dispatch (`fsock_sendc`, `fsock_send_all`) | none of its own | send to all, to a bind, to a bind's connection | sends while holding `sock->sync`, local against global index | exactly the selected connections get the frame |
| older worker (`utils/worker.c`) | task queue, async, thread | init, schedule, erase, term | the async is sent after the unlock | no task sleeps, term returns |
| benchmarks (`perf/*.c`) | loop counters of two ends | round trips, streams, publish and subscribe | they rely on prompt delivery, on return values and on waits that do not expire | they measure what they say, and end |
| TCP helpers (`utils/anet.c`), locks, errors, clock | | | | vendored or thin wrappers |

Components meet as follows. A handler runs on its connection's thread only. It
touches its *owner* socket under `sock->sync`, its own out list under
`conn->sync`, and other threads' job queues under their `thr->sync`. The
application touches the same three. The watchers of a connection are touched
only by its own thread, which is why starting a write, and stopping or starting
all reads, goes through tasks.

The hazards of this code, each at its line and with the properties that would
catch it, are in `PROJECT.json` under `hazards`.

## Modules

| module | models | remarks |
|---|---|---|
| `QueueOps` | what queue operations do to a sequence | shared helpers; `QueueOpsProofs` has the lemmas about them that the other proofs cite |
| `Fifo` | abstract queues | what `queue.c` promises |
| `FsockQueue` | `queue.c`, pointer by pointer | `fifo` is a history variable; the walk of `remove` takes one step per item and locks only the walked queue; the splice of the read handler and the take of `async_routine` are one action, `Splice` |
| `FsockThread` | `thread.c`, tasks of `sock.c`, bulk macro | runs by itself under every pattern of requests (`ThreadSpec`); `RecvPath` and `SendPath` extend it and make the requests themselves |
| `FrameStream` | abstract connection | frames at most once and in order, none passed over but those that are gone |
| `RecvPath` | read handler, event queue, eventfd, `fsock_get_event` | extends `FsockThread` |
| `SendPath` | `fsock_send`, out list, write handler | extends `FsockThread` |
| `Attach` | `fsock_bind`, `fsock_connect`, accept handler, BIND and CONN tasks, what `anet.c` does to descriptors | a connection is published in one step and becomes usable in later ones; the bulk loop is one step and a thread has one queue, their detail is in `FsockThread` |
| `Dispatch` | `fsock_sendc`, `fsock_send_all` | extends `SendPath`; adds the lock `sock->sync` held over several steps (`held`), the two separate reads of `sock->writing` and the flags |
| `Lifecycle` | `fsock_socket`, `fsock_close`, `fsock_global_init`, `fsock_global_term`, `fsock_sock_term`, start and end of the workers | structures are freed one step at a time; the arrays they stand in keep their `last` and their shape, whose detail is in `Parr`; attaching is one step, its detail is in `Attach` |
| `Parr` | `parr.c` and the walk of `fsock_sock_term` | slots realloc adds or removes hold any value |
| `Efd` | `efd.c` over eventfd, pipe and socket pair | `RecvPath` uses the eventfd form only |
| `Worker` | `worker.c` | the callback is the user's and does what `thread.c`'s does |
| `Bench` | `perf/local_lat.c`, `remote_lat.c`, `local_thr.c`, `remote_thr.c`, `perf_thr.c`, `perf_pubsub.c` | the library stands for what the other modules show of it, including what it does not promise (`upset`) |
| `*Proofs` | | theorems and proofs, one module per component; `SendPathProofs` covers `Dispatch`, `PartsProofs` covers `Parr`, `Efd`, `Worker` and `Bench` |
| `MC*` | | instances for TLC; `MCParts` puts the parts that stand alone side by side, of which one runs in a behaviour (`part`) |

### How the state corresponds to the code

*Steps and locks.* A critical section is one step, because everything it
touches is touched under the same mutex. Three things are split further: the
bulk loop (`bulk`: one step per connection, since a worker pops its batch
without a lock meanwhile), the removal walk of the queue, and everything a
handler does between two critical sections (`rh`, `wh` hold the handler's
locals and its position). Within one turn of the bulk loop the two tests of
`isinqueue` are not separated: the only concurrent change is that the worker
pops an item of its batch, which commutes with the turn. While `bulk.on` the
caller holds `sock->sync`, so nobody else delivers or takes an event; until
`BulkUnlock` it also holds all thread mutexes (`WorkersLocked`), so nobody takes
a job queue. Between `BulkUnlock` and `BulkEnd`, the signal, a worker may be
woken by an earlier async, take the jobs and run them.

*Data.* A frame is its number on its connection. A read returns some whole
frames, perhaps followed by a part of the next one, or only that part. The
parser's list `in_frames` is the last `left` of the frames parsed: when
`fsock_queue_event` has no memory the loop breaks (`TakeFrames`), the frame it
had taken is in no queue (`lost`), and the rest is found by the next read. A
failing `read` other than EAGAIN hands the parser a length of -1, which
`frm_parser_parse`, an external function, is taken to reject or to make nothing
of (`ReadError`); what a peer sent before it reset the connection is read first.
`rcvqsz` is an integer without bound: a socket queues far fewer events than an
`int` holds. The
parser, the frames' bytes and the framer lists are external; the out list is
modelled from how `sock.c` uses it: a sequence and a position of `last`.
`last = 0` is a null pointer. `last` is not always the end of the sequence: a
list put back after EAGAIN in front of newer frames keeps its own `last`, and
the next insert unlinks those frames. `WireExact` says that this, and a
failed write, are the only ways to lose a frame.

*Attaching.* A connection is in `root->conns` before its thread, descriptor and
index are set and before its CONN task is queued, so the receive path's bulk
loop may meet it half made. `Attach` models what then happens: a connection
without a thread is a null dereference (`crashed`), a read task on a watcher
that `ev_io_init` has not seen is undefined (it may crash), and the CONN task
starts the watcher although the input is stopped. The comment of `sock.h:22-24`
("all attached sockets' input ... will be stopped") therefore holds only for
connections that had their watchers when the stop came, which is what
`StopReaches` states; `late` remembers the others. The unlocked insert of
`fsock_bind` takes two steps, and `raced` remembers that two overlapped. The
descriptors are numbers, so that one can be lost: `accept` forgets its own when
memory runs out, and the listening helper of `anet.c` when an option cannot be
set (`failed`).

*Dispatching.* A dispatch holds `sock->sync` from its first element to its
last, but for `pthread_cond_wait`. That lock is what makes a dispatch atomic
(`SameOrder`), what keeps the two reads of `sock->writing` equal
(`DonwaitNeverWaits`) and what keeps a publisher from being forgotten
(`PublisherWoken`): the same three statements fail for a plain `fsock_send`,
which takes the lock later. The mutant that does not take the lock shows it.
`fsock_send` returns no value on success, so its result is any value. Its two
looks at `sock->writing` (`global.c:257` and `259`) are two steps, with the lock
(`SendEach`, `SendAgain`) and without it (`SendBindConn` or `SendCall`, then
`SendLook`), and it may return for want of memory before it has changed anything
(`SendNoMem`).

*Closing.* `fsock_close` takes a socket out of the array under the global lock
and does the rest without any. `wrong` stands for a failed assertion, a use of
freed memory or a push on a thread that `fsock_thread_term` has destroyed, and
`disturbed` remembers the three situations the code does not exclude: a worker
that has a task or a handler of the socket being closed (an accept handler that
ends meanwhile included), a loop that meets a descriptor number again for which
it still has a watcher of a freed structure (nothing stops the watchers of a
closed socket), and a socket opened while the workers are being stopped.

The arrays are a fourth. A set says which structures an array holds; `arr` says
what the array itself knows: its `last`, and whether all below it is in use
("tidy"), some slots are cleared ("holed"), the same with `last` at the capacity
("full"), or a slot below `last` was never written or was given back ("messy").
`Grown` and `Shrunk` are what an insert and a clear make of that. On a full array
the assertion of `parr.c:63` fails (with the code's increment of 10 that is ten
sockets opened, one closed and one opened); a messy one may fail it, may be walked into a
slot that holds no pointer, may fail the assertion of `fsock_parr_term`
(`sock.c:117-118`, `global.c:62`) after everything in it was freed, and its size
may not be zero when it is empty, so that `global.c:113` does not see that the
last socket is closed and the workers stay. "messy" stands for any contents of
such slots, and it is a little more than the arrays of `Parr` can do: of more
than one block the model lets any clear give the topmost back.
`QuietCloseSafe` says that there is no fifth way to go wrong, and
`CloseLeavesNothing` that workers outlive the last socket only if the array of
the sockets is messy then. An array that cannot grow for want of memory is left
out, and so is a call in progress on a socket that is being closed.

*Parts.* In `Parr` the flag `tidy` says that no hole was filled and no block
given back since the array was last empty; without it `last` passes slots
nobody wrote, and what the code then reads is any value. A walk that clears what
it walks may give back a block and then read there, behind its last element:
`WalkLeavesNone` says that by then every element has been terminated. In `Efd` a read takes
a block of `BlockSize` bytes; the code's 16 is 2 in the run, so that the
boundary is met. In `Bench` `upset` collects what the programs do not reckon
with: a client that connects too soon, an expired wait, the missing return
value of `fsock_send`, a frame that stays behind (`StaysBehind`) or is lost
(`Loses`: the lists that are put back after EAGAIN, or no memory in the reader), a
wait that is woken for nothing (`WokenEmpty`), a process that quits early. What
`BenchSound` claims holds whichever of them happen, with the two exceptions it
names: an expired wait is counted as a hello, and a lost message is not seen.

*Undefined behaviour.* `cnt` in the read handler is never initialised. The
module starts it with any value of `UninitCnt`, a set of integers, and
`miscounted` remembers that one was not zero. The properties of the receive path
say what each of their parts needs: order and the absence of duplicates, the
watchers, and that no signal is missing hold for any value; that nothing is lost,
that `rcvqsz` is exact and that no wake-up is empty hold until a `cnt` was not
zero. `recv` takes `{0}`, `recv_live` takes `{-1, 0, 1}`. With a `cnt` that
starts at 1, a read that completes no frame signals a waiting `fsock_get_event`,
which finds nothing and aborts (`global.c:216`): `WakesWithEvent` names the case.

*External parts.* Peers send, close, break the framing and empty the kernel
buffer when they like. libev is the rule that a started watcher whose
descriptor is ready may be served when its loop is not inside another routine.

## Runs

| run | instance | shows |
|---|---|---|
| `parts` | 3 items in 3 queues; 5 array elements, increment 3, capacity up to 6; 3 forms of event descriptor, block 2, 5 signals; 2 callers and 2 tasks of a worker; 4 benchmark programs, 2 clients, 2 rounds | queue: representation and refinement of `Fifo`; array: handles valid, size and walk exact while tidy; descriptor: an unsignal takes every earlier signal; worker: no task forgotten; benchmarks: one frame in the air, all subscribers there before the first message, whatever the library loses or wakes for nothing, and served unless it loses; the calls with loops or joins return and an undisturbed benchmark ends |
| `thread` | 2 connections on one of 2 threads | any pattern of stop/start requests, writes and joins: an item is queued once, the last request wins, no lost wake-up, tasks run, joins return |
| `recv` | 2 connections on 2 threads, mark 1, 2 frames each, bad framing, closes, no memory, time-outs | order and exact count (`EventsExact`), stop flag against queue and watchers (`StopsConsistent`), no missed signal and, until a wait is cut short, none too many (`HandShake`), refinement of `FrameStream` |
| `recv_live` | 2 connections on 1 thread, mark 1, 2 frames each, resets; on one alone no memory, interrupted waits and `cnt` from -1 to 1 | the same three invariants (`RecvSound`), with what they say of a `cnt` that is not zero; every frame is delivered despite stops (`AllDelivered`), except what there was no memory for or what the parser holds because of that; each time a resume switches the watcher of a closed connection on, its handler switches it off again (`ClosedGoesQuiet`). Nothing is said about how often: with steady traffic on another connection every resume does it |
| `send` | 2 senders with 2 calls, 2 connections on 2 threads, mark 2, kernel room 1, closes, no memory | order on the wire and loss in two named cases only (`WireExact`), counting and stop flag (`MarkExact`), the push assertion |
| `dispatch` | 2 publishers, 2 connections in 4 arrangements of binds and directions, 5 kinds of request, mark 2, closes, no memory | each dispatch reaches exactly its connections where local and global indices agree, dispatches are seen in one order, `FSOCK_DONWAIT` never waits, waiting publishers are woken |
| `attach` | 2 application threads, 2 workers, 2 binds, 1 connect, 2 peers, failures | even use of the threads, indices that name their connections in both arrays, tasks that find initialised sockets, no threadless connection outside one window, no descriptor lost unless something ran out |
| `attach_live` | 2 application threads, 2 workers, 1 bind, 1 connect, 2 peers, failures, stops and resumes | a stop reaches every connection that had watchers, published connections get their watchers, peers are accepted |
| `lifecycle` | 2 application threads, 2 workers, 4 descriptors, increment 3; 2 sockets with a bind, an accepted and an outgoing connection, or 4 bare sockets, or 1 with 4 connections | a close goes wrong in the four named situations only, leaves neither memory nor descriptors nor threads, workers run exactly while there are sockets unless `self.socks` is messy at the last close, closes return; all this where arrays are filled beyond a block, give blocks back and have cleared slots filled again |
| `recv_stale_signal` | 1 connection, time-outs | **violated**: `assert (!fsock_queue_empty (&sock->events))` after a stale signal |
| `send_lost_frame` | 1 sender | **violated**: a frame inserted between the handler's last look at the list and its clearing of `conn->writing` is not written until a later send |
| `dispatch_bind` | 1 publisher, an outgoing connection before the bind's | **violated**: `FSOCK_SND_BIND` sends to the outgoing connection instead of the bind's |

Each `violation` run has an entry under `findings` with the lines it quotes.

*Bounds.* Marks of one or two frames make every frame cross them; two frames
per peer and chunks of up to two cover a read that jumps over the mark; two
connections are the least for which a bulk loop is interrupted between them;
two threads let two handlers work on one owner at once, one thread lets two
connections compete for one loop. Room for one frame makes every second write
fail with EAGAIN, and two senders suffice for a frame to arrive at each point
of a handler. Two binds and two peers let two accept handlers run at once on
two threads; with stops and resumes added one bind suffices, as the window is the
same. Five array elements with increment three reach two blocks, holes
below `last`, a shrink in every order and a walk that gives back its own block. Five signals fill two blocks of an
event descriptor and leave one over. Two dispatches over two connections are
the least that can be seen in different orders, and the four arrangements are
all those of two connections up to the names of the binds in which a dispatch
to a bind has somebody to reach. In `lifecycle` each structure lives once; one
worker serves a connection of either socket, and the one that accepts is joined
after it, so that an accept handler may end when the new connection's worker is
already gone. Four bare sockets fill a block of three and let one be opened after
another was closed, also when the block was full; four connections are one more than a block, and as they
differ in nothing they are attached in one order. The constraint `UsedTogether`
keeps these three cases apart, and `HarmAlone` in `recv_live` keeps what goes wrong
from two connections at once. Neither takes away a step that fairness forces:
both only limit what peers send, what applications attach, which of several
outcomes a read has and whether a wait is interrupted.
The senders are interchangeable, so the run `send` uses symmetry. Bounded peers
and senders stop, structures are used up, and a failed assertion ends the
process, so no run checks for deadlock; that nobody waits for ever is stated as
liveness.

*Fairness.* Straight-line code goes on (weak fairness of handlers, bulk loop,
walk, tasks). libev serves every pending watcher of a loop iteration, but a
watcher may be blocked again and again by other routines of its loop, hence
strong fairness of handlers and of the async routine. In `recv_live` the
application keeps calling `fsock_get_event`; in the send runs peers keep
reading. In `attach_live` calls and handlers that have begun go on, and a loop
serves its tasks and its listening watchers in turn. In `lifecycle` a close goes
on, a handler that began ends and a loop comes to its tasks however often
handlers come first. The older worker's loop serves a pending async and the
callers go on. The benchmark programs and the library under them go on in steps
that upset nothing (`Smoothly`). Senders, time-outs, signal handlers, closes
and spurious wake-ups of `pthread_cond_wait` are never forced.

Each property of a passing run has a mutant in `PROJECT.json`: a definition of
the model is replaced by a plausible mistake (defined just above it) and the
run must then fail.

## Proofs

All theorems are of the form `Spec => []P` (or `Spec => [][A]_v` for a
refinement) and hold for every value of the constants that satisfies the named
assumptions. Each proof has the same outline: an inductive invariant, a lemma
that the initial states satisfy it, one lemma per action or group of actions
that it is preserved, and a lemma that it gives the properties. What an
invariant has to add to the property is the interesting part, and is told here.

*Queue* (`FsockQueueProofs`; any items, any queues; `PointerAssumption`):
`TypeCorrect`, `Representation`, `QueueImplementsFifo`. The invariant is
`TypeOK /\ Represents`. `Linked` (pointers spell out `fifo`) is preserved by a
push only because `NoSharing` keeps an item out of every other queue, which a
push may rely on only because `IsInQueueExact` ties the flag `next` to
membership; and `WalkInside` (the walk's `it` and `prev` are neighbours in the
walked queue, and the item is not behind it) is what makes the unlinking of
`RemoveFound` right although other queues change during the walk. Every step is
mapped to the abstract operation of the same name, the walk's steps to
stuttering and its end to `Remove`.

*Threads* (`FsockThreadProofs`; any connections, threads and placement):
`ItemsQueuedOnce`, `LastRequestHolds`, `NoWakeupLost`. The bulk loop decides by
`isinqueue`, which cannot tell the job queue from the batch the worker took.
The invariant says for each connection what batch and job queue together hold
(`Sound`): no item twice, and not both read tasks in the job queue once the
loop has passed. `Follows` then says what the watcher will be when all of it has
run, by the last read task in the queues (`Decides`), and is shown for pushes,
cancellations, takes and pops separately.

*Receive path* (`RecvPathProofs`; any connections, threads, mark and frames):
`RecvTypes`, `ReadingGoverns`, `EventsAreExact`, `StopsAreConsistent`,
`HandShakeHolds`, `StreamImplemented`, for any set of integers `UninitCnt` and
with or without allocation failures. Three invariants are layered: `Governed`
(watchers against `sock->reading`, from the thread lemmas), `Placed` (each frame
is on the wire, in the parser, in one handler's local queue, in `sock->events`,
handed out or lost) and `DataInv` (counts, high water mark, and `WaitInv`: who
owes the eventfd a signal), whose exact parts are claimed only while no `cnt`
was miscounted.

*Send path and dispatch* (`SendPathProofs`; any finite set of senders, any
connections, threads, marks; `SendAssumption`): `SendTypes`, `MarkIsExact`,
`PushIsSafe`, `WireIsExact`; `DispatchTypes`, `SelectedExactlyOnce`,
`OrderAgrees`, `DonwaitIsKept`, `PublishersAreWoken`. `Shaped` ties the locals
of senders and handlers to their positions, `Writers` ties `conn->writing` to
the one task, watcher or handler that stands for it, `Accounting` is an equation
between sums over all connections, and `Wires` follows the frames of one
connection from the list over the handler to the wire. The finite set of
senders is needed because the equation counts those between insert and count.
For dispatches `Calls` says of each caller what the lock, the flags and its
position have to do with one another, and `Logs` that a call that never waited
stands alone: nothing is logged between its frames.

*Array, event descriptor, older worker, benchmarks* (`PartsProofs`): `HandlesStayValid` and
`TidyArraysSound` for any elements and any increment above one (the library
uses ten), `EfdCorrect` for any block size, `TasksRemembered` for any callers
and tasks. The array's invariant `ParrInv` says which slots are written
(`ParrShape`) and, for a tidy array, that the live elements fill the slots below
`last` without gap and that the walk has cleared those behind it (`ParrOrder`).
`BenchmarksSound` holds for any finite set of clients and any number of rounds.
`BenchInv` says for each program what its two sides have exchanged at each
position (`LatInv`, `ThrInv`, `PerfInv`, `PubInv`). For perf_pubsub the publisher
counts hellos without knowing whose they are; that its count means all clients
follows from `Heard`, the clients whose hello has left and is no longer under
way, taken or lost: among those of them that have joined there is a set with as
many members as were counted, and a count of all clients makes it the whole set. `PartsTypes` is the type invariant of the
four; the bounds of the benchmarks' counters follow from the same invariant
(`BenchBounds`).

*Life cycle* (`LifecycleProofs`; any applications, sockets, binds, connections
and workers, any placement; `LifeAssumption`): `LifeTypes`,
`QuietClosesAreSafe`, `ClosesLeaveNothing`. `Tree` says that arrays, owners and
holders agree, whether disturbed or not: this is what lets nothing be leaked or
freed twice. `Sized` ties each array's `last` and shape to what it holds: a tidy
or holed array is fresh as soon as it is empty, which is why only a messy one can
fail the assertions of a quiet close (`Blamed`). `Quiet` and `Matched` hold as
long as nothing disturbs: whoever
frees a socket is alone with it, and the threads are in the state the closing
calls' positions say.

*Attaching* (`AttachProofs`; any workers, callers, binds, connects and peers,
with or without failures and stops; `AttachAssumption`): `AttachTypes`,
`ThreadsBalanced`, `HandlesNameTheirSockets`, `TasksFindReadySockets`,
`DescriptorsOwned`, `StopsReachReaders`. `ThreadsBalanced` needs no more than
`Even`: the threads below the round-robin counter were chosen once more than the
others. The rest rests on `AttachInv` (`AttachInvariant`), which says for each
position of a call (`CallOK`) and of an accept handler (`AccOK`) which fields of
its socket are set and which arrays hold it, that no two work on one socket
(`Apart`), what a queued task may rely on (`TaskOK`), that an index lies inside
its array (`ArraysOK`), that the unlocked array of binds has room for every call
that is still to store (`BindsOK`: `last` plus those waiting is at most the number
of binds), that whoever has a descriptor has an open one (`FdsOpen`), and that
while the input is stopped no task starts it and every connection without a
watcher is among the late ones (`StopsOK`). Most steps are disposed of by
`Frame(x)`: a step changes the fields of one socket `x`, publishes at most `x`
and queues at most its first task or read tasks, so that whatever is said of
another socket, call or handler survives it. The bulk loop is the recursive
function `Turns`; what it leaves in the queues (`TurnsDo`) is proved for any
number of connections by taking a least turn at which the statement fails. A
descriptor is followed through `Holders`: a step gives it to a first holder,
hands it on, or reports a failure.

*What the attempts taught.* Several statements did not survive as they stood.
The stream promised every frame, which a failing allocation breaks. Closes were
said to fail in three ways, with the arrays taken for sets.
`WalkLeavesNone` was false for arrays of more than one block: the walk may fail
an assertion behind its last element. `CloseLeavesNothing` was false when a
connection's worker is joined before the worker that accepts it, a placement the
run did not have; the model now shows the push on the destroyed thread, and the
run has that placement. `PublisherWoken` overlooked a new stop between the
clearing of a stop and its broadcast.

*Only model-checked.* Liveness (`WorkersServe`, `AllDelivered`,
`ClosedGoesQuiet`, `CallsReturn`, `Served`, `CloseReturns`, and the violated
`FrameSent`), which TLAPS does not handle under fairness; and the violated
properties, which are false.

## Not modelled, and what is left to prove

Not modelled:

- the routine of `sock.c` lines 205 to 315, which no watcher is registered
  with; `fsock_sock_read_handler` took its place;
- most of `anet.c` (vendored, straight-line system calls; what listening and
  connecting do to descriptors is in `Attach`), error reporting, the clock, the
  Windows variants, `example.c` and `remote_thrcc.c` (written against another
  library);
- two threads in `fsock_get_event` on one socket: they would share one
  `want_efd` and one signal, and the code has no protocol for it;
- the read of `conns.elems` without a lock (`global.c:252`) while `accept`
  reallocates the block, which is undefined whatever follows;
- how long the write handler spins after a partial write (`sock.c:464`), which
  is up to the peer;
- a plain `fsock_send` that is forgotten: it looks at `sock->writing` before it
  takes the lock, so the broadcast may come in between. `SendPath` has these
  behaviours, and no property promises their absence.

Also left out are the unchecked allocations of the two tasks in `thread.c` (lines
146 and 157), which always succeed in `Attach`.

Every invariant and action property that a passing run checks is stated by a
theorem. What is left to prove is where modules meet: that what `Bench` assumes
of the library (frames at most once and in order) is what `RecvPath` and
`SendPath` prove, and that the shapes `Lifecycle` gives its arrays cover every
array of `Parr`; each would need a module that composes the two sides.
