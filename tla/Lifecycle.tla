----------------------------- MODULE Lifecycle -----------------------------
(***************************************************************************)
(* The life of the process's sockets and workers: fsock_socket, which      *)
(* starts the workers for the first socket, and fsock_close, which frees a *)
(* socket with its binds and connections and, after the last one, stops    *)
(* the workers (core/global.c, core/sock.c, utils/thread.c).               *)
(*                                                                         *)
(* fsock_close decides under the global lock and does the rest without any *)
(* lock, while the workers still run handlers and queued tasks and their   *)
(* loops still hold the watchers of the descriptors it closes.  Structures *)
(* are freed one step at a time.  How a bind or a connection is attached   *)
(* (module Attach) is one step here, and what its handlers do is left out: *)
(* a call that is still in progress on a socket being closed is no         *)
(* behaviour of this module.                                               *)
(*                                                                         *)
(* Sockets, binds and connections stand in the arrays of module Parr.  A   *)
(* set says what is in each, and arr what the array itself knows of it:    *)
(* its last and whether everything below last was written.                 *)
(***************************************************************************)
EXTENDS Integers, Sequences, FiniteSets

CONSTANTS Apps,             \* application threads
          Roots, Binds, Ins, Outs,      \* struct fsock_sock of each type
          Owner,            \* Owner[n]: the root of n, of its bind for an Ins
          BindOf,           \* BindOf[n]: the bind an Ins is accepted on
          NThreads,         \* the length of self.threads
          ThrOf,            \* sock->thr
          NFds,             \* bound: descriptors of the process
          Increment         \* the increment of every array

Threads == 0..(NThreads - 1)

Nodes == Roots \cup Binds \cup Ins \cup Outs

NoRoot == "none"

\* The arrays: the sockets, the connections of a root or bind, the binds of a
\* root.
Socks == <<"socks", NoRoot>>
Arrays == {Socks} \cup ({"conns"} \X (Roots \cup Binds)) \cup ({"binds"} \X Roots)

ASSUME LifeAssumption ==
    /\ Roots \cap (Binds \cup Ins \cup Outs) = {} /\ Binds \cap (Ins \cup Outs) = {}
    /\ Ins \cap Outs = {} /\ NoRoot \notin Roots
    /\ Owner \in [Nodes -> Roots] /\ BindOf \in [Ins -> Binds]
    /\ NThreads \in Nat /\ ThrOf \in [Nodes -> Threads] /\ NFds \in Nat
    /\ Increment \in Nat /\ Increment > 1
    /\ \A r \in Roots : Owner[r] = r
    /\ \A n \in Ins : Owner[n] = Owner[BindOf[n]]

VARIABLES ginit,            \* g_initialized
          socks,            \* self.socks
          node,             \* node[n]: not yet there, live or freed
          conns, binds,     \* sock->conns of a root or bind, sock->binds of a root
          arr,              \* arr[x]: last, and the shape of what is below it: all
                            \* in use, with cleared slots among it, the same with
                            \* no slot left behind last, or with slots among it
                            \* that nobody wrote or that were given back
          fd,               \* sock->fd, 0 for none
          watch,            \* watch[t]: the watchers of t's loop, by descriptor
          jobs,             \* jobs[t]: thr->jobs with the batch being run
          running,          \* running[t]: the nodes whose handler t is in
          thread,           \* thread[t]: not there, running or ended
          app,              \* app[a]: the running fsock_close of a
          wrong,            \* an assertion failed or freed memory was used
          disturbed         \* history: a worker was busy with a socket being closed,
                            \* a loop met a descriptor again that it had watched
                            \* before, or a socket was opened while the workers
                            \* were being stopped

lifeVars == <<ginit, socks, node, conns, binds, arr, fd, watch, jobs, running, thread,
              app, wrong, disturbed>>

Tasks == ({"start", "work"} \X Nodes) \cup {<<"stop">>}
NoCall == [pc |-> "idle", s |-> NoRoot, term |-> FALSE, k |-> 0]

Shapes == {"tidy", "holed", "full", "messy"}

LifeTypeOK ==
    /\ ginit \in BOOLEAN /\ socks \subseteq Roots
    /\ node \in [Nodes -> {"none", "live", "freed"}]
    /\ conns \in [Roots \cup Binds -> SUBSET (Ins \cup Outs)]
    /\ binds \in [Roots -> SUBSET Binds]
    /\ arr \in [Arrays -> [last : Nat, shape : Shapes]]
    /\ fd \in [Nodes -> 0..NFds]
    /\ watch \in [Threads -> SUBSET ((1..NFds) \X Nodes)]
    /\ jobs \in [Threads -> Seq(Tasks)] /\ running \in [Threads -> SUBSET Nodes]
    /\ thread \in [Threads -> {"none", "runs", "ended"}]
    /\ app \in [Apps -> [pc : {"idle", "free", "join", "wait"}, s : Roots \cup {NoRoot},
                          term : BOOLEAN, k : 0..NThreads]]
    /\ wrong \in BOOLEAN /\ disturbed \in BOOLEAN

Fresh == [last |-> 0, shape |-> "tidy"]                   \* fsock_parr_init

LifeInit ==
    /\ ginit = FALSE /\ socks = {}
    /\ node = [n \in Nodes |-> "none"]
    /\ conns = [n \in Roots \cup Binds |-> {}] /\ binds = [r \in Roots |-> {}]
    /\ arr = [x \in Arrays |-> Fresh]
    /\ fd = [n \in Nodes |-> 0]
    /\ watch = [t \in Threads |-> {}] /\ jobs = [t \in Threads |-> << >>]
    /\ running = [t \in Threads |-> {}]
    /\ thread = [t \in Threads |-> "none"]
    /\ app = [a \in Apps |-> NoCall]
    /\ wrong = FALSE /\ disturbed = FALSE

-----------------------------------------------------------------------------
Closing(r) == \E a \in Apps : app[a].s = r
Terminating == \E a \in Apps : app[a].term

\* The task items inside n that stand in a queue; start tasks stand alone.
Pending(op, n) == \E k \in 1..Len(jobs[ThrOf[n]]) : jobs[ThrOf[n]][k] = <<op, n>>

\* A worker works on the socket r, or is going to.
Busy(r) == \E n \in Nodes : /\ Owner[n] = r
                            /\ \/ Pending("start", n) \/ Pending("work", n)
                               \/ n \in running[ThrOf[n]]

\* fsock_thread_schedule_task; on a destroyed thread it is an error.
Push(t, task) == jobs' = [jobs EXCEPT ![t] = Append(@, task)]

-----------------------------------------------------------------------------
(* The arrays.                                                             *)

Content(x) == IF x[1] = "socks" THEN socks
              ELSE IF x[1] = "conns" THEN conns[x[2]] ELSE binds[x[2]]

Messy(x) == arr[x].shape = "messy"

\* fsock_parr_insert fills the first cleared slot, if there is one, and counts
\* last up all the same, past a slot nobody wrote.
Grown(u) == [last |-> u.last + 1, shape |-> IF u.shape = "tidy" THEN "tidy" ELSE "messy"]

\* fsock_parr_clear: an array that is found empty starts afresh.  Of more than
\* one block the topmost may be given back: at once when none of it is in use,
\* which leaves last at the capacity, or later, which leaves it beyond.  Then,
\* and behind a slot nobody wrote, an empty array may not be found empty.
Shrunk(u, empty) ==
    LET kept == IF u.last = Increment THEN "full" ELSE "holed"
    IN (IF empty THEN {Fresh} ELSE IF u.shape = "messy" THEN {} ELSE {[u EXCEPT !.shape = kept]})
       \cup (IF u.shape = "messy" \/ u.last > Increment THEN {[u EXCEPT !.shape = "messy"]} ELSE {})

\* A structure goes into the arrays of X.  The assertion of fsock_parr_insert
\* wants last below the capacity, which a messy array may have it at or beyond.
InsertInto(X) == arr' = [x \in Arrays |-> IF x \in X THEN Grown(arr[x]) ELSE arr[x]]

InsertFails(X) ==
    {e \in BOOLEAN : /\ e => \E x \in X : arr[x].shape \in {"full", "messy"}
                     /\ ~e => \A x \in X : arr[x].shape # "full"}

\* The structure n leaves every array it stands in.
Holding(n) == {x \in Arrays : n \in Content(x)}

ClearOf(n) ==
    \E u \in [Holding(n) -> UNION {Shrunk(arr[x], Content(x) = {n}) : x \in Holding(n)}] :
       /\ \A x \in Holding(n) : u[x] \in Shrunk(arr[x], Content(x) = {n})
       /\ arr' = [x \in Arrays |-> IF x \in Holding(n) THEN u[x] ELSE arr[x]]

\* The walk over an array that is messy after n has left may follow a slot that
\* holds no pointer.
WalkFails(n) == {FALSE} \cup {Messy(x)' : x \in Holding(n)}

-----------------------------------------------------------------------------
(* fsock_socket, and the calls that attach and use connections.            *)

\* fsock_global_init, once: g_initialized tells.
Started(t) == IF ginit THEN thread[t] ELSE "runs"
SocksArray == IF ginit THEN arr[Socks] ELSE Fresh

Socket(r) ==
    /\ ~wrong /\ node[r] = "none"
    /\ ginit' = TRUE
    /\ thread' = [t \in Threads |-> Started(t)]
    /\ socks' = socks \cup {r}
    /\ arr' = [arr EXCEPT ![Socks] = Grown(SocksArray)]
    /\ wrong' \in IF ginit THEN InsertFails({Socks}) ELSE {FALSE}
    /\ node' = [node EXCEPT ![r] = "live"]
    /\ disturbed' = (disturbed \/ Terminating)
    /\ UNCHANGED <<conns, binds, fd, watch, jobs, running, app>>

\* The kernel hands out the lowest free descriptor.
Opens(n) ==
    \E f \in 1..NFds : /\ \A m \in Nodes : fd[m] # f
                       /\ \A g \in 1..(f - 1) : \E m \in Nodes : fd[m] = g
                       /\ fd' = [fd EXCEPT ![n] = f]

\* The array of its root that a bind or a connection stands in.
Home(n) == <<IF n \in Binds THEN "binds" ELSE "conns", Owner[n]>>

\* fsock_bind or fsock_connect on an open socket: open, insert, schedule.
Attach(n) ==
    /\ ~wrong /\ n \in Binds \cup Outs /\ node[n] = "none" /\ Owner[n] \in socks
    /\ Opens(n)
    /\ node' = [node EXCEPT ![n] = "live"]
    /\ binds' = IF n \in Binds THEN [binds EXCEPT ![Owner[n]] = @ \cup {n}] ELSE binds
    /\ conns' = IF n \in Outs THEN [conns EXCEPT ![Owner[n]] = @ \cup {n}] ELSE conns
    /\ InsertInto({Home(n)})
    /\ Push(ThrOf[n], <<"start", n>>)
    /\ \E e \in InsertFails({Home(n)}) : wrong' = (e \/ thread[ThrOf[n]] = "none")
    /\ UNCHANGED <<ginit, socks, watch, running, thread, app, disturbed>>

\* fsock_send and fsock_get_event schedule the connection's own task items.
Use(n) ==
    /\ ~wrong /\ n \in Ins \cup Outs /\ node[n] = "live" /\ Owner[n] \in socks
    /\ thread[ThrOf[n]] = "runs" /\ ~Pending("work", n)
    /\ Push(ThrOf[n], <<"work", n>>)
    /\ UNCHANGED <<ginit, socks, node, conns, binds, arr, fd, watch, running, thread, app,
                   wrong, disturbed>>

-----------------------------------------------------------------------------
(* The workers.                                                            *)

\* A loop that had watched this descriptor for another structure looks into
\* both when it starts the new watcher.
Reused(t, f) == \E m \in Nodes : <<f, m>> \in watch[t] /\ node[m] = "freed"

\* One task.  It reads the structure it is about, live or not.
RunTask(t) ==
    /\ ~wrong /\ thread[t] = "runs" /\ running[t] = {} /\ jobs[t] # << >>
    /\ LET task == Head(jobs[t])
       IN IF task = <<"stop">>
          THEN /\ thread' = [thread EXCEPT ![t] = "ended"]
               /\ jobs' = [jobs EXCEPT ![t] = << >>]
               /\ UNCHANGED <<watch, wrong, disturbed>>
          ELSE LET n == task[2]
                   starts == task[1] = "start"
               IN /\ jobs' = [jobs EXCEPT ![t] = Tail(@)]
                  /\ watch' = IF starts /\ node[n] = "live"
                              THEN [watch EXCEPT ![t] = @ \cup {<<fd[n], n>>}] ELSE watch
                  /\ wrong' = (node[n] = "freed" \/ (starts /\ Reused(t, fd[n])))
                  /\ disturbed' = (disturbed \/ Closing(Owner[n]) \/ node[n] = "freed"
                                   \/ (starts /\ Reused(t, fd[n])))
                  /\ UNCHANGED thread
    /\ UNCHANGED <<ginit, socks, node, conns, binds, arr, fd, running, app>>

\* A descriptor is ready: the handler of the structure that watches it begins.
HandlerBegin(t, n) ==
    /\ ~wrong /\ thread[t] = "runs" /\ running[t] = {}
    /\ node[n] = "live" /\ <<fd[n], n>> \in watch[t]
    /\ running' = [running EXCEPT ![t] = {n}]
    /\ disturbed' = (disturbed \/ Closing(Owner[n]))
    /\ UNCHANGED <<ginit, socks, node, conns, binds, arr, fd, watch, jobs, thread, app, wrong>>

\* The bind's array and the root's take an accepted connection.
InsertsBind(b, c) == [conns EXCEPT ![b] = @ \cup {c}, ![Owner[b]] = @ \cup {b}]   \* bnd for conn

Inserted(b, c) == [conns EXCEPT ![b] = @ \cup {c}, ![Owner[b]] = @ \cup {c}]

\* The handler ends; a bind's has accepted a connection or not.
HandlerEnd(t) ==
    /\ ~wrong
    /\ \E n \in running[t] :
          /\ \/ UNCHANGED <<node, conns, arr, fd, jobs>> /\ wrong' = (node[n] = "freed")
             \/ \E c \in Ins :
                   /\ BindOf[c] = n /\ node[n] = "live" /\ node[c] = "none"
                   /\ Opens(c)
                   /\ node' = [node EXCEPT ![c] = "live"]
                   /\ conns' = Inserted(n, c)
                   /\ InsertInto({<<"conns", n>>, Home(c)})
                   /\ Push(ThrOf[c], <<"start", c>>)
                   /\ \E e \in InsertFails({<<"conns", n>>, Home(c)}) :
                         wrong' = (e \/ thread[ThrOf[c]] = "none")
          /\ disturbed' = (disturbed \/ Closing(Owner[n]))
    /\ running' = [running EXCEPT ![t] = {}]
    /\ UNCHANGED <<ginit, socks, binds, watch, thread, app>>

-----------------------------------------------------------------------------
(* fsock_close.                                                            *)

\* Under the global lock: take the socket out, and see whether it was the last.
\* fsock_parr_size counts what is not empty below last, which is nothing
\* exactly when fsock_parr_clear has started the array afresh.
TermNever(u) == FALSE

LastSocket(u) == u.last = 0

CloseDecide(a, r) ==
    /\ ~wrong /\ app[a].pc = "idle" /\ r \in socks
    /\ socks' = socks \ {r}
    /\ ClearOf(r)
    /\ app' = [app EXCEPT ![a] = [pc |-> "free", s |-> r, k |-> 0,
                                  term |-> LastSocket(arr'[Socks])]]
    /\ UNCHANGED <<ginit, node, conns, binds, fd, watch, jobs, running, thread, wrong,
                   disturbed>>

\* What fsock_sock_term comes to next: the connections of a bind, the bind,
\* the connections left in the root, the root.
NextToFree(r) ==
    IF binds[r] # {}
    THEN UNION {IF conns[b] = {} THEN {b} ELSE conns[b] : b \in binds[r]}
    ELSE IF conns[r] # {} THEN conns[r] ELSE {r}

\* An incoming connection is taken out of the root's array as well.
KeptInRoot(n) == [m \in Roots \cup Binds |-> IF m \in Binds THEN conns[m] \ {n} ELSE conns[m]]

TakenOut(n) == [m \in Roots \cup Binds |-> conns[m] \ {n}]

\* fsock_parr_term of the arrays of n itself: nothing but empty below last.
NotEmptied(n) == \E x \in Arrays : x[1] # "socks" /\ x[2] = n /\ arr[x].last # 0

\* One structure: its descriptor is closed, its own tasks must be in no queue
\* and its arrays empty, its memory is freed and it leaves its owner's arrays.
\* Nothing stops its watchers.
FreeNode(a) ==
    LET r == app[a].s
    IN /\ ~wrong /\ app[a].pc = "free"
       /\ \E n \in NextToFree(r) :
             /\ ClearOf(n)
             /\ \E e \in WalkFails(n) :
                   wrong' = \/ e \/ node[n] = "freed" \/ Pending("work", n)
                            \/ NotEmptied(n) \/ n \in running[ThrOf[n]]
             /\ node' = [node EXCEPT ![n] = "freed"]
             /\ fd' = [fd EXCEPT ![n] = 0]
             /\ conns' = TakenOut(n)
             /\ binds' = [binds EXCEPT ![r] = @ \ {n}]
             /\ app' = IF n # r THEN app
                       ELSE IF app[a].term /\ ginit
                       THEN [app EXCEPT ![a].s = NoRoot, ![a].pc = "join"]
                       ELSE [app EXCEPT ![a] = NoCall]
       /\ disturbed' = (disturbed \/ Busy(r))
       /\ UNCHANGED <<ginit, socks, watch, jobs, running, thread>>

NoStop(t) == UNCHANGED jobs                             \* the join without its task

PushStop(t) == Push(t, <<"stop">>)

\* fsock_global_term: worker by worker, the stop is scheduled, of which a
\* thread takes only one in its life...
JoinPush(a) ==
    /\ ~wrong /\ app[a].pc = "join" /\ app[a].k < NThreads
    /\ wrong' = \/ thread[app[a].k] # "runs"
                \/ \E b \in Apps : app[b].pc = "wait" /\ app[b].k = app[a].k
    /\ PushStop(app[a].k)
    /\ app' = [app EXCEPT ![a].pc = "wait"]
    /\ UNCHANGED <<ginit, socks, node, conns, binds, arr, fd, watch, running, thread, disturbed>>

\* ... and when the thread has ended its loop and its queue are destroyed.
JoinWait(a) ==
    /\ ~wrong /\ app[a].pc = "wait" /\ thread[app[a].k] = "ended"
    /\ thread' = [thread EXCEPT ![app[a].k] = "none"]
    /\ watch' = [watch EXCEPT ![app[a].k] = {}]
    /\ jobs' = [jobs EXCEPT ![app[a].k] = << >>]
    /\ app' = [app EXCEPT ![a].pc = "join", ![a].k = @ + 1]
    /\ UNCHANGED <<ginit, socks, node, conns, binds, arr, fd, running, wrong, disturbed>>

\* The array of sockets must be empty by now.
GlobalEnd(a) ==
    /\ ~wrong /\ app[a].pc = "join" /\ app[a].k = NThreads
    /\ wrong' = (arr[Socks].last # 0)
    /\ ginit' = FALSE
    /\ app' = [app EXCEPT ![a] = NoCall]
    /\ UNCHANGED <<socks, node, conns, binds, arr, fd, watch, jobs, running, thread, disturbed>>

CloseStep(a) == FreeNode(a) \/ JoinPush(a) \/ JoinWait(a) \/ GlobalEnd(a)

LifeNext == \/ \E r \in Roots : Socket(r) \/ \E a \in Apps : CloseDecide(a, r)
            \/ \E n \in Nodes : Attach(n) \/ Use(n)
            \/ \E t \in Threads : RunTask(t) \/ HandlerEnd(t) \/ \E n \in Nodes : HandlerBegin(t, n)
            \/ \E a \in Apps : CloseStep(a)

\* A call goes on, a handler ends, and a loop comes to its tasks.
LifeSpec == /\ LifeInit /\ [][LifeNext]_lifeVars
            /\ \A a \in Apps : WF_lifeVars(CloseStep(a))
            /\ \A t \in Threads : SF_lifeVars(RunTask(t)) /\ WF_lifeVars(HandlerEnd(t))

-----------------------------------------------------------------------------
(***************************************************************************)
(* Properties.                                                             *)
(***************************************************************************)

\* fsock_close neither fails an assertion nor uses freed memory, whatever was
\* attached and whoever closes what at the same time, as long as the workers
\* have nothing to do for the socket meanwhile, no loop meets a descriptor it
\* still watches for a freed structure, nobody opens a socket while the workers
\* are stopped, and no array has had a cleared slot filled again or a block
\* given back.  The code enforces none of the four.
QuietCloseSafe == wrong => disturbed \/ \E x \in Arrays : Messy(x)

\* A root is freed after everything under it, with every descriptor closed.
NothingLeft ==
    \A n \in Nodes : /\ node[Owner[n]] = "freed" => node[n] # "live"
                     /\ fd[n] # 0 => node[n] = "live"

\* The workers run while there are sockets: none is missing for an open socket,
\* also after the process has been through a close of everything, and none is
\* left waiting for work after the last close, unless the array of the sockets
\* is then messy and the last close does not find it empty.
WorkersMatch ==
    ~disturbed /\ ~Terminating =>
       /\ socks # {} => ginit
       /\ ginit /\ socks = {} => Messy(Socks)
       /\ \A t \in Threads : /\ thread[t] = IF ginit THEN "runs" ELSE "none"
                             /\ ~ginit => watch[t] = {} /\ jobs[t] = << >>

\* A close leaves neither memory nor descriptors behind, one that nothing
\* disturbs no threads either, and it never takes more than it should.
CloseLeavesNothing == NothingLeft /\ WorkersMatch

\* fsock_close returns: it waits for a worker at a time, and each comes to its
\* stop behind the tasks it still has.
CloseReturns == \A a \in Apps : app[a].pc # "idle" ~> (app[a].pc = "idle" \/ wrong)
=============================================================================
