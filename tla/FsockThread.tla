----------------------------- MODULE FsockThread -----------------------------
(***************************************************************************)
(* The worker threads of utils/thread.c: a mutex-protected job queue, an   *)
(* async watcher that wakes the event loop, and the routine that takes the *)
(* whole queue into a private batch and runs it task by task.  The tasks   *)
(* of a connection switch its read and write watchers, which only its own  *)
(* thread may touch; the high water marks switch the read watchers of all  *)
(* connections at once with fsock_sock_bulk_schedule_unsafe, holding every *)
(* thread's mutex.                                                         *)
(*                                                                         *)
(* A queue item is in jobs or in batch, and item->next cannot tell which.  *)
(* The bulk loop reads it while a worker pops its batch without a lock, so *)
(* the loop takes one step per connection and interleaves with RunTask.    *)
(* Running the task right after the pop is one step: it touches only the   *)
(* watchers of its own thread.                                             *)
(***************************************************************************)
EXTENDS QueueOps

CONSTANTS NConns,           \* connections, numbered as in sock->conns
          Threads,          \* the worker threads
          ThrOf             \* conn->thr

Conns == 1..NConns

ASSUME ThreadAssumption ==
    /\ NConns \in Nat
    /\ ThrOf \in [Conns -> Threads]

ReadOps == {"START_READ", "STOP_READ"}
Tasks   == {<<c, op>> : c \in Conns, op \in ReadOps \cup {"START_WRITE"}}
Stop    == <<0, "STOP">>    \* the stop item of the thread itself

VARIABLES jobs,             \* jobs[t]: thr->jobs, protected by thr->sync
          batch,            \* batch[t]: the local queue of async_routine
          async,            \* async[t]: the async watcher is pending
          rio, wio,         \* rio[c], wio[c]: the watcher is started
          bulk,             \* the running bulk loop: its op and next index
          request,          \* history: the last op asked of all connections
          life              \* life[t]: "runs", "joining" or "stopped"

threadVars == <<jobs, batch, async, rio, wio, bulk, request, life>>

NoBulk == [on |-> FALSE, op |-> "START_READ", i |-> 0]

ThreadTypeOK ==
    /\ jobs \in [Threads -> Seq(Tasks \cup {Stop})]
    /\ batch \in [Threads -> Seq(Tasks \cup {Stop})]
    /\ async \in [Threads -> BOOLEAN]
    /\ rio \in [Conns -> BOOLEAN] /\ wio \in [Conns -> BOOLEAN]
    /\ bulk \in [on : BOOLEAN, op : ReadOps, i : Nat]
    /\ request \in ReadOps
    /\ life \in [Threads -> {"runs", "joining", "stopped"}]

\* The FSOCK_THR_CONN tasks have run: watchers initialised, reading started.
ThreadInit ==
    /\ jobs = [t \in Threads |-> << >>]
    /\ batch = [t \in Threads |-> << >>]
    /\ async = [t \in Threads |-> FALSE]
    /\ rio = [c \in Conns |-> TRUE]
    /\ wio = [c \in Conns |-> FALSE]
    /\ bulk = NoBulk
    /\ request = "START_READ"
    /\ life = [t \in Threads |-> "runs"]

\* fsock_queue_item_isinqueue, as the bulk loop sees it.
JobsOnlyInQueue(c, op) == <<c, op>> \in Elems(jobs[ThrOf[c]])

IsInQueue(c, op) ==
    <<c, op>> \in Elems(jobs[ThrOf[c]]) \cup Elems(batch[ThrOf[c]])

-----------------------------------------------------------------------------
\* fsock_workers_lock is in force.  bulk.on lasts longer: whoever runs the bulk
\* loop holds sock->sync until the threads are signalled too.
WorkersLocked == bulk.on /\ bulk.i <= NConns + 1

(* fsock_thread_schedule_task: thr->sync is free, the item in no queue.    *)
SilentSchedule(t, task) ==                              \* no ev_async_send
    /\ ~WorkersLocked
    /\ jobs' = [jobs EXCEPT ![t] = Append(@, task)]
    /\ UNCHANGED async

ScheduleTask(t, task) ==
    /\ ~WorkersLocked
    /\ jobs' = [jobs EXCEPT ![t] = Append(@, task)]
    /\ async' = [async EXCEPT ![t] = TRUE]

\* fsock_workers_lock and the start of the loop.
WriteBulkBegin(op) ==                                   \* the wrong task field
    /\ bulk' = [on |-> TRUE, op |-> "STOP_WRITE", i |-> 1]
    /\ request' = op

BulkBegin(op) ==
    /\ bulk' = [on |-> TRUE, op |-> op, i |-> 1]
    /\ request' = op

\* One turn of the loop: schedule one task, cancel the opposite one.
Opposite(op) == IF op = "START_READ" THEN "STOP_READ" ELSE "START_READ"

KeepOppositeJobs(c, op) ==                              \* no fsock_queue_remove
    IF IsInQueue(c, op) THEN jobs[ThrOf[c]] ELSE Append(jobs[ThrOf[c]], <<c, op>>)

BulkJobs(c, op) ==
    LET pushed == IF IsInQueue(c, op) THEN jobs[ThrOf[c]]
                  ELSE Append(jobs[ThrOf[c]], <<c, op>>)
    IN IF IsInQueue(c, Opposite(op)) THEN Without(pushed, <<c, Opposite(op)>>)
       ELSE pushed

BulkStep ==
    /\ bulk.on /\ bulk.i \in Conns
    /\ jobs' = [jobs EXCEPT ![ThrOf[bulk.i]] = BulkJobs(bulk.i, bulk.op)]
    /\ bulk' = [bulk EXCEPT !.i = @ + 1]
    /\ UNCHANGED <<batch, async, rio, wio, request, life>>

\* fsock_workers_unlock: a thread may take its jobs before it is signalled.
BulkUnlock ==
    /\ bulk.on /\ bulk.i = NConns + 1
    /\ bulk' = [bulk EXCEPT !.i = @ + 1]
    /\ UNCHANGED <<jobs, batch, async, rio, wio, request, life>>

\* fsock_workers_signal.
BulkEnd ==
    /\ bulk.on /\ bulk.i = NConns + 2
    /\ bulk' = NoBulk
    /\ async' = [t \in Threads |-> TRUE]
    /\ UNCHANGED <<jobs, batch, rio, wio, request, life>>

\* async_routine up to the unlock.
AsyncRoutine(t) ==
    /\ life[t] # "stopped"
    /\ async[t] /\ batch[t] = << >> /\ ~WorkersLocked
    /\ async' = [async EXCEPT ![t] = FALSE]
    /\ batch' = [batch EXCEPT ![t] = jobs[t]]
    /\ jobs' = [jobs EXCEPT ![t] = << >>]
    /\ UNCHANGED <<rio, wio, bulk, request, life>>

\* Its loop: pop one item and run task_routine, or end the event loop.
IgnoreStopRun(t) ==                                     \* the stop item is a task
    /\ batch[t] # << >>
    /\ batch' = [batch EXCEPT ![t] = Tail(@)]
    /\ UNCHANGED <<jobs, async, rio, wio, bulk, request, life>>

RunTask(t) ==
    /\ batch[t] # << >>
    /\ LET c == Head(batch[t])[1]
           op == Head(batch[t])[2]
       IN /\ batch' = [batch EXCEPT ![t] = IF op = "STOP" THEN << >> ELSE Tail(@)]
          /\ rio' = IF op \in ReadOps THEN [rio EXCEPT ![c] = op = "START_READ"] ELSE rio
          /\ wio' = IF op = "START_WRITE" THEN [wio EXCEPT ![c] = TRUE] ELSE wio
          /\ life' = IF op = "STOP" THEN [life EXCEPT ![t] = "stopped"] ELSE life
    /\ UNCHANGED <<jobs, async, bulk, request>>

\* fsock_thread_join: the caller then blocks in pthread_join.
Join(t) ==
    /\ life[t] = "runs"
    /\ ScheduleTask(t, Stop)
    /\ life' = [life EXCEPT ![t] = "joining"]
    /\ UNCHANGED <<batch, rio, wio, bulk, request>>

-----------------------------------------------------------------------------
(***************************************************************************)
(* The threads by themselves, under every pattern of requests: the high    *)
(* water marks may ask for a stop or a start at any time, fsock_send may   *)
(* start a write watcher whose task is not queued, and fsock_global_term   *)
(* joins.                                                                  *)
(***************************************************************************)

\* Owner and consumer serialise their bulk requests with sock->sync.
Request(op) ==
    /\ ~bulk.on /\ \A t \in Threads : life[t] = "runs"
    /\ BulkBegin(op)
    /\ UNCHANGED <<jobs, batch, async, rio, wio, life>>

StartWrite(c) ==
    /\ ~IsInQueue(c, "START_WRITE") /\ ~wio[c] /\ life[ThrOf[c]] = "runs"
    /\ ScheduleTask(ThrOf[c], <<c, "START_WRITE">>)
    /\ UNCHANGED <<batch, rio, wio, bulk, request, life>>

\* The write handler stops its own watcher.
StopWrite(c) ==
    /\ wio[c] /\ batch[ThrOf[c]] = << >> /\ life[ThrOf[c]] # "stopped"
    /\ wio' = [wio EXCEPT ![c] = FALSE]
    /\ UNCHANGED <<jobs, batch, async, rio, bulk, request, life>>

ThreadNext == \/ \E op \in ReadOps : Request(op)
              \/ BulkStep \/ BulkUnlock \/ BulkEnd
              \/ \E c \in Conns : StartWrite(c) \/ StopWrite(c)
              \/ \E t \in Threads : AsyncRoutine(t) \/ RunTask(t) \/ Join(t)

\* The event loop keeps serving its async watcher and its batch; a loop
\* under the mutexes ends.
ThreadFairness ==
    /\ WF_threadVars(BulkStep) /\ WF_threadVars(BulkUnlock) /\ WF_threadVars(BulkEnd)
    /\ \A t \in Threads : SF_threadVars(AsyncRoutine(t)) /\ WF_threadVars(RunTask(t))

ThreadSpec == ThreadInit /\ [][ThreadNext]_threadVars /\ ThreadFairness

-----------------------------------------------------------------------------
(***************************************************************************)
(* Properties of the threads, whoever schedules the tasks.                 *)
(***************************************************************************)

\* What a read watcher of c that is r now will be once the items todo have run.
Outcome(todo, r, c) ==
    LET ops == {k \in 1..Len(todo) : todo[k][1] = c /\ todo[k][2] \in ReadOps}
    IN IF ops = {} THEN r
       ELSE \E k \in ops : (\A m \in ops : m <= k) /\ todo[k][2] = "START_READ"

\* What rio[c] will be once everything already queued has run.
Eventually(c) == Outcome(batch[ThrOf[c]] \o jobs[ThrOf[c]], rio[c], c)

\* An item is queued at most once, and jobs never holds both read tasks of a
\* connection once the bulk loop has passed it.
QueuedOnce ==
    /\ \A t \in Threads :
          LET todo == batch[t] \o jobs[t]
          IN \A j, k \in 1..Len(todo) : todo[j] = todo[k] => j = k
    /\ \A c \in Conns :
          ~(JobsOnlyInQueue(c, "START_READ") /\ JobsOnlyInQueue(c, "STOP_READ"))

\* However requests, batches and cancellations interleave, the last request
\* wins on every connection the loop has reached: no connection is left
\* reading after a stop or silent after a start.  The connections in closed are
\* left out: the read handler's stop path switches their watchers too.
LastRequestWins(closed) ==
    \A c \in Conns \ closed :
       (~bulk.on \/ c < bulk.i) => (Eventually(c) <=> request = "START_READ")

\* A job never waits without a wake-up on its way.
NoLostWakeup == \A t \in Threads : jobs[t] # << >> => async[t] \/ bulk.on \/ life[t] = "stopped"

\* The last request wins on every connection while nothing closes one.
LastRequest == LastRequestWins({})

\* A scheduled task runs, unless the thread is joined meanwhile: the stop item
\* drops what was queued behind it.
TaskRuns == \A c \in Conns :
    IsInQueue(c, "START_WRITE") ~> wio[c] \/ life[ThrOf[c]] # "runs"

\* fsock_thread_join returns.
JoinReturns == \A t \in Threads : life[t] = "joining" ~> life[t] = "stopped"

\* Nobody waits for ever for a worker: scheduled tasks run and joins return,
\* whatever is queued, cancelled and batched meanwhile.
WorkersServe == TaskRuns /\ JoinReturns
=============================================================================
