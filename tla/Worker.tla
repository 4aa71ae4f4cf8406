------------------------------- MODULE Worker -------------------------------
(***************************************************************************)
(* The older worker of utils/worker.c: a thread with its own event loop, a *)
(* queue of tasks under worker->sync and an ev_async that wakes the loop.  *)
(* Unlike fsock_thread_schedule_task, fsock_worker_schedule_task sends the *)
(* async after it has let go of the lock.                                  *)
(*                                                                         *)
(* The routine and the async callback are the user's; they do what thread.c*)
(* does: run the loop, take all tasks at once, run them up to the stop.    *)
(***************************************************************************)
EXTENDS QueueOps

CONSTANTS Callers,          \* threads that schedule tasks
          WTasks,           \* their tasks
          StopItem          \* &worker->stop

ASSUME WorkerAssumption == StopItem \notin WTasks

VARIABLES wtasks,           \* worker->tasks
          wbatch,           \* the tasks the callback has taken
          wasync,           \* worker->async is pending
          wlife,            \* the thread and its loop
          sending,          \* callers that pushed and have yet to send
          due,              \* history: scheduled before the stop, not erased
          ran               \* history: tasks run

workerVars == <<wtasks, wbatch, wasync, wlife, sending, due, ran>>

WorkerTypeOK ==
    /\ wtasks \in Seq(WTasks \cup {StopItem}) /\ wbatch \in Seq(WTasks \cup {StopItem})
    /\ wasync \in BOOLEAN
    /\ wlife \in {"none", "failed", "running", "stopping", "ended", "destroyed"}
    /\ sending \subseteq Callers /\ due \subseteq WTasks /\ ran \subseteq WTasks

WorkerInit ==
    /\ wtasks = << >> /\ wbatch = << >> /\ wasync = FALSE
    /\ wlife = "none" /\ sending = {} /\ due = {} /\ ran = {}

\* fsock_queue_item_isinqueue
Queued(i) == i \in Elems(wtasks) \cup Elems(wbatch)

-----------------------------------------------------------------------------
\* fsock_worker_init: no loop, or no thread, leaves nothing behind.
Create ==
    /\ wlife = "none"
    /\ wlife' \in {"running", "failed"}
    /\ UNCHANGED <<wtasks, wbatch, wasync, sending, due, ran>>

\* fsock_worker_schedule_task up to the unlock.  Each task is scheduled once at
\* a time: the assertion of fsock_queue_push is the caller's obligation.
SchedulePush(c, i) ==
    /\ wlife \in {"running", "stopping"} /\ c \notin sending
    /\ ~Queued(i) /\ i \notin ran
    /\ wtasks' = Append(wtasks, i)
    /\ sending' = sending \cup {c}
    /\ due' = IF wlife = "running" THEN due \cup {i} ELSE due
    /\ UNCHANGED <<wbatch, wasync, wlife, ran>>

\* The send outside the lock; on a loop that is gone by then it writes freed
\* memory.
NeverSends == FALSE

SendsAsync == TRUE

ScheduleSend(c) ==
    /\ c \in sending
    /\ sending' = sending \ {c}
    /\ wasync' \in IF wlife = "destroyed" THEN BOOLEAN ELSE {wasync \/ SendsAsync}
    /\ UNCHANGED <<wtasks, wbatch, wlife, due, ran>>

\* fsock_worker_erase_task: a task in the callback's batch is not found.
EraseTask(i) ==
    /\ Queued(i) /\ wlife # "destroyed"
    /\ wtasks' = Without(wtasks, i)
    /\ due' = IF i \in Elems(wtasks) THEN due \ {i} ELSE due
    /\ UNCHANGED <<wbatch, wasync, wlife, sending, ran>>

\* fsock_worker_term: the stop is pushed and sent under the lock...
StopBehind == Append(wtasks, StopItem)

TermPush ==
    /\ wlife = "running"
    /\ wtasks' = StopBehind
    /\ wasync' = TRUE
    /\ wlife' = "stopping"
    /\ UNCHANGED <<wbatch, sending, due, ran>>

\* ... then the thread is joined and the loop destroyed.
TermJoin ==
    /\ wlife = "ended"
    /\ wlife' = "destroyed"
    /\ wasync' = FALSE
    /\ UNCHANGED <<wtasks, wbatch, sending, due, ran>>

\* The async callback takes the tasks under the lock.
Callback ==
    /\ wlife \in {"running", "stopping"} /\ wasync /\ wbatch = << >>
    /\ wasync' = FALSE
    /\ wbatch' = wtasks /\ wtasks' = << >>
    /\ UNCHANGED <<wlife, sending, due, ran>>

\* One turn of its loop; the stop throws the rest away and ends the loop.
WorkerRun ==
    /\ wlife \in {"running", "stopping"} /\ wbatch # << >>
    /\ IF Head(wbatch) = StopItem
       THEN wbatch' = << >> /\ wlife' = "ended" /\ UNCHANGED ran
       ELSE wbatch' = Tail(wbatch) /\ ran' = ran \cup {Head(wbatch)} /\ UNCHANGED wlife
    /\ UNCHANGED <<wtasks, wasync, sending, due>>

WorkerStep == Callback \/ WorkerRun \/ TermJoin

WorkerNext == \/ Create \/ TermPush \/ WorkerStep
              \/ \E c \in Callers : ScheduleSend(c) \/ \E i \in WTasks : SchedulePush(c, i)
              \/ \E i \in WTasks : EraseTask(i)

\* The loop serves a pending async, the callback and the calls go on.
WorkerFairness == /\ WF_workerVars(WorkerStep)
                  /\ \A c \in Callers : WF_workerVars(ScheduleSend(c))

WorkerSpec == WorkerInit /\ [][WorkerNext]_workerVars /\ WorkerFairness

-----------------------------------------------------------------------------
(***************************************************************************)
(* Properties.                                                             *)
(***************************************************************************)

\* Although the send comes after the unlock, tasks never wait in the queue of
\* a sleeping loop: the async is pending or a caller is on its way to send it;
\* and what was scheduled before fsock_worker_term runs before the loop ends.
NoTaskForgotten ==
    /\ wtasks # << >> /\ wlife \in {"running", "stopping"} => wasync \/ sending # {}
    /\ wlife \in {"ended", "destroyed"} => due \subseteq ran

\* fsock_worker_term returns: its stop reaches the loop whatever is erased or
\* scheduled at the same time.
TermReturns == wlife = "stopping" ~> wlife = "destroyed"
=============================================================================
