------------------------------ MODULE MCParts ------------------------------
(***************************************************************************)
(* The parts that stand by themselves: a behaviour is one of the queue, of *)
(* the pointer array, of the event descriptor, of the older worker or of a *)
(* benchmark program, and the other parts stay in an initial state.        *)
(*                                                                         *)
(* Queue: three items over three queues, so that the item looked for can   *)
(* stand at the head, in the middle or at the tail of the walked queue, in *)
(* another queue, or nowhere.  Array: increment 3 instead of 10, so five   *)
(* elements need a second block, which can have a hole behind its last     *)
(* element.  Event descriptor: blocks of 2 signals instead of 16, up to    *)
(* two of them and one more.                                               *)
(***************************************************************************)
EXTENDS FsockQueue, Parr, Efd, Worker, Bench, TLC

CONSTANTS i1, i2, i3, jobs, batch, events,      \* queue
          e1, e2, e3, e4, e5, junk,             \* array
          s1, s2,                               \* event descriptor
          c1, c2, w1, w2,                       \* worker
          p1, p2                                \* benchmark

VARIABLE part               \* the part that runs

MCItems       == {i1, i2, i3}
MCQueues      == {jobs, batch, events}
FiveElements  == {e1, e2, e3, e4, e5}
AnyMemory     == {EMPTY, NULLPTR, junk}         \* what unwritten memory looks like
TwoSignallers == {s1, s2}
TwoCallers    == {c1, c2}
TwoTasks      == {w1, w2}
TwoClients    == {p1, p2}

allVars == <<vars, parrVars, efdVars, workerVars, benchVars, part>>

PartsInit ==
    /\ part \in {"queue", "parr", "efd", "worker", "bench"}
    /\ Init /\ ParrInit /\ EfdInit /\ WorkerInit /\ BenchInit
    /\ part # "efd" => kind = "eventfd" /\ rfd
    /\ part # "bench" => prog = "lat"

PartsNext ==
    /\ \/ part = "queue" /\ Next /\ UNCHANGED <<parrVars, efdVars, workerVars, benchVars>>
       \/ part = "parr" /\ ParrNext /\ UNCHANGED <<vars, efdVars, workerVars, benchVars>>
       \/ part = "efd" /\ EfdNext /\ UNCHANGED <<vars, parrVars, workerVars, benchVars>>
       \/ part = "worker" /\ WorkerNext /\ UNCHANGED <<vars, parrVars, efdVars, benchVars>>
       \/ part = "bench" /\ BenchNext /\ UNCHANGED <<vars, parrVars, efdVars, workerVars>>
    /\ UNCHANGED part

\* Only the benchmarks have something to do in their initial state.
PartsSpec == /\ PartsInit /\ [][PartsNext]_allVars
             /\ WF_vars(RemoveStep) /\ ParrFairness /\ WorkerFairness
             /\ part = "bench" => BenchFairness

-----------------------------------------------------------------------------
(***************************************************************************)
(* Properties.                                                             *)
(***************************************************************************)

\* The types of the array, the event descriptor, the worker and the programs.
PartsTypeOK == ParrTypeOK /\ EfdTypeOK /\ WorkerTypeOK /\ BenchTypeOK

\* The assertions of the pointer array hold and its walk is complete while the
\* array is tidy.
TidySound == SizeExactIfTidy /\ WalkLeavesNone

\* The calls with a loop or a join in them return: fsock_queue_remove, the
\* walk and the shrinking of an array, fsock_worker_term; and an undisturbed
\* benchmark comes to its end.
CallsReturn == /\ RemoveReturns /\ LoopsEnd /\ TermReturns
               /\ part = "bench" => BenchFinishes
=============================================================================
