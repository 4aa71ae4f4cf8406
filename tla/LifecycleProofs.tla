-------------------------- MODULE LifecycleProofs --------------------------
(***************************************************************************)
(* fsock_close proved for any number of applications, sockets, binds,      *)
(* connections, workers and descriptors and any increment of the arrays:   *)
(* the types, the tree of sockets, binds and connections that a close      *)
(* takes down, what the arrays they stand in still know of it, and the     *)
(* handover of the workers to the one close that stops them.               *)
(***************************************************************************)
EXTENDS Lifecycle, SequenceTheorems, TLAPS

-----------------------------------------------------------------------------
(* Types, and who may be where.                                            *)

\* What the queue of worker t may hold: tasks of its own structures, stops.
TasksOf(t) == ({"start", "work"} \X {n \in Nodes \ Roots : ThrOf[n] = t}) \cup {<<"stop">>}

\* What each place of a running fsock_close says of the call.
CallOK(c) == /\ c.pc = "idle" => c = NoCall
             /\ c.pc = "free" => c.s \in Roots /\ c.k = 0
             /\ c.pc \in {"join", "wait"} => c.s = NoRoot /\ c.term
             /\ c.pc = "wait" => c.k < NThreads

\* The calls of LifeTypeOK.
CallType == [pc : {"idle", "free", "join", "wait"}, s : Roots \cup {NoRoot}, term : BOOLEAN,
             k : 0..NThreads]

\* A worker watches descriptors of its own structures.
Watched == \A t \in Threads : \A f, n : <<f, n>> \in watch[t] => n \in Nodes /\ ThrOf[n] = t

LifeShape ==
    /\ LifeTypeOK /\ Watched
    /\ \A t \in Threads : jobs[t] \in Seq(TasksOf(t))
    /\ \A t \in Threads : \A n \in running[t] : ThrOf[n] = t
    /\ \A n \in Nodes \ Roots : node[n] = "live" => fd[n] # 0
    /\ \A a \in Apps : CallOK(app[a])

\* A task of a worker's queue is the stop or one of a structure of the worker.
LEMMA TaskIs ==
    ASSUME NEW t \in Threads, NEW task \in TasksOf(t), task # <<"stop">>
    PROVE  /\ task[1] \in {"start", "work"} /\ task[2] \in Nodes \ Roots /\ ThrOf[task[2]] = t
           /\ task = <<task[1], task[2]>>
  BY DEF TasksOf

\* TasksOf is typed.
LEMMA TasksTyped ==
    ASSUME NEW t \in Threads
    PROVE  TasksOf(t) \subseteq Tasks
  BY DEF TasksOf, Tasks

\* Pushing a task keeps the queues typed.
LEMMA PushTyped ==
    ASSUME jobs \in [Threads -> Seq(Tasks)], \A t \in Threads : jobs[t] \in Seq(TasksOf(t)),
           NEW u \in Threads, NEW task \in TasksOf(u), Push(u, task)
    PROVE  jobs' \in [Threads -> Seq(Tasks)] /\ \A t \in Threads : jobs'[t] \in Seq(TasksOf(t))
<1>1. jobs' = [jobs EXCEPT ![u] = Append(jobs[u], task)]
  BY DEF Push
<1>2. task \in Tasks
  BY TasksTyped
<1>3. Append(jobs[u], task) \in Seq(TasksOf(u)) /\ Append(jobs[u], task) \in Seq(Tasks)
  BY <1>2, AppendProperties
<1> QED
  BY <1>1, <1>3

\* Opening gives n a descriptor.
LEMMA OpensTyped ==
    ASSUME fd \in [Nodes -> 0..NFds], NEW n \in Nodes, Opens(n)
    PROVE  \E f \in 1..NFds : fd' = [fd EXCEPT ![n] = f] /\ fd' \in [Nodes -> 0..NFds]
<1>1. NFds \in Nat
  BY LifeAssumption
<1>2. PICK f \in 1..NFds : fd' = [fd EXCEPT ![n] = f]
  BY DEF Opens
<1>3. f \in 0..NFds
  BY <1>1
<1> QED
  BY <1>2, <1>3

\* What fsock_sock_term comes to is a structure; the root only when its arrays
\* are empty, a bind only when its array is.
LEMMA NextToFreeIs ==
    ASSUME LifeTypeOK, NEW r \in Roots, NEW n \in NextToFree(r)
    PROVE  /\ n \in Nodes
           /\ \/ n = r /\ binds[r] = {} /\ conns[r] = {}
              \/ n \in conns[r] /\ n \in Ins \cup Outs
              \/ n \in binds[r] /\ n \in Binds /\ conns[n] = {}
              \/ \E b \in binds[r] : b \in Binds /\ n \in conns[b] /\ n \in Ins \cup Outs
<1>1. binds[r] \subseteq Binds /\ conns[r] \subseteq Ins \cup Outs
  BY DEF LifeTypeOK
<1>2. CASE binds[r] # {}
  <2>1. NextToFree(r) = UNION {IF conns[b] = {} THEN {b} ELSE conns[b] : b \in binds[r]}
    BY <1>2 DEF NextToFree
  <2>2. PICK b \in binds[r] : n \in IF conns[b] = {} THEN {b} ELSE conns[b]
    BY <2>1
  <2>3. b \in Binds /\ conns[b] \subseteq Ins \cup Outs
    BY <1>1, <2>2 DEF LifeTypeOK
  <2> QED
    BY <2>2, <2>3 DEF Nodes
<1>3. CASE binds[r] = {}
  BY <1>1, <1>3 DEF NextToFree, Nodes
<1> QED
  BY <1>2, <1>3

\* What the arrays know of themselves.
ArrType == [last : Nat, shape : Shapes]

\* fsock_parr_insert counts last up and keeps only a tidy array tidy.
LEMMA GrownTyped ==
    ASSUME NEW u \in ArrType
    PROVE  Grown(u) \in ArrType /\ Grown(u).last # 0 /\ (Grown(u).shape = "messy" <=> u.shape # "tidy")
  BY DEF ArrType, Grown, Shapes

\* fsock_parr_clear starts an empty array afresh or keeps last.
LEMMA ShrunkTyped ==
    ASSUME NEW u \in ArrType, NEW e, NEW v \in Shrunk(u, e)
    PROVE  /\ v \in ArrType
           /\ \/ v = Fresh /\ e
              \/ ~e /\ v.last = u.last
              \/ v.shape = "messy" /\ v.last = u.last
  BY DEF ArrType, Shrunk, Fresh, Shapes

\* An insert keeps the arrays typed and changes only those it is about.
LEMMA InsertTyped ==
    ASSUME LifeTypeOK, NEW X, InsertInto(X)
    PROVE  /\ arr' \in [Arrays -> ArrType]
           /\ \A x \in Arrays : arr'[x] = IF x \in X THEN Grown(arr[x]) ELSE arr[x]
<1>1. \A x \in Arrays : arr[x] \in ArrType /\ Grown(arr[x]) \in ArrType
  BY GrownTyped DEF LifeTypeOK, ArrType
<1> QED
  BY <1>1 DEF InsertInto

\* A clear keeps the arrays typed and changes only those the structure is in.
LEMMA ClearTyped ==
    ASSUME LifeTypeOK, NEW n, ClearOf(n)
    PROVE  /\ arr' \in [Arrays -> ArrType]
           /\ \A x \in Arrays : IF n \in Content(x) THEN arr'[x] \in Shrunk(arr[x], Content(x) = {n})
                               ELSE arr'[x] = arr[x]
<1>1. PICK u : /\ \A x \in Holding(n) : u[x] \in Shrunk(arr[x], Content(x) = {n})
               /\ arr' = [x \in Arrays |-> IF x \in Holding(n) THEN u[x] ELSE arr[x]]
  BY DEF ClearOf
<1>2. \A x \in Arrays : x \in Holding(n) <=> n \in Content(x)
  BY DEF Holding
<1>3. \A x \in Arrays : arr[x] \in ArrType
  BY DEF LifeTypeOK, ArrType
<1>4. ASSUME NEW x \in Arrays
      PROVE  /\ (IF x \in Holding(n) THEN u[x] ELSE arr[x]) \in ArrType
             /\ IF n \in Content(x) THEN arr'[x] \in Shrunk(arr[x], Content(x) = {n})
                ELSE arr'[x] = arr[x]
  <2>1. arr'[x] = IF x \in Holding(n) THEN u[x] ELSE arr[x]
    BY <1>1
  <2>2. CASE x \in Holding(n)
    <3>1. u[x] \in Shrunk(arr[x], Content(x) = {n})
      BY <1>1, <2>2
    <3>2. u[x] \in ArrType
      BY <1>3, <3>1, ShrunkTyped
    <3> QED
      BY <1>2, <2>1, <2>2, <3>1, <3>2
  <2>3. CASE x \notin Holding(n)
    BY <1>2, <1>3, <2>1, <2>3
  <2> QED
    BY <2>2, <2>3
<1>5. arr' \in [Arrays -> ArrType]
  BY <1>1, <1>4
<1> QED
  BY <1>4, <1>5

\* Each action keeps the types and what the program counters say of the locals.
LEMMA LifeShapeStep ==
    ASSUME LifeShape, [LifeNext]_lifeVars
    PROVE  LifeShape'
<1>1. /\ LifeTypeOK /\ Watched
      /\ \A t \in Threads : jobs[t] \in Seq(TasksOf(t))
      /\ \A t \in Threads : \A n \in running[t] : ThrOf[n] = t
      /\ \A n \in Nodes \ Roots : node[n] = "live" => fd[n] # 0
      /\ \A a \in Apps : CallOK(app[a])
  BY DEF LifeShape
<1>2. /\ Owner \in [Nodes -> Roots] /\ BindOf \in [Ins -> Binds]
      /\ NThreads \in Nat /\ ThrOf \in [Nodes -> Threads] /\ NFds \in Nat
      /\ Roots \cap (Binds \cup Ins \cup Outs) = {} /\ Binds \cap (Ins \cup Outs) = {}
      /\ NoRoot \notin Roots
  BY LifeAssumption
<1>3. CASE UNCHANGED lifeVars
  BY <1>1, <1>3 DEF lifeVars, LifeShape, LifeTypeOK, Watched
<1>4. ASSUME NEW r \in Roots, Socket(r) PROVE LifeShape'
  <2>1. /\ ginit' = TRUE /\ thread' = [t \in Threads |-> Started(t)] /\ socks' = socks \cup {r}
        /\ node' = [node EXCEPT ![r] = "live"] /\ arr' = [arr EXCEPT ![Socks] = Grown(SocksArray)]
        /\ UNCHANGED <<conns, binds, fd, watch, jobs, running, app>>
    BY <1>4 DEF Socket
  <2>2. disturbed' \in BOOLEAN /\ ginit' \in BOOLEAN
    BY <1>4, Zenon DEF Socket
  <2>7. wrong' \in BOOLEAN
    BY <1>4 DEF Socket, InsertFails
  <2>8. arr' \in [Arrays -> [last : Nat, shape : Shapes]]
    <3>1. SocksArray \in ArrType
      BY <1>1 DEF SocksArray, LifeTypeOK, ArrType, Fresh, Shapes, Arrays
    <3>2. Grown(SocksArray) \in ArrType
      BY <3>1, GrownTyped
    <3> QED
      BY <1>1, <2>1, <3>2 DEF LifeTypeOK, ArrType
  <2>3. thread' \in [Threads -> {"none", "runs", "ended"}]
    BY <1>1, <2>1 DEF LifeTypeOK, Started
  <2>4. node' \in [Nodes -> {"none", "live", "freed"}] /\ socks' \subseteq Roots
    BY <1>1, <2>1 DEF LifeTypeOK
  <2>5. LifeTypeOK'
    BY <1>1, <2>1, <2>2, <2>3, <2>4, <2>7, <2>8 DEF LifeTypeOK
  <2>6. \A n \in Nodes \ Roots : node'[n] = "live" => fd'[n] # 0
    BY <1>1, <2>1 DEF LifeTypeOK
  <2> QED
    BY <1>1, <2>1, <2>5, <2>6 DEF LifeShape, Watched
<1>5. ASSUME NEW n \in Nodes, Attach(n) PROVE LifeShape'
  <2>1. /\ n \in Binds \cup Outs /\ Opens(n) /\ node' = [node EXCEPT ![n] = "live"]
        /\ binds' = IF n \in Binds THEN [binds EXCEPT ![Owner[n]] = @ \cup {n}] ELSE binds
        /\ conns' = IF n \in Outs THEN [conns EXCEPT ![Owner[n]] = @ \cup {n}] ELSE conns
        /\ InsertInto({Home(n)}) /\ Push(ThrOf[n], <<"start", n>>)
        /\ UNCHANGED <<ginit, socks, watch, running, thread, app, disturbed>>
    BY <1>5 DEF Attach
  <2>2. wrong' \in BOOLEAN /\ arr' \in [Arrays -> [last : Nat, shape : Shapes]]
    <3>1. wrong' \in BOOLEAN
      BY <1>5, Zenon DEF Attach
    <3> QED
      BY <1>1, <2>1, <3>1, InsertTyped DEF ArrType
  <2>3. PICK f \in 1..NFds : fd' = [fd EXCEPT ![n] = f] /\ fd' \in [Nodes -> 0..NFds]
    BY <1>1, <2>1, OpensTyped DEF LifeTypeOK
  <2>4. ThrOf[n] \in Threads /\ Owner[n] \in Roots /\ n \notin Roots
    BY <1>2, <2>1
  <2>5. <<"start", n>> \in TasksOf(ThrOf[n])
    BY <2>4 DEF TasksOf
  <2>6. jobs' \in [Threads -> Seq(Tasks)] /\ \A t \in Threads : jobs'[t] \in Seq(TasksOf(t))
    BY <1>1, <2>1, <2>4, <2>5, PushTyped DEF LifeTypeOK
  <2>7. /\ node' \in [Nodes -> {"none", "live", "freed"}]
        /\ conns' \in [Roots \cup Binds -> SUBSET (Ins \cup Outs)]
        /\ binds' \in [Roots -> SUBSET Binds]
    <3>1. node' \in [Nodes -> {"none", "live", "freed"}]
      BY <1>1, <2>1 DEF LifeTypeOK
    <3>2. conns' \in [Roots \cup Binds -> SUBSET (Ins \cup Outs)]
      BY <1>1, <2>1, <2>4 DEF LifeTypeOK
    <3>3. binds' \in [Roots -> SUBSET Binds]
      BY <1>1, <2>1, <2>4 DEF LifeTypeOK
    <3> QED
      BY <3>1, <3>2, <3>3
  <2>8. LifeTypeOK'
    BY <1>1, <2>1, <2>2, <2>3, <2>6, <2>7 DEF LifeTypeOK
  <2>9. \A x \in Nodes \ Roots : node'[x] = "live" => fd'[x] # 0
    BY <1>1, <1>2, <2>1, <2>3 DEF LifeTypeOK
  <2> QED
    BY <1>1, <2>1, <2>6, <2>8, <2>9 DEF LifeShape, Watched
<1>6. ASSUME NEW n \in Nodes, Use(n) PROVE LifeShape'
  <2>1. /\ n \in Ins \cup Outs /\ Push(ThrOf[n], <<"work", n>>)
        /\ UNCHANGED <<ginit, socks, node, conns, binds, arr, fd, watch, running, thread, app, wrong, disturbed>>
    BY <1>6 DEF Use
  <2>2. ThrOf[n] \in Threads /\ n \notin Roots
    BY <1>2, <2>1
  <2>3. <<"work", n>> \in TasksOf(ThrOf[n])
    BY <2>2 DEF TasksOf
  <2>4. jobs' \in [Threads -> Seq(Tasks)] /\ \A t \in Threads : jobs'[t] \in Seq(TasksOf(t))
    BY <1>1, <2>1, <2>2, <2>3, PushTyped DEF LifeTypeOK
  <2> QED
    BY <1>1, <2>1, <2>4 DEF LifeShape, LifeTypeOK, Watched
<1>7. ASSUME NEW t \in Threads, RunTask(t) PROVE LifeShape'
  <2>1. jobs[t] # << >> /\ UNCHANGED <<ginit, socks, node, conns, binds, arr, fd, running, app>>
    BY <1>7 DEF RunTask
  <2>2. PICK task \in TasksOf(t) : task = Head(jobs[t])
    BY <1>1, <2>1, HeadTailProperties
  <2>3. /\ jobs[t] \in Seq(Tasks) /\ Tail(jobs[t]) \in Seq(Tasks) /\ Tail(jobs[t]) \in Seq(TasksOf(t))
        /\ << >> \in Seq(Tasks) /\ << >> \in Seq(TasksOf(t))
    BY <1>1, <2>1, HeadTailProperties, EmptySeq DEF LifeTypeOK
  <2>4. CASE task = <<"stop">>
    <3>1. /\ thread' = [thread EXCEPT ![t] = "ended"] /\ jobs' = [jobs EXCEPT ![t] = << >>]
          /\ UNCHANGED <<watch, wrong, disturbed>>
      BY <1>7, <2>2, <2>4 DEF RunTask
    <3>2. /\ jobs' \in [Threads -> Seq(Tasks)] /\ \A u \in Threads : jobs'[u] \in Seq(TasksOf(u))
          /\ thread' \in [Threads -> {"none", "runs", "ended"}]
      BY <1>1, <2>3, <3>1 DEF LifeTypeOK
    <3> QED
      BY <1>1, <2>1, <3>1, <3>2 DEF LifeShape, LifeTypeOK, Watched
  <2>5. CASE task # <<"stop">>
    <3>1. PICK n \in Nodes \ Roots : n = task[2] /\ ThrOf[n] = t
      BY <2>2, <2>5, TaskIs
    <3>2. /\ jobs' = [jobs EXCEPT ![t] = Tail(jobs[t])] /\ UNCHANGED thread
          /\ (watch' = watch \/ (node[n] = "live" /\ watch' = [watch EXCEPT ![t] = watch[t] \cup {<<fd[n], n>>}]))
      BY <1>7, <2>2, <2>5, <3>1 DEF RunTask
    <3>3. wrong' \in BOOLEAN /\ disturbed' \in BOOLEAN
      BY <1>7, <2>2, <2>5, <3>1, Zenon DEF RunTask
    <3>4. jobs' \in [Threads -> Seq(Tasks)] /\ \A u \in Threads : jobs'[u] \in Seq(TasksOf(u))
      BY <1>1, <2>3, <3>2 DEF LifeTypeOK
    <3>5. watch' \in [Threads -> SUBSET ((1..NFds) \X Nodes)]
      <4>1. node[n] = "live" => <<fd[n], n>> \in (1..NFds) \X Nodes
        BY <1>1, <1>2, <3>1 DEF LifeTypeOK
      <4>2. CASE watch' = watch
        BY <1>1, <4>2 DEF LifeTypeOK
      <4>3. CASE node[n] = "live" /\ watch' = [watch EXCEPT ![t] = watch[t] \cup {<<fd[n], n>>}]
        BY <1>1, <4>1, <4>3 DEF LifeTypeOK
      <4> QED
        BY <3>2, <4>2, <4>3
    <3>6. Watched'
      <4>1. CASE watch' = watch
        BY <1>1, <4>1 DEF Watched
      <4>2. CASE watch' = [watch EXCEPT ![t] = watch[t] \cup {<<fd[n], n>>}]
        <5> SUFFICES ASSUME NEW u \in Threads, NEW f, NEW x, <<f, x>> \in watch'[u]
                     PROVE  x \in Nodes /\ ThrOf[x] = u
          BY DEF Watched
        <5>1. <<f, x>> \in watch[u] \/ (u = t /\ <<f, x>> = <<fd[n], n>>)
          BY <1>1, <4>2 DEF LifeTypeOK
        <5>2. CASE <<f, x>> \in watch[u]
          BY <1>1, <5>2 DEF Watched
        <5>3. CASE u = t /\ <<f, x>> = <<fd[n], n>>
          BY <3>1, <5>3
        <5> QED
          BY <5>1, <5>2, <5>3
      <4> QED
        BY <3>2, <4>1, <4>2
    <3> QED
      BY <1>1, <2>1, <3>2, <3>3, <3>4, <3>5, <3>6 DEF LifeShape, LifeTypeOK
  <2> QED
    BY <2>4, <2>5
<1>8. ASSUME NEW t \in Threads, NEW n \in Nodes, HandlerBegin(t, n) PROVE LifeShape'
  <2>1. /\ <<fd[n], n>> \in watch[t] /\ running' = [running EXCEPT ![t] = {n}]
        /\ UNCHANGED <<ginit, socks, node, conns, binds, arr, fd, watch, jobs, thread, app, wrong>>
    BY <1>8 DEF HandlerBegin
  <2>2. disturbed' \in BOOLEAN
    BY <1>8, Zenon DEF HandlerBegin
  <2>3. ThrOf[n] = t
    BY <1>1, <2>1 DEF Watched
  <2>4. running' \in [Threads -> SUBSET Nodes] /\ \A u \in Threads : \A x \in running'[u] : ThrOf[x] = u
    BY <1>1, <2>1, <2>3 DEF LifeTypeOK
  <2> QED
    BY <1>1, <2>1, <2>2, <2>4 DEF LifeShape, LifeTypeOK, Watched
<1>9. ASSUME NEW t \in Threads, HandlerEnd(t) PROVE LifeShape'
  <2>1. PICK n \in running[t] : \/ UNCHANGED <<node, conns, arr, fd, jobs>> /\ wrong' = (node[n] = "freed")
                                \/ \E c \in Ins :
                                      /\ BindOf[c] = n /\ node[n] = "live" /\ node[c] = "none"
                                      /\ Opens(c) /\ node' = [node EXCEPT ![c] = "live"]
                                      /\ conns' = Inserted(n, c) /\ Push(ThrOf[c], <<"start", c>>)
                                      /\ InsertInto({<<"conns", n>>, Home(c)})
                                      /\ \E e \in InsertFails({<<"conns", n>>, Home(c)}) :
                                            wrong' = (e \/ thread[ThrOf[c]] = "none")
    BY <1>9 DEF HandlerEnd
  <2>2. running' = [running EXCEPT ![t] = {}] /\ UNCHANGED <<ginit, socks, binds, watch, thread, app>>
    BY <1>9 DEF HandlerEnd
  <2>3. disturbed' \in BOOLEAN
    BY <1>9, Zenon DEF HandlerEnd
  <2>4. wrong' \in BOOLEAN
    BY <2>1, Zenon
  <2>5. running' \in [Threads -> SUBSET Nodes] /\ \A u \in Threads : \A x \in running'[u] : ThrOf[x] = u
    BY <1>1, <2>2 DEF LifeTypeOK
  <2>6. CASE UNCHANGED <<node, conns, arr, fd, jobs>>
    BY <1>1, <2>2, <2>3, <2>4, <2>5, <2>6 DEF LifeShape, LifeTypeOK, Watched
  <2>7. ASSUME NEW c \in Ins, BindOf[c] = n, Opens(c), node' = [node EXCEPT ![c] = "live"],
               conns' = Inserted(n, c), InsertInto({<<"conns", n>>, Home(c)}),
               Push(ThrOf[c], <<"start", c>>)
        PROVE  LifeShape'
    <3>1. c \in Nodes /\ c \notin Roots /\ n \in Binds /\ Owner[n] \in Roots /\ ThrOf[c] \in Threads
      BY <1>2, <2>7 DEF Nodes
    <3>2. PICK f \in 1..NFds : fd' = [fd EXCEPT ![c] = f] /\ fd' \in [Nodes -> 0..NFds]
      BY <1>1, <2>7, <3>1, OpensTyped DEF LifeTypeOK
    <3>3. <<"start", c>> \in TasksOf(ThrOf[c])
      BY <3>1 DEF TasksOf
    <3>4. jobs' \in [Threads -> Seq(Tasks)] /\ \A u \in Threads : jobs'[u] \in Seq(TasksOf(u))
      BY <1>1, <2>7, <3>1, <3>3, PushTyped DEF LifeTypeOK
    <3>5. conns' \in [Roots \cup Binds -> SUBSET (Ins \cup Outs)]
      <4>1. PICK q \in Roots : q = Owner[n]
        BY <3>1
      <4>2. n # q /\ conns' = [conns EXCEPT ![n] = conns[n] \cup {c}, ![q] = conns[q] \cup {c}]
        BY <1>1, <1>2, <2>7, <3>1, <4>1 DEF Inserted, LifeTypeOK
      <4>3. /\ conns[n] \cup {c} \in SUBSET (Ins \cup Outs)
            /\ conns[q] \cup {c} \in SUBSET (Ins \cup Outs)
        BY <1>1, <3>1, <4>1 DEF LifeTypeOK
      <4> QED
        BY <1>1, <3>1, <4>1, <4>2, <4>3 DEF LifeTypeOK
    <3>6. node' \in [Nodes -> {"none", "live", "freed"}]
      BY <1>1, <2>7, <3>1 DEF LifeTypeOK
    <3>7. \A x \in Nodes \ Roots : node'[x] = "live" => fd'[x] # 0
      BY <1>1, <1>2, <2>7, <3>1, <3>2 DEF LifeTypeOK
    <3>9. arr' \in [Arrays -> [last : Nat, shape : Shapes]]
      BY <1>1, <2>7, InsertTyped DEF ArrType
    <3>8. LifeTypeOK'
      BY <1>1, <2>2, <2>3, <2>4, <2>5, <3>2, <3>4, <3>5, <3>6, <3>9 DEF LifeTypeOK
    <3> QED
      BY <1>1, <2>2, <2>5, <3>4, <3>7, <3>8 DEF LifeShape, Watched
  <2> QED
    BY <2>1, <2>6, <2>7
<1>10. ASSUME NEW a \in Apps, NEW r \in Roots, CloseDecide(a, r) PROVE LifeShape'
  <2>1. PICK b \in BOOLEAN : app' = [app EXCEPT ![a] = [pc |-> "free", s |-> r, k |-> 0, term |-> b]]
    BY <1>10, Zenon DEF CloseDecide, LastSocket
  <2>2. /\ socks' = socks \ {r} /\ arr' \in [Arrays -> [last : Nat, shape : Shapes]]
        /\ UNCHANGED <<ginit, node, conns, binds, fd, watch, jobs, running, thread, wrong, disturbed>>
    BY <1>1, <1>10, ClearTyped DEF CloseDecide, ArrType
  <2>3. PICK c : c = [pc |-> "free", s |-> r, k |-> 0, term |-> b]
    OBVIOUS
  <2>4. c \in CallType /\ CallOK(c)
    BY <1>2, <2>3 DEF CallOK, CallType
  <2>5. app' \in [Apps -> CallType] /\ \A x \in Apps : CallOK(app'[x])
    BY <1>1, <2>1, <2>3, <2>4 DEF LifeTypeOK, CallType
  <2> QED
    BY <1>1, <2>2, <2>5 DEF LifeShape, LifeTypeOK, CallType, Watched
<1>11. ASSUME NEW a \in Apps, FreeNode(a) PROVE LifeShape'
  <2>1. app[a].pc = "free" /\ app[a].s \in Roots /\ app[a] \in CallType
    BY <1>1, <1>11 DEF FreeNode, CallOK, LifeTypeOK, CallType
  <2>2. PICK r \in Roots : r = app[a].s
    BY <2>1
  <2>3. PICK n \in NextToFree(r) :
             /\ ClearOf(n)
             /\ node' = [node EXCEPT ![n] = "freed"] /\ fd' = [fd EXCEPT ![n] = 0] /\ conns' = TakenOut(n)
             /\ binds' = [binds EXCEPT ![r] = @ \ {n}]
             /\ app' = IF n # r THEN app
                       ELSE IF app[a].term /\ ginit
                       THEN [app EXCEPT ![a].s = NoRoot, ![a].pc = "join"]
                       ELSE [app EXCEPT ![a] = NoCall]
    BY <1>11, <2>2 DEF FreeNode
  <2>4. wrong' \in BOOLEAN /\ disturbed' \in BOOLEAN
    BY <1>11, Zenon DEF FreeNode
  <2>9. arr' \in [Arrays -> [last : Nat, shape : Shapes]]
    BY <1>1, <2>3, ClearTyped DEF ArrType
  <2>5. UNCHANGED <<ginit, socks, watch, jobs, running, thread>> /\ n \in Nodes
    BY <1>1, <1>11, NextToFreeIs DEF FreeNode
  <2>6. /\ node' \in [Nodes -> {"none", "live", "freed"}] /\ fd' \in [Nodes -> 0..NFds]
        /\ binds' \in [Roots -> SUBSET Binds]
        /\ \A x \in Nodes \ Roots : node'[x] = "live" => fd'[x] # 0
    BY <1>1, <1>2, <2>3, <2>5 DEF LifeTypeOK
  <2>7. conns' \in [Roots \cup Binds -> SUBSET (Ins \cup Outs)]
    BY <1>1, <2>3 DEF LifeTypeOK, TakenOut
  <2>8. app' \in [Apps -> CallType] /\ \A x \in Apps : CallOK(app'[x])
    <3>1. CASE n # r
      BY <1>1, <2>3, <3>1 DEF LifeTypeOK, CallType
    <3>2. CASE n = r /\ app[a].term /\ ginit
      <4>1. PICK c : c = [app[a] EXCEPT !.s = NoRoot, !.pc = "join"]
        OBVIOUS
      <4>2. c \in CallType /\ c.pc = "join" /\ c.s = NoRoot /\ c.term
        BY <2>1, <3>2, <4>1 DEF CallType
      <4>3. CallOK(c)
        BY <4>2 DEF CallOK
      <4>4. app' = [app EXCEPT ![a] = c]
        BY <2>3, <3>2, <4>1
      <4> QED
        BY <1>1, <4>2, <4>3, <4>4 DEF LifeTypeOK, CallType
    <3>3. CASE n = r /\ ~(app[a].term /\ ginit)
      <4>1. NoCall \in CallType /\ CallOK(NoCall)
        BY <1>2 DEF NoCall, CallOK, CallType
      <4>2. app' = [app EXCEPT ![a] = NoCall]
        BY <2>3, <3>3
      <4> QED
        BY <1>1, <4>1, <4>2 DEF LifeTypeOK, CallType
    <3> QED
      BY <3>1, <3>2, <3>3
  <2> QED
    BY <1>1, <2>4, <2>5, <2>6, <2>7, <2>8, <2>9 DEF LifeShape, LifeTypeOK, CallType, Watched
<1>12. ASSUME NEW a \in Apps, JoinPush(a) PROVE LifeShape'
  <2>1. /\ app[a].pc = "join" /\ app[a].k < NThreads /\ PushStop(app[a].k)
        /\ app' = [app EXCEPT ![a].pc = "wait"]
        /\ UNCHANGED <<ginit, socks, node, conns, binds, arr, fd, watch, running, thread, disturbed>>
    BY <1>12 DEF JoinPush
  <2>2. wrong' \in BOOLEAN
    BY <1>12, Zenon DEF JoinPush
  <2>3. app[a] \in CallType /\ app[a].k \in Threads
    BY <1>1, <1>2, <2>1 DEF LifeTypeOK, CallType, Threads
  <2>4. <<"stop">> \in TasksOf(app[a].k)
    BY DEF TasksOf
  <2>5. jobs' \in [Threads -> Seq(Tasks)] /\ \A t \in Threads : jobs'[t] \in Seq(TasksOf(t))
    BY <1>1, <2>1, <2>3, <2>4, PushTyped DEF LifeTypeOK, PushStop
  <2>6. PICK c : c = [app[a] EXCEPT !.pc = "wait"]
    OBVIOUS
  <2>7. c \in CallType /\ CallOK(c)
    BY <1>1, <2>1, <2>3, <2>6 DEF CallType, CallOK
  <2>8. app' \in [Apps -> CallType] /\ \A x \in Apps : CallOK(app'[x])
    BY <1>1, <2>1, <2>6, <2>7 DEF LifeTypeOK, CallType
  <2> QED
    BY <1>1, <2>1, <2>2, <2>5, <2>8 DEF LifeShape, LifeTypeOK, CallType, Watched
<1>13. ASSUME NEW a \in Apps, JoinWait(a) PROVE LifeShape'
  <2>1. /\ app[a].pc = "wait" /\ thread' = [thread EXCEPT ![app[a].k] = "none"]
        /\ watch' = [watch EXCEPT ![app[a].k] = {}] /\ jobs' = [jobs EXCEPT ![app[a].k] = << >>]
        /\ app' = [app EXCEPT ![a].pc = "join", ![a].k = @ + 1]
        /\ UNCHANGED <<ginit, socks, node, conns, binds, arr, fd, running, wrong, disturbed>>
    BY <1>13 DEF JoinWait
  <2>2. app[a] \in CallType /\ app[a].k < NThreads /\ app[a].k + 1 \in 0..NThreads
    BY <1>1, <1>2, <2>1 DEF LifeTypeOK, CallType, CallOK
  <2>3. PICK c : c = [app[a] EXCEPT !.pc = "join", !.k = @ + 1]
    OBVIOUS
  <2>4. c \in CallType /\ CallOK(c)
    BY <1>1, <2>1, <2>2, <2>3 DEF CallType, CallOK
  <2>5. app' \in [Apps -> CallType] /\ \A x \in Apps : CallOK(app'[x])
    BY <1>1, <2>1, <2>3, <2>4 DEF LifeTypeOK, CallType
  <2>6. thread' \in [Threads -> {"none", "runs", "ended"}]
    BY <1>1, <2>1 DEF LifeTypeOK
  <2>7. watch' \in [Threads -> SUBSET ((1..NFds) \X Nodes)] /\ Watched'
    BY <1>1, <2>1 DEF LifeTypeOK, Watched
  <2>8. jobs' \in [Threads -> Seq(Tasks)] /\ \A t \in Threads : jobs'[t] \in Seq(TasksOf(t))
    <3>1. << >> \in Seq(Tasks) /\ \A t \in Threads : << >> \in Seq(TasksOf(t))
      BY EmptySeq
    <3> QED
      BY <1>1, <2>1, <3>1 DEF LifeTypeOK
  <2>9. LifeTypeOK'
    BY <1>1, <2>1, <2>5, <2>6, <2>7, <2>8 DEF LifeTypeOK, CallType
  <2> QED
    BY <1>1, <2>1, <2>5, <2>7, <2>8, <2>9 DEF LifeShape
<1>14. ASSUME NEW a \in Apps, GlobalEnd(a) PROVE LifeShape'
  <2>1. /\ ginit' = FALSE /\ app' = [app EXCEPT ![a] = NoCall]
        /\ UNCHANGED <<socks, node, conns, binds, arr, fd, watch, jobs, running, thread, disturbed>>
    BY <1>14 DEF GlobalEnd
  <2>2. wrong' \in BOOLEAN /\ ginit' \in BOOLEAN
    BY <1>14, Zenon DEF GlobalEnd
  <2>3. NoCall \in CallType /\ CallOK(NoCall)
    BY <1>2 DEF NoCall, CallOK, CallType
  <2>4. app' \in [Apps -> CallType] /\ \A x \in Apps : CallOK(app'[x])
    BY <1>1, <2>1, <2>3 DEF LifeTypeOK, CallType
  <2> QED
    BY <1>1, <2>1, <2>2, <2>4 DEF LifeShape, LifeTypeOK, CallType, Watched
<1> QED
  BY <1>3, <1>4, <1>5, <1>6, <1>7, <1>8, <1>9, <1>10, <1>11, <1>12, <1>13, <1>14
  DEF LifeNext, CloseStep

-----------------------------------------------------------------------------
(* The tree of sockets, binds and connections.                             *)

\* An open socket is live and nobody closes it; a live one is open or being
\* closed, by one call only.
Held ==
    /\ \A r \in socks : node[r] = "live" /\ ~Closing(r)
    /\ \A r \in Roots : node[r] = "live" => r \in socks \/ Closing(r)
    /\ \A a \in Apps : app[a].s \in Roots =>
          node[app[a].s] = "live" /\ \A b \in Apps : app[b].s = app[a].s => b = a

\* The arrays hold live structures of their owner,
Members ==
    /\ \A r \in Roots : /\ \A b \in binds[r] : node[b] = "live" /\ Owner[b] = r
                        /\ \A n \in conns[r] : node[n] = "live" /\ Owner[n] = r
    /\ \A b \in Binds : \A n \in conns[b] : node[n] = "live" /\ n \in Ins /\ BindOf[n] = b

\* and every live structure stands in its arrays.
Listed ==
    /\ \A b \in Binds : node[b] = "live" => b \in binds[Owner[b]]
    /\ \A n \in Ins \cup Outs : node[n] = "live" => n \in conns[Owner[n]]
    /\ \A n \in Ins : node[n] = "live" => n \in conns[BindOf[n]]

\* What is live has a live root, and only the live have a descriptor.
Rooted == \A n \in Nodes : /\ node[n] = "live" => node[Owner[n]] = "live"
                           /\ fd[n] # 0 => node[n] = "live"

Tree == Held /\ Members /\ Listed /\ Rooted

\* Steps of the workers and of the join leave the tree alone.
LEMMA TreeStays ==
    ASSUME Tree, UNCHANGED <<node, socks, binds, conns, fd>>, \A x \in Apps : app'[x].s = app[x].s
    PROVE  Tree'
<1>1. \A r : Closing(r)' <=> Closing(r)
  BY DEF Closing
<1>2. Held'
  BY <1>1 DEF Tree, Held
<1>3. Members' /\ Listed' /\ Rooted'
  BY DEF Tree, Members, Listed, Rooted
<1> QED
  BY <1>2, <1>3 DEF Tree

\* A new bind or connection n of a live root keeps the tree.
LEMMA TreeGrows ==
    ASSUME LifeTypeOK, Tree, NEW n \in Nodes \ Roots, node[n] = "none", node[Owner[n]] = "live",
           node' = [node EXCEPT ![n] = "live"], socks' = socks, app' = app,
           \A x \in Nodes : x # n => fd'[x] = fd[x],
           \A r \in Roots : binds'[r] = binds[r] \cup (IF n \in Binds /\ r = Owner[n] THEN {n} ELSE {}),
           \A r \in Roots : conns'[r] = conns[r] \cup (IF n \notin Binds /\ r = Owner[n] THEN {n} ELSE {}),
           \A b \in Binds : conns'[b] = conns[b] \cup (IF n \in Ins /\ b = BindOf[n] THEN {n} ELSE {})
    PROVE  Tree'
<1>1. /\ Owner \in [Nodes -> Roots] /\ BindOf \in [Ins -> Binds]
      /\ Roots \cap (Binds \cup Ins \cup Outs) = {} /\ Binds \cap (Ins \cup Outs) = {} /\ Ins \cap Outs = {}
      /\ NoRoot \notin Roots /\ Roots \subseteq Nodes /\ Binds \subseteq Nodes /\ Ins \subseteq Nodes
      /\ Outs \subseteq Nodes
  BY LifeAssumption DEF Nodes
<1>2. /\ node'[n] = "live" /\ \A x \in Nodes : x # n => node'[x] = node[x]
      /\ \A x \in Nodes : node[x] = "live" => node'[x] = "live"
  BY DEF LifeTypeOK
<1>3. Held'
  <2>1. \A r : Closing(r)' <=> Closing(r)
    BY DEF Closing
  <2>2. socks \subseteq Roots /\ \A r \in Roots : node'[r] = node[r]
    BY <1>1, <1>2 DEF LifeTypeOK
  <2> QED
    BY <2>1, <2>2 DEF Tree, Held
<1>4. Members'
  <2>1. ASSUME NEW r \in Roots, NEW b \in binds'[r] PROVE node'[b] = "live" /\ Owner[b] = r
    <3>1. b \in Nodes /\ (b \in binds[r] \/ (b = n /\ r = Owner[n]))
      BY <1>1, <2>1 DEF LifeTypeOK
    <3> QED
      BY <1>2, <2>1, <3>1 DEF Tree, Members
  <2>2. ASSUME NEW r \in Roots, NEW x \in conns'[r] PROVE node'[x] = "live" /\ Owner[x] = r
    <3>1. x \in Nodes /\ (x \in conns[r] \/ (x = n /\ r = Owner[n]))
      BY <1>1, <2>2 DEF LifeTypeOK
    <3> QED
      BY <1>2, <2>2, <3>1 DEF Tree, Members
  <2>3. ASSUME NEW b \in Binds, NEW x \in conns'[b]
        PROVE  node'[x] = "live" /\ x \in Ins /\ BindOf[x] = b
    <3>1. x \in Nodes /\ (x \in conns[b] \/ (x = n /\ n \in Ins /\ b = BindOf[n]))
      BY <1>1, <2>3 DEF LifeTypeOK
    <3> QED
      BY <1>2, <2>3, <3>1 DEF Tree, Members
  <2> QED
    BY <2>1, <2>2, <2>3 DEF Members
<1>5. Listed'
  <2>1. ASSUME NEW b \in Binds, node'[b] = "live" PROVE b \in binds'[Owner[b]]
    BY <1>1, <1>2, <2>1 DEF Tree, Listed
  <2>2. ASSUME NEW x \in Ins \cup Outs, node'[x] = "live" PROVE x \in conns'[Owner[x]]
    BY <1>1, <1>2, <2>2 DEF Tree, Listed
  <2>3. ASSUME NEW x \in Ins, node'[x] = "live" PROVE x \in conns'[BindOf[x]]
    BY <1>1, <1>2, <2>3 DEF Tree, Listed
  <2> QED
    BY <2>1, <2>2, <2>3 DEF Listed
<1>6. Rooted'
  BY <1>1, <1>2 DEF Tree, Rooted
<1> QED
  BY <1>3, <1>4, <1>5, <1>6 DEF Tree

\* What fsock_sock_term frees next belongs to the socket being closed and is
\* live.
LEMMA FreesOwn ==
    ASSUME LifeTypeOK, Tree, NEW a \in Apps, app[a].s \in Roots, NEW n \in NextToFree(app[a].s)
    PROVE  n \in Nodes /\ Owner[n] = app[a].s /\ node[n] = "live"
<1>1. /\ \A r \in Roots : Owner[r] = r
      /\ \A x \in Ins : Owner[x] = Owner[BindOf[x]]
  BY LifeAssumption
<1>2. PICK r \in Roots : r = app[a].s
  OBVIOUS
<1>3. /\ n \in Nodes
      /\ \/ n = r
         \/ n \in conns[r]
         \/ n \in binds[r]
         \/ \E b \in binds[r] : b \in Binds /\ n \in conns[b]
  BY <1>2, NextToFreeIs
<1> QED
  BY <1>1, <1>2, <1>3 DEF Tree, Members, Held

\* Each action keeps sockets, binds and connections a tree: arrays, owners and holders
\* agree.
LEMMA TreeStep ==
    ASSUME LifeShape, Tree, [LifeNext]_lifeVars
    PROVE  Tree'
<1>1. LifeTypeOK /\ \A a \in Apps : CallOK(app[a])
  BY DEF LifeShape
<1>2. /\ Owner \in [Nodes -> Roots] /\ BindOf \in [Ins -> Binds] /\ NThreads \in Nat
      /\ Roots \cap (Binds \cup Ins \cup Outs) = {} /\ Binds \cap (Ins \cup Outs) = {} /\ Ins \cap Outs = {}
      /\ NoRoot \notin Roots /\ Roots \subseteq Nodes /\ Binds \subseteq Nodes /\ Ins \subseteq Nodes
      /\ Outs \subseteq Nodes
      /\ \A r \in Roots : Owner[r] = r
      /\ \A x \in Ins : Owner[x] = Owner[BindOf[x]]
  BY LifeAssumption DEF Nodes
<1>3. CASE UNCHANGED lifeVars
  BY <1>3, TreeStays DEF lifeVars
<1>4. ASSUME NEW r \in Roots, Socket(r) PROVE Tree'
  <2>1. /\ node[r] = "none" /\ socks' = socks \cup {r} /\ node' = [node EXCEPT ![r] = "live"]
        /\ UNCHANGED <<conns, binds, fd, app>>
    BY <1>4 DEF Socket
  <2>2. /\ node'[r] = "live" /\ \A x \in Nodes : x # r => node'[x] = node[x]
        /\ socks \subseteq Roots
    BY <1>1, <1>2, <2>1 DEF LifeTypeOK
  <2>3. Held'
    <3>1. \A q : Closing(q)' <=> Closing(q)
      BY <2>1 DEF Closing
    <3>2. ~Closing(r)
      BY <2>1 DEF Tree, Held, Closing
    <3> QED
      BY <1>2, <2>1, <2>2, <3>1, <3>2 DEF Tree, Held
  <2>4. Members'
    BY <1>1, <1>2, <2>1, <2>2 DEF Tree, Members, LifeTypeOK
  <2>5. Listed'
    BY <1>2, <2>1, <2>2 DEF Tree, Listed
  <2>6. Rooted'
    BY <1>2, <2>1, <2>2 DEF Tree, Rooted
  <2> QED
    BY <2>3, <2>4, <2>5, <2>6 DEF Tree
<1>5. ASSUME NEW n \in Nodes, Attach(n) PROVE Tree'
  <2>1. /\ n \in Binds \cup Outs /\ node[n] = "none" /\ Owner[n] \in socks
        /\ Opens(n) /\ node' = [node EXCEPT ![n] = "live"]
        /\ binds' = IF n \in Binds THEN [binds EXCEPT ![Owner[n]] = @ \cup {n}] ELSE binds
        /\ conns' = IF n \in Outs THEN [conns EXCEPT ![Owner[n]] = @ \cup {n}] ELSE conns
        /\ socks' = socks /\ app' = app
    BY <1>5 DEF Attach
  <2>2. PICK f \in 1..NFds : fd' = [fd EXCEPT ![n] = f] /\ fd' \in [Nodes -> 0..NFds]
    BY <1>1, <2>1, OpensTyped DEF LifeTypeOK
  <2>3. \A x \in Nodes : x # n => fd'[x] = fd[x]
    BY <1>1, <2>2 DEF LifeTypeOK
  <2>4. node[Owner[n]] = "live" /\ n \in Nodes \ Roots /\ Owner[n] \in Roots /\ n \notin Ins
    BY <1>2, <2>1 DEF Tree, Held
  <2>5. \A r \in Roots : binds'[r] = binds[r] \cup (IF n \in Binds /\ r = Owner[n] THEN {n} ELSE {})
    BY <1>1, <2>1, <2>4 DEF LifeTypeOK
  <2>6. \A r \in Roots : conns'[r] = conns[r] \cup (IF n \notin Binds /\ r = Owner[n] THEN {n} ELSE {})
    BY <1>1, <1>2, <2>1, <2>4 DEF LifeTypeOK
  <2>7. \A b \in Binds : conns'[b] = conns[b] \cup (IF n \in Ins /\ b = BindOf[n] THEN {n} ELSE {})
    BY <1>1, <1>2, <2>1, <2>4 DEF LifeTypeOK
  <2> QED
    BY <1>1, <2>1, <2>3, <2>4, <2>5, <2>6, <2>7, TreeGrows
<1>6. ASSUME NEW n \in Nodes, Use(n) PROVE Tree'
  BY <1>6, TreeStays DEF Use
<1>7. ASSUME NEW t \in Threads, RunTask(t) PROVE Tree'
  BY <1>7, TreeStays DEF RunTask
<1>8. ASSUME NEW t \in Threads, NEW n \in Nodes, HandlerBegin(t, n) PROVE Tree'
  BY <1>8, TreeStays DEF HandlerBegin
<1>9. ASSUME NEW t \in Threads, HandlerEnd(t) PROVE Tree'
  <2>1. PICK n \in running[t] : \/ UNCHANGED <<node, conns, fd>>
                                \/ \E c \in Ins :
                                      /\ BindOf[c] = n /\ node[n] = "live" /\ node[c] = "none"
                                      /\ Opens(c) /\ node' = [node EXCEPT ![c] = "live"]
                                      /\ conns' = Inserted(n, c)
    BY <1>9 DEF HandlerEnd
  <2>2. UNCHANGED <<socks, binds, app>>
    BY <1>9 DEF HandlerEnd
  <2>3. CASE UNCHANGED <<node, conns, fd>>
    BY <2>2, <2>3, TreeStays
  <2>4. ASSUME NEW c \in Ins, BindOf[c] = n, node[n] = "live", node[c] = "none", Opens(c),
               node' = [node EXCEPT ![c] = "live"], conns' = Inserted(n, c)
        PROVE  Tree'
    <3>1. c \in Nodes \ Roots /\ c \notin Binds /\ n \in Binds /\ Owner[c] = Owner[n] /\ Owner[n] \in Roots
      BY <1>2, <2>4
    <3>2. PICK f \in 1..NFds : fd' = [fd EXCEPT ![c] = f] /\ fd' \in [Nodes -> 0..NFds]
      BY <1>1, <2>4, <3>1, OpensTyped DEF LifeTypeOK
    <3>3. \A x \in Nodes : x # c => fd'[x] = fd[x]
      BY <1>1, <3>2 DEF LifeTypeOK
    <3>4. node[Owner[c]] = "live"
      BY <1>2, <2>4, <3>1 DEF Tree, Rooted
    <3>5. PICK q \in Roots : q = Owner[n]
      BY <3>1
    <3>6. n # q /\ conns' = [conns EXCEPT ![n] = conns[n] \cup {c}, ![q] = conns[q] \cup {c}]
      BY <1>1, <1>2, <2>4, <3>1, <3>5 DEF Inserted, LifeTypeOK
    <3>7. \A r \in Roots : conns'[r] = conns[r] \cup (IF c \notin Binds /\ r = Owner[c] THEN {c} ELSE {})
      BY <1>1, <1>2, <3>1, <3>5, <3>6 DEF LifeTypeOK
    <3>8. \A b \in Binds : conns'[b] = conns[b] \cup (IF c \in Ins /\ b = BindOf[c] THEN {c} ELSE {})
      BY <1>1, <1>2, <2>4, <3>1, <3>5, <3>6 DEF LifeTypeOK
    <3>9. \A r \in Roots : binds'[r] = binds[r] \cup (IF c \in Binds /\ r = Owner[c] THEN {c} ELSE {})
      BY <2>2, <3>1
    <3> QED
      BY <1>1, <2>2, <2>4, <3>1, <3>3, <3>4, <3>7, <3>8, <3>9, TreeGrows
  <2> QED
    BY <2>1, <2>3, <2>4
<1>10. ASSUME NEW a \in Apps, NEW r \in Roots, CloseDecide(a, r) PROVE Tree'
  <2>1. /\ r \in socks /\ socks' = socks \ {r} /\ app[a].pc = "idle"
        /\ app' = [app EXCEPT ![a] = [pc |-> "free", s |-> r, k |-> 0, term |-> LastSocket(arr'[Socks])]]
        /\ UNCHANGED <<node, conns, binds, fd>>
    BY <1>10 DEF CloseDecide
  <2>2. app[a].s = NoRoot
    BY <1>1, <2>1 DEF CallOK, NoCall
  <2>3. app'[a].s = r /\ \A x \in Apps : x # a => app'[x].s = app[x].s
    BY <1>1, <2>1 DEF LifeTypeOK
  <2>4. \A q \in Roots : Closing(q)' <=> q = r \/ Closing(q)
    BY <1>2, <2>2, <2>3 DEF Closing
  <2>5. Held'
    <3>1. socks \subseteq Roots /\ ~Closing(r) /\ node[r] = "live"
      BY <1>1, <2>1 DEF Tree, Held, LifeTypeOK
    <3>2. /\ \A q \in socks' : node'[q] = "live" /\ ~Closing(q)'
          /\ \A q \in Roots : node'[q] = "live" => q \in socks' \/ Closing(q)'
      BY <2>1, <2>4, <3>1 DEF Tree, Held
    <3>3. \A x \in Apps : app'[x].s \in Roots =>
             node'[app'[x].s] = "live" /\ \A y \in Apps : app'[y].s = app'[x].s => y = x
      BY <2>1, <2>3, <3>1 DEF Tree, Held, Closing
    <3> QED
      BY <3>2, <3>3 DEF Held
  <2>6. Members' /\ Listed' /\ Rooted'
    BY <2>1 DEF Tree, Members, Listed, Rooted
  <2> QED
    BY <2>5, <2>6 DEF Tree
<1>11. ASSUME NEW a \in Apps, FreeNode(a) PROVE Tree'
  <2>1. app[a].s \in Roots
    BY <1>1, <1>11 DEF FreeNode, CallOK
  <2>2. PICK r \in Roots : r = app[a].s
    BY <2>1
  <2>3. PICK n \in NextToFree(r) :
             /\ node' = [node EXCEPT ![n] = "freed"] /\ fd' = [fd EXCEPT ![n] = 0] /\ conns' = TakenOut(n)
             /\ binds' = [binds EXCEPT ![r] = @ \ {n}]
             /\ app' = IF n # r THEN app
                       ELSE IF app[a].term /\ ginit
                       THEN [app EXCEPT ![a].s = NoRoot, ![a].pc = "join"]
                       ELSE [app EXCEPT ![a] = NoCall]
    BY <1>11, <2>2 DEF FreeNode
  <2>4. socks' = socks /\ n \in Nodes /\ Owner[n] = r /\ node[n] = "live"
    BY <1>1, <1>11, <2>2, <2>3, FreesOwn DEF FreeNode
  <2>5. n = r => binds[r] = {} /\ conns[r] = {}
    BY <1>1, <1>2, <2>3, NextToFreeIs DEF Tree, Members, LifeTypeOK
  <2>6. /\ node'[n] = "freed" /\ fd'[n] = 0
        /\ \A x \in Nodes : x # n => node'[x] = node[x] /\ fd'[x] = fd[x]
        /\ \A x \in Roots \cup Binds : conns'[x] = conns[x] \ {n}
        /\ \A q \in Roots : binds'[q] = IF q = r THEN binds[r] \ {n} ELSE binds[q]
    BY <1>1, <2>3, <2>4 DEF LifeTypeOK, TakenOut
  <2>7. \A x \in Apps : app'[x].s = IF x = a /\ n = r THEN NoRoot ELSE app[x].s
    BY <1>1, <2>2, <2>3 DEF LifeTypeOK, NoCall
  <2>8. Held'
    <3>1. r \notin socks /\ socks \subseteq Roots /\ \A x \in Apps : app[x].s = r => x = a
      BY <1>1, <2>2 DEF Tree, Held, Closing, LifeTypeOK
    <3>2. \A q \in Roots : Closing(q)' <=> Closing(q) /\ ~(q = r /\ n = r)
      BY <1>2, <2>2, <2>7, <3>1 DEF Closing
    <3>3. \A q \in Roots : q = n => n = r
      BY <1>2, <2>4
    <3>4. \A q \in socks' : node'[q] = "live" /\ ~Closing(q)'
      BY <1>2, <2>4, <2>6, <3>1, <3>2, <3>3 DEF Tree, Held
    <3>5. \A q \in Roots : node'[q] = "live" => q \in socks' \/ Closing(q)'
      BY <1>2, <2>4, <2>6, <3>2, <3>3 DEF Tree, Held
    <3>6. ASSUME NEW x \in Apps, app'[x].s \in Roots
          PROVE  node'[app'[x].s] = "live" /\ \A y \in Apps : app'[y].s = app'[x].s => y = x
      <4>1. app'[x].s = app[x].s /\ ~(x = a /\ n = r)
        BY <1>2, <2>7, <3>6
      <4>2. app[x].s # n
        BY <2>2, <3>1, <3>3, <3>6, <4>1
      <4>3. node'[app'[x].s] = "live"
        BY <1>2, <2>6, <3>6, <4>1, <4>2 DEF Tree, Held
      <4>4. ASSUME NEW y \in Apps, app'[y].s = app'[x].s PROVE y = x
        <5>1. app[y].s = app[x].s
          BY <1>2, <2>7, <3>6, <4>1, <4>4
        <5> QED
          BY <3>6, <4>1, <5>1 DEF Tree, Held
      <4> QED
        BY <4>3, <4>4
    <3> QED
      BY <3>4, <3>5, <3>6 DEF Held
  <2>9. Members'
    <3>1. ASSUME NEW q \in Roots, NEW b \in binds'[q] PROVE node'[b] = "live" /\ Owner[b] = q
      <4>1. b \in binds[q] /\ b \in Nodes /\ node[b] = "live" /\ Owner[b] = q
        <5>1. b \in binds[q]
          BY <2>6, <3>1
        <5>2. binds[q] \in SUBSET Binds
          BY <1>1 DEF LifeTypeOK
        <5> QED
          BY <1>2, <5>1, <5>2 DEF Tree, Members
      <4>2. b # n
        BY <2>4, <2>6, <3>1, <4>1
      <4> QED
        BY <2>6, <4>1, <4>2
    <3>2. ASSUME NEW q \in Roots, NEW x \in conns'[q] PROVE node'[x] = "live" /\ Owner[x] = q
      <4>1. x \in conns[q] /\ x \in Nodes /\ x # n
        BY <1>1, <1>2, <2>6, <3>2 DEF LifeTypeOK
      <4> QED
        BY <2>6, <3>2, <4>1 DEF Tree, Members
    <3>3. ASSUME NEW b \in Binds, NEW x \in conns'[b] PROVE node'[x] = "live" /\ x \in Ins /\ BindOf[x] = b
      <4>1. x \in conns[b] /\ x \in Nodes /\ x # n
        BY <1>1, <1>2, <2>6, <3>3 DEF LifeTypeOK
      <4> QED
        BY <2>6, <3>3, <4>1 DEF Tree, Members
    <3> QED
      BY <3>1, <3>2, <3>3 DEF Members
  <2>10. Listed'
    <3>1. \A x \in Nodes : node'[x] = "live" => x # n /\ node[x] = "live"
      BY <2>6
    <3>2. \A b \in Binds : node'[b] = "live" => b \in binds'[Owner[b]]
      BY <1>2, <2>6, <3>1 DEF Tree, Listed
    <3>3. \A x \in Ins \cup Outs : node'[x] = "live" => x \in conns'[Owner[x]]
      BY <1>2, <2>6, <3>1 DEF Tree, Listed
    <3>4. \A x \in Ins : node'[x] = "live" => x \in conns'[BindOf[x]]
      BY <1>2, <2>6, <3>1 DEF Tree, Listed
    <3> QED
      BY <3>2, <3>3, <3>4 DEF Listed
  <2>11. Rooted'
    <3>1. ASSUME NEW x \in Nodes, node'[x] = "live" PROVE node'[Owner[x]] = "live"
      <4>1. x # n /\ node[x] = "live" /\ node[Owner[x]] = "live" /\ Owner[x] \in Roots
        BY <1>2, <2>6, <3>1 DEF Tree, Rooted
      <4>2. ASSUME Owner[x] = n PROVE FALSE
        <5>1. n = r /\ binds[r] = {} /\ conns[r] = {} /\ Owner[x] = r
          BY <1>2, <2>4, <2>5, <4>1, <4>2
        <5>2. x \in Roots \/ x \in Binds \/ x \in Ins \cup Outs
          BY DEF Nodes
        <5> QED
          BY <1>2, <4>1, <5>1, <5>2 DEF Tree, Listed
      <4> QED
        BY <1>2, <2>6, <4>1, <4>2
    <3>2. \A x \in Nodes : fd'[x] # 0 => node'[x] = "live"
      BY <2>6 DEF Tree, Rooted
    <3> QED
      BY <3>1, <3>2 DEF Rooted
  <2> QED
    BY <2>8, <2>9, <2>10, <2>11 DEF Tree
<1>12. ASSUME NEW a \in Apps, JoinPush(a) PROVE Tree'
  <2>1. app' = [app EXCEPT ![a].pc = "wait"] /\ UNCHANGED <<node, socks, binds, conns, fd>>
    BY <1>12 DEF JoinPush
  <2>2. \A x \in Apps : app'[x].s = app[x].s
    BY <1>1, <2>1 DEF LifeTypeOK
  <2> QED
    BY <2>1, <2>2, TreeStays
<1>13. ASSUME NEW a \in Apps, JoinWait(a) PROVE Tree'
  <2>1. app' = [app EXCEPT ![a].pc = "join", ![a].k = @ + 1] /\ UNCHANGED <<node, socks, binds, conns, fd>>
    BY <1>13 DEF JoinWait
  <2>2. \A x \in Apps : app'[x].s = app[x].s
    BY <1>1, <2>1 DEF LifeTypeOK
  <2> QED
    BY <2>1, <2>2, TreeStays
<1>14. ASSUME NEW a \in Apps, GlobalEnd(a) PROVE Tree'
  <2>1. app[a].pc = "join" /\ app' = [app EXCEPT ![a] = NoCall] /\ UNCHANGED <<node, socks, binds, conns, fd>>
    BY <1>14 DEF GlobalEnd
  <2>2. app[a].s = NoRoot
    BY <1>1, <2>1 DEF CallOK
  <2>3. \A x \in Apps : app'[x].s = app[x].s
    BY <1>1, <2>1, <2>2 DEF LifeTypeOK, NoCall
  <2> QED
    BY <2>1, <2>3, TreeStays
<1> QED
  BY <1>3, <1>4, <1>5, <1>6, <1>7, <1>8, <1>9, <1>10, <1>11, <1>12, <1>13, <1>14
  DEF LifeNext, CloseStep

-----------------------------------------------------------------------------
(* The arrays and what stands in them.                                     *)

\* An array that starts afresh is empty, and one that is empty starts afresh
\* unless it is messy.
Sized == \A x \in Arrays : /\ arr[x].last = 0 => Content(x) = {}
                           /\ arr[x].last # 0 /\ ~Messy(x) => Content(x) # {}

\* The arrays, one kind at a time.
LEMMA ArraysAre ==
    /\ \A x \in Arrays : \/ x = Socks /\ x[1] = "socks" /\ Content(x) = socks
                         \/ x[1] = "conns" /\ x[2] \in Roots \cup Binds /\ Content(x) = conns[x[2]]
                         \/ x[1] = "binds" /\ x[2] \in Roots /\ Content(x) = binds[x[2]]
    /\ Socks \in Arrays /\ Content(Socks) = socks
    /\ \A r \in Roots \cup Binds : <<"conns", r>> \in Arrays /\ Content(<<"conns", r>>) = conns[r]
    /\ \A r \in Roots : <<"binds", r>> \in Arrays /\ Content(<<"binds", r>>) = binds[r]
  BY DEF Arrays, Socks, Content

\* The same before and after a step.
LEMMA ArraysAreNext ==
    ASSUME NEW x \in Arrays
    PROVE  \/ x = Socks /\ x[1] = "socks" /\ Content(x) = socks /\ Content(x)' = socks'
           \/ /\ x # Socks /\ x[1] = "conns" /\ x[2] \in Roots \cup Binds
              /\ Content(x) = conns[x[2]] /\ Content(x)' = conns'[x[2]]
           \/ /\ x # Socks /\ x[1] = "binds" /\ x[2] \in Roots
              /\ Content(x) = binds[x[2]] /\ Content(x)' = binds'[x[2]]
  BY DEF Arrays, Socks, Content

\* Arrays into which something was inserted, and those left alone, stay sized.
LEMMA SizedGrows ==
    ASSUME LifeTypeOK, Sized, NEW X, InsertInto(X),
           \A x \in Arrays : IF x \in X THEN Content(x)' # {} ELSE Content(x)' = Content(x)
    PROVE  Sized'
<1> SUFFICES ASSUME NEW x \in Arrays
             PROVE  /\ arr'[x].last = 0 => Content(x)' = {}
                    /\ arr'[x].last # 0 /\ arr'[x].shape # "messy" => Content(x)' # {}
  BY DEF Sized, Messy
<1>1. arr'[x] = IF x \in X THEN Grown(arr[x]) ELSE arr[x]
  BY InsertTyped
<1>2. arr[x] \in ArrType
  BY DEF LifeTypeOK, ArrType
<1>3. CASE x \in X
  <2>1. Grown(arr[x]).last # 0
    BY <1>2, GrownTyped
  <2> QED
    BY <1>1, <1>3, <2>1
<1>4. CASE x \notin X
  BY <1>1, <1>4 DEF Sized, Messy
<1> QED
  BY <1>3, <1>4

\* So do those that something left.
LEMMA SizedShrinks ==
    ASSUME LifeTypeOK, Sized, NEW n, ClearOf(n),
           \A x \in Arrays : Content(x)' = Content(x) \ {n}
    PROVE  Sized'
<1> SUFFICES ASSUME NEW x \in Arrays
             PROVE  /\ arr'[x].last = 0 => Content(x)' = {}
                    /\ arr'[x].last # 0 /\ arr'[x].shape # "messy" => Content(x)' # {}
  BY DEF Sized, Messy
<1>1. IF n \in Content(x) THEN arr'[x] \in Shrunk(arr[x], Content(x) = {n}) ELSE arr'[x] = arr[x]
  BY ClearTyped
<1>2. arr[x] \in ArrType /\ Content(x)' = Content(x) \ {n}
  BY DEF LifeTypeOK, ArrType
<1>3. CASE n \in Content(x)
  <2>1. arr[x].last # 0
    BY <1>3 DEF Sized
  <2>2. \/ arr'[x] = Fresh /\ Content(x) = {n}
        \/ Content(x) # {n} /\ arr'[x].last = arr[x].last
        \/ arr'[x].shape = "messy" /\ arr'[x].last = arr[x].last
    BY <1>1, <1>2, <1>3, ShrunkTyped
  <2>3. CASE arr'[x] = Fresh /\ Content(x) = {n}
    <3>1. arr'[x].last = 0 /\ Content(x)' = {}
      BY <1>2, <2>3 DEF Fresh
    <3> QED
      BY <3>1
  <2>4. CASE Content(x) # {n} /\ arr'[x].last = arr[x].last
    BY <1>2, <1>3, <2>1, <2>4
  <2>5. CASE arr'[x].shape = "messy" /\ arr'[x].last = arr[x].last
    BY <2>1, <2>5
  <2> QED
    BY <2>2, <2>3, <2>4, <2>5
<1>4. CASE n \notin Content(x)
  <2>1. Content(x)' = Content(x) /\ arr'[x] = arr[x]
    BY <1>1, <1>2, <1>4
  <2> QED
    BY <2>1 DEF Sized, Messy
<1> QED
  BY <1>3, <1>4

\* Each action keeps what the arrays know in step with what stands in them.
LEMMA SizedStep ==
    ASSUME LifeShape, Tree, Sized, [LifeNext]_lifeVars
    PROVE  Sized'
<1>1. LifeTypeOK /\ \A a \in Apps : CallOK(app[a])
  BY DEF LifeShape
<1>2. /\ Owner \in [Nodes -> Roots] /\ BindOf \in [Ins -> Binds]
      /\ Roots \cap (Binds \cup Ins \cup Outs) = {} /\ Binds \cap (Ins \cup Outs) = {} /\ Ins \cap Outs = {}
      /\ Roots \subseteq Nodes /\ Binds \subseteq Nodes /\ Ins \subseteq Nodes /\ Outs \subseteq Nodes
      /\ \A r \in Roots : Owner[r] = r
      /\ \A x \in Ins : Owner[x] = Owner[BindOf[x]]
  BY LifeAssumption DEF Nodes
<1>3. ASSUME UNCHANGED <<socks, conns, binds, arr>> PROVE Sized'
  BY <1>3 DEF Sized, Messy, Content
<1>4. ASSUME NEW r \in Roots, Socket(r) PROVE Sized'
  <2>1. /\ socks' = socks \cup {r} /\ arr' = [arr EXCEPT ![Socks] = Grown(SocksArray)]
        /\ UNCHANGED <<conns, binds>>
    BY <1>4 DEF Socket
  <2>2. SocksArray \in ArrType
    BY <1>1 DEF SocksArray, LifeTypeOK, ArrType, Fresh, Shapes, Arrays
  <2>3. Grown(SocksArray).last # 0
    BY <2>2, GrownTyped
  <2>4. \A x \in Arrays : /\ x = Socks => arr'[x].last # 0 /\ Content(x)' # {}
                          /\ x # Socks => arr'[x] = arr[x] /\ Content(x)' = Content(x)
    <3>1. \A x \in Arrays : arr'[x] = IF x = Socks THEN Grown(SocksArray) ELSE arr[x]
      BY <1>1, <2>1 DEF LifeTypeOK
    <3>2. \A x \in Arrays : IF x = Socks THEN Content(x)' # {} ELSE Content(x)' = Content(x)
      BY <2>1, ArraysAreNext
    <3> QED
      BY <2>3, <3>1, <3>2
  <2> QED
    BY <2>4 DEF Sized, Messy
<1>5. ASSUME NEW n \in Nodes, Attach(n) PROVE Sized'
  <2>1. /\ n \in Binds \cup Outs /\ InsertInto({Home(n)}) /\ socks' = socks
        /\ binds' = IF n \in Binds THEN [binds EXCEPT ![Owner[n]] = @ \cup {n}] ELSE binds
        /\ conns' = IF n \in Outs THEN [conns EXCEPT ![Owner[n]] = @ \cup {n}] ELSE conns
    BY <1>5 DEF Attach
  <2>2. PICK q \in Roots : q = Owner[n]
    BY <1>2
  <2>3. \A x \in Arrays : IF x \in {Home(n)} THEN Content(x)' # {} ELSE Content(x)' = Content(x)
    <3>1. CASE n \in Binds
      <4>1. /\ conns' = conns /\ \A r \in Roots : binds'[r] = IF r = q THEN binds[r] \cup {n} ELSE binds[r]
        BY <1>1, <1>2, <2>1, <2>2, <3>1 DEF LifeTypeOK
      <4>2. Home(n) = <<"binds", q>>
        BY <2>2, <3>1 DEF Home
      <4>3. \A x \in Arrays : x[1] = "binds" /\ x[2] = q <=> x = <<"binds", q>>
        BY DEF Arrays, Socks
      <4> SUFFICES ASSUME NEW x \in Arrays
                   PROVE  IF x \in {Home(n)} THEN Content(x)' # {} ELSE Content(x)' = Content(x)
        OBVIOUS
      <4>7. CASE x = Socks /\ x[1] = "socks" /\ Content(x) = socks /\ Content(x)' = socks'
        BY <2>1, <4>1, <4>2, <4>3, <4>7
      <4>8. CASE /\ x # Socks /\ x[1] = "conns" /\ x[2] \in Roots \cup Binds
                /\ Content(x) = conns[x[2]] /\ Content(x)' = conns'[x[2]]
        BY <2>1, <4>1, <4>2, <4>3, <4>8
      <4>9. CASE /\ x # Socks /\ x[1] = "binds" /\ x[2] \in Roots
                /\ Content(x) = binds[x[2]] /\ Content(x)' = binds'[x[2]]
        <5>1. x \in {Home(n)} <=> x[2] = q
          BY <4>2, <4>3, <4>9
        <5>2. CASE x[2] = q
          <6>1. n \in Content(x)'
            BY <4>1, <4>9, <5>2
          <6> QED
            BY <5>1, <5>2, <6>1
        <5>3. CASE ~(x[2] = q)
          BY <4>1, <4>9, <5>1, <5>3
        <5> QED
          BY <5>2, <5>3
      <4> QED
        BY <4>7, <4>8, <4>9, ArraysAreNext
    <3>2. CASE n \notin Binds
      <4>1. /\ binds' = binds
            /\ \A r \in Roots \cup Binds : conns'[r] = IF r = q THEN conns[r] \cup {n} ELSE conns[r]
        BY <1>1, <1>2, <2>1, <2>2, <3>2 DEF LifeTypeOK
      <4>2. Home(n) = <<"conns", q>>
        BY <2>2, <3>2 DEF Home
      <4>3. \A x \in Arrays : x[1] = "conns" /\ x[2] = q <=> x = <<"conns", q>>
        BY DEF Arrays, Socks
      <4> SUFFICES ASSUME NEW x \in Arrays
                   PROVE  IF x \in {Home(n)} THEN Content(x)' # {} ELSE Content(x)' = Content(x)
        OBVIOUS
      <4>7. CASE x = Socks /\ x[1] = "socks" /\ Content(x) = socks /\ Content(x)' = socks'
        BY <2>1, <4>1, <4>2, <4>3, <4>7
      <4>8. CASE /\ x # Socks /\ x[1] = "conns" /\ x[2] \in Roots \cup Binds
                /\ Content(x) = conns[x[2]] /\ Content(x)' = conns'[x[2]]
        <5>1. x \in {Home(n)} <=> x[2] = q
          BY <4>2, <4>3, <4>8
        <5>2. CASE x[2] = q
          BY <4>1, <4>8, <5>1, <5>2
        <5>3. CASE ~(x[2] = q)
          BY <4>1, <4>8, <5>1, <5>3
        <5> QED
          BY <5>2, <5>3
      <4>9. CASE /\ x # Socks /\ x[1] = "binds" /\ x[2] \in Roots
                /\ Content(x) = binds[x[2]] /\ Content(x)' = binds'[x[2]]
        BY <2>1, <4>1, <4>2, <4>3, <4>9
      <4> QED
        BY <4>7, <4>8, <4>9, ArraysAreNext
    <3> QED
      BY <3>1, <3>2
  <2> QED
    BY <1>1, <2>1, <2>3, SizedGrows
<1>6. ASSUME NEW t \in Threads, HandlerEnd(t) PROVE Sized'
  <2>1. PICK n \in running[t] : \/ UNCHANGED <<conns, arr>>
                                \/ \E c \in Ins : /\ BindOf[c] = n /\ conns' = Inserted(n, c)
                                                  /\ InsertInto({<<"conns", n>>, Home(c)})
    BY <1>6 DEF HandlerEnd
  <2>2. UNCHANGED <<socks, binds>>
    BY <1>6 DEF HandlerEnd
  <2>3. CASE UNCHANGED <<conns, arr>>
    BY <1>3, <2>2, <2>3
  <2>4. ASSUME NEW c \in Ins, BindOf[c] = n, conns' = Inserted(n, c), InsertInto({<<"conns", n>>, Home(c)})
        PROVE  Sized'
    <3>1. n \in Binds /\ Owner[c] = Owner[n] /\ Owner[n] \in Roots /\ c \notin Binds
      BY <1>2, <2>4
    <3>2. PICK q \in Roots : q = Owner[n]
      BY <3>1
    <3>3. n # q /\ conns' = [conns EXCEPT ![n] = conns[n] \cup {c}, ![q] = conns[q] \cup {c}]
      BY <1>1, <1>2, <2>4, <3>1, <3>2 DEF Inserted, LifeTypeOK
    <3>4. \A m \in Roots \cup Binds : conns'[m] = IF m = n \/ m = q THEN conns[m] \cup {c} ELSE conns[m]
      BY <1>1, <3>1, <3>3 DEF LifeTypeOK
    <3>5. Home(c) = <<"conns", q>>
      BY <3>1, <3>2 DEF Home
    <3>6. \A x \in Arrays : x \in {<<"conns", n>>, Home(c)} <=> x[1] = "conns" /\ (x[2] = n \/ x[2] = q)
      BY <3>5 DEF Arrays, Socks
    <3>7. \A x \in Arrays : IF x \in {<<"conns", n>>, Home(c)} THEN Content(x)' # {}
                            ELSE Content(x)' = Content(x)
      <4> SUFFICES ASSUME NEW x \in Arrays
                   PROVE  IF x \in {<<"conns", n>>, Home(c)} THEN Content(x)' # {} ELSE Content(x)' = Content(x)
        OBVIOUS
      <4>7. CASE x = Socks /\ x[1] = "socks" /\ Content(x) = socks /\ Content(x)' = socks'
        BY <2>2, <3>4, <3>6, <4>7
      <4>8. CASE /\ x # Socks /\ x[1] = "conns" /\ x[2] \in Roots \cup Binds
                /\ Content(x) = conns[x[2]] /\ Content(x)' = conns'[x[2]]
        <5>1. x \in {<<"conns", n>>, Home(c)} <=> (x[2] = n \/ x[2] = q)
          BY <3>6, <4>8
        <5>2. CASE (x[2] = n \/ x[2] = q)
          <6>2. conns'[x[2]] = conns[x[2]] \cup {c}
            BY <3>4, <4>8, <5>2
          <6>1. c \in Content(x)'
            BY <4>8, <6>2
          <6> QED
            BY <5>1, <5>2, <6>1
        <5>3. CASE ~((x[2] = n \/ x[2] = q))
          BY <3>4, <4>8, <5>1, <5>3
        <5> QED
          BY <5>2, <5>3
      <4>9. CASE /\ x # Socks /\ x[1] = "binds" /\ x[2] \in Roots
                /\ Content(x) = binds[x[2]] /\ Content(x)' = binds'[x[2]]
        BY <2>2, <3>4, <3>6, <4>9
      <4> QED
        BY <4>7, <4>8, <4>9, ArraysAreNext
    <3> QED
      BY <1>1, <2>4, <3>7, SizedGrows
  <2> QED
    BY <2>1, <2>3, <2>4
<1>7. ASSUME NEW a \in Apps, NEW r \in Roots, CloseDecide(a, r) PROVE Sized'
  <2>1. socks' = socks \ {r} /\ ClearOf(r) /\ UNCHANGED <<conns, binds>>
    BY <1>7 DEF CloseDecide
  <2>2. /\ \A m \in Roots \cup Binds : r \notin conns[m]
        /\ \A m \in Roots : r \notin binds[m]
    BY <1>1, <1>2 DEF LifeTypeOK
  <2>3. \A x \in Arrays : Content(x)' = Content(x) \ {r}
    BY <2>1, <2>2, ArraysAreNext
  <2> QED
    BY <1>1, <2>1, <2>3, SizedShrinks
<1>8. ASSUME NEW a \in Apps, FreeNode(a) PROVE Sized'
  <2>1. app[a].s \in Roots
    BY <1>1, <1>8 DEF FreeNode, CallOK
  <2>2. PICK r \in Roots : r = app[a].s
    BY <2>1
  <2>3. PICK n \in NextToFree(r) :
             ClearOf(n) /\ conns' = TakenOut(n) /\ binds' = [binds EXCEPT ![r] = @ \ {n}]
    BY <1>8, <2>2 DEF FreeNode
  <2>4. socks' = socks /\ n \in Nodes /\ Owner[n] = r
    BY <1>1, <1>8, <2>2, <2>3, FreesOwn DEF FreeNode
  <2>5. n \notin socks
    <3>1. r \notin socks
      BY <2>2 DEF Tree, Held, Closing
    <3>2. n \in Roots => n = r
      BY <1>2, <2>4
    <3> QED
      BY <1>1, <3>1, <3>2 DEF LifeTypeOK
  <2>6. \A m \in Roots \cup Binds : conns'[m] = conns[m] \ {n}
    BY <2>3 DEF TakenOut
  <2>7. \A m \in Roots : binds'[m] = binds[m] \ {n}
    <3>1. \A m \in Roots : m # r => n \notin binds[m]
      BY <2>4 DEF Tree, Members
    <3>2. \A m \in Roots : binds'[m] = IF m = r THEN binds[m] \ {n} ELSE binds[m]
      BY <1>1, <2>3 DEF LifeTypeOK
    <3> QED
      BY <3>1, <3>2
  <2>8. \A x \in Arrays : Content(x)' = Content(x) \ {n}
    BY <2>4, <2>5, <2>6, <2>7, ArraysAreNext
  <2> QED
    BY <1>1, <2>3, <2>8, SizedShrinks
<1>9. CASE UNCHANGED lifeVars
  BY <1>3, <1>9 DEF lifeVars
<1>10. ASSUME NEW n \in Nodes, Use(n) PROVE Sized'
  BY <1>3, <1>10 DEF Use
<1>11. ASSUME NEW t \in Threads, RunTask(t) PROVE Sized'
  BY <1>3, <1>11 DEF RunTask
<1>12. ASSUME NEW t \in Threads, NEW n \in Nodes, HandlerBegin(t, n) PROVE Sized'
  BY <1>3, <1>12 DEF HandlerBegin
<1>13. ASSUME NEW a \in Apps, JoinPush(a) PROVE Sized'
  BY <1>3, <1>13 DEF JoinPush
<1>14. ASSUME NEW a \in Apps, JoinWait(a) PROVE Sized'
  BY <1>3, <1>14 DEF JoinWait
<1>15. ASSUME NEW a \in Apps, GlobalEnd(a) PROVE Sized'
  BY <1>3, <1>15 DEF GlobalEnd
<1> QED
  BY <1>4, <1>5, <1>6, <1>7, <1>8, <1>9, <1>10, <1>11, <1>12, <1>13, <1>14, <1>15
  DEF LifeNext, CloseStep

-----------------------------------------------------------------------------
(* The workers, and the one call that stops them.                          *)

\* A worker that was joined.
Gone(t) == thread[t] = "none" /\ watch[t] = {} /\ jobs[t] = << >>

\* How far the call c that stops the workers has come.
Stage(c) ==
    /\ c.term => socks = {} /\ arr[Socks].last = 0 /\ ginit
    /\ c.term /\ c.pc = "free" => \A t \in Threads : thread[t] = "runs"
    /\ c.pc \in {"join", "wait"} => /\ \A t \in Threads : t < c.k => Gone(t)
                                    /\ \A t \in Threads : t > c.k => thread[t] = "runs"
    /\ c.pc = "join" /\ c.k < NThreads => thread[c.k] = "runs"
    /\ c.pc = "wait" => thread[c.k] \in {"runs", "ended"}

\* While nothing disturbs: handlers run for live structures, one call stops the
\* workers, and a worker has a stop only from the call that waits for it.
Quiet ==
    /\ \A t \in Threads : \A n \in running[t] : node[n] = "live"
    /\ \A a, b \in Apps : app[a].term /\ app[b].term => a = b
    /\ \A a \in Apps : Stage(app[a])
    /\ \A t \in Threads : \A i \in 1..Len(jobs[t]) : jobs[t][i] = <<"stop">> =>
          \E a \in Apps : app[a].pc = "wait" /\ app[a].k = t

\* Without a call that stops them the workers run while there are sockets, and
\* after the last only if its close did not find the array empty.
Matched ==
    ~Terminating =>
       /\ socks # {} => ginit
       /\ ginit /\ socks = {} => Messy(Socks)
       /\ \A t \in Threads : thread[t] = IF ginit THEN "runs" ELSE "none"
       /\ ~ginit => \A t \in Threads : watch[t] = {} /\ jobs[t] = << >>

Blamed == wrong => \E x \in Arrays : Messy(x)

LifeInv == LifeShape /\ Tree /\ Sized /\ (~disturbed => Blamed /\ Quiet /\ Matched)

\* While a call stops the workers no socket is open; a live structure that has
\* no open socket is being closed.
LEMMA AllClosing ==
    ASSUME LifeShape, Tree, socks = {}, NEW n \in Nodes, node[n] = "live"
    PROVE  Closing(Owner[n])
<1>1. Owner[n] \in Roots /\ node[Owner[n]] = "live"
  BY LifeAssumption DEF Tree, Rooted
<1> QED
  BY <1>1 DEF Tree, Held

\* With a socket open, or with none and no call that stops them, the state of
\* the workers is known.
LEMMA OpenMeansRunning ==
    ASSUME Quiet, Matched, socks # {}
    PROVE  ~Terminating /\ ginit /\ \A t \in Threads : thread[t] = "runs"
<1>1. ~Terminating
  BY DEF Quiet, Stage, Terminating
<1> QED
  BY <1>1 DEF Matched

\* Steps that leave the calls, the sockets, the workers' states, their watchers
\* and queues alone, but for workers that run.
LEMMA QuietStays ==
    ASSUME LifeShape, Quiet, Matched,
           UNCHANGED <<ginit, socks, thread, app>>, arr'[Socks] = arr[Socks],
           \A t \in Threads : thread[t] # "runs" => watch'[t] = watch[t] /\ jobs'[t] = jobs[t],
           \A t \in Threads : \A n \in running'[t] : node'[n] = "live",
           \A t \in Threads : \A i \in 1..Len(jobs'[t]) : jobs'[t][i] = <<"stop">> =>
              \E i2 \in 1..Len(jobs[t]) : jobs[t][i2] = <<"stop">>
    PROVE  Quiet' /\ Matched'
<1>1. \A t \in Threads : Gone(t) => Gone(t)'
  BY DEF Gone
<1>2. Terminating' <=> Terminating
  BY DEF Terminating
<1>3. \A a \in Apps : Stage(app[a])'
  BY <1>1 DEF Quiet, Stage
<1>4. Quiet'
  BY <1>3 DEF Quiet
<1>5. Matched'
  BY <1>2 DEF Matched, Messy
<1> QED
  BY <1>4, <1>5

\* A push of a task other than the stop adds no stop.
LEMMA PushNoStop ==
    ASSUME LifeShape, NEW u \in Threads, NEW task \in TasksOf(u), task # <<"stop">>, Push(u, task)
    PROVE  /\ \A t \in Threads : t # u => jobs'[t] = jobs[t]
           /\ \A t \in Threads : \A i \in 1..Len(jobs'[t]) : jobs'[t][i] = <<"stop">> =>
                 \E i2 \in 1..Len(jobs[t]) : jobs[t][i2] = <<"stop">>
<1>1. jobs' = [jobs EXCEPT ![u] = Append(jobs[u], task)] /\ jobs \in [Threads -> Seq(Tasks)]
  BY DEF Push, LifeShape, LifeTypeOK
<1>2. jobs[u] \in Seq(TasksOf(u))
  BY DEF LifeShape
<1>3. /\ Len(Append(jobs[u], task)) = Len(jobs[u]) + 1 /\ Len(jobs[u]) \in Nat
      /\ \A i \in 1..Len(jobs[u]) : Append(jobs[u], task)[i] = jobs[u][i]
      /\ Append(jobs[u], task)[Len(jobs[u]) + 1] = task
  BY <1>2, AppendProperties, LenProperties
<1>4. \A i \in 1..Len(jobs'[u]) : jobs'[u][i] = <<"stop">> => i \in 1..Len(jobs[u]) /\ jobs[u][i] = <<"stop">>
  <2>1. PICK q : q = Append(jobs[u], task)
    OBVIOUS
  <2>2. jobs'[u] = q
    BY <1>1, <2>1
  <2>3. /\ Len(q) = Len(jobs[u]) + 1 /\ Len(jobs[u]) \in Nat
        /\ \A i \in 1..Len(jobs[u]) : q[i] = jobs[u][i]
        /\ q[Len(jobs[u]) + 1] = task
    BY <1>3, <2>1
  <2>4. ASSUME NEW i \in 1..Len(q), q[i] = <<"stop">> PROVE i \in 1..Len(jobs[u]) /\ jobs[u][i] = <<"stop">>
    <3>1. i # Len(jobs[u]) + 1
      BY <2>3, <2>4
    <3>2. i \in 1..Len(jobs[u])
      BY <2>3, <3>1
    <3> QED
      BY <2>3, <2>4, <3>2
  <2> QED
    BY <2>2, <2>4
<1>5. \A t \in Threads : t # u => jobs'[t] = jobs[t]
  BY <1>1
<1> QED
  BY <1>4, <1>5

\* A structure that is freed while a worker is busy with its socket disturbs.
LEMMA BusyWith ==
    ASSUME NEW n \in Nodes, NEW r, Owner[n] = r, Pending("work", n) \/ n \in running[ThrOf[n]]
    PROVE  Busy(r)
  BY DEF Busy

\* An insert that fails its assertion leaves a messy array.
LEMMA InsertBlamed ==
    ASSUME LifeTypeOK, NEW X \in SUBSET Arrays, InsertInto(X), TRUE \in InsertFails(X)
    PROVE  \E x \in Arrays : Messy(x)'
<1>1. PICK x \in X : arr[x].shape \in {"full", "messy"}
  BY DEF InsertFails
<1>2. arr[x] \in ArrType /\ x \in Arrays
  BY DEF LifeTypeOK, ArrType
<1>3. arr'[x] = Grown(arr[x])
  BY <1>2, InsertTyped
<1>4. Grown(arr[x]).shape = "messy"
  BY <1>1, <1>2, GrownTyped
<1> QED
  BY <1>2, <1>3, <1>4 DEF Messy

\* As long as no close is disturbed, a step goes wrong only by a messy array, no
\* freed structure is reached and threads match sockets.
LEMMA QuietStep ==
    ASSUME LifeInv, [LifeNext]_lifeVars, ~disturbed', Sized'
    PROVE  Blamed' /\ Quiet' /\ Matched'
<1>1. /\ LifeShape /\ LifeTypeOK /\ Tree /\ Sized /\ (~disturbed => Blamed /\ Quiet /\ Matched)
      /\ \A a \in Apps : CallOK(app[a])
      /\ \A t \in Threads : jobs[t] \in Seq(TasksOf(t))
  BY DEF LifeInv, LifeShape
<1>2. /\ Owner \in [Nodes -> Roots] /\ BindOf \in [Ins -> Binds] /\ NThreads \in Nat
      /\ Roots \cap (Binds \cup Ins \cup Outs) = {} /\ Binds \cap (Ins \cup Outs) = {}
      /\ ThrOf \in [Nodes -> Threads] /\ Roots \subseteq Nodes /\ Ins \subseteq Nodes /\ Outs \subseteq Nodes
  BY LifeAssumption DEF Nodes
<1>15. ~wrong' => Blamed'
  BY DEF Blamed
<1>3. CASE UNCHANGED lifeVars
  <2>1. /\ ~disturbed /\ Blamed /\ Quiet /\ Matched
        /\ UNCHANGED <<ginit, socks, arr, thread, app, watch, jobs, running, node, wrong>>
    BY <1>1, <1>3 DEF lifeVars
  <2>2. Blamed'
    BY <2>1 DEF Blamed, Messy
  <2> QED
    BY <1>1, <2>1, <2>2, QuietStays DEF Quiet
<1>4. ASSUME NEW r \in Roots, Socket(r) PROVE Blamed' /\ Quiet' /\ Matched'
  <2>1. /\ ginit' = TRUE /\ thread' = [t \in Threads |-> Started(t)] /\ socks' = socks \cup {r}
        /\ node' = [node EXCEPT ![r] = "live"] /\ ~wrong /\ (disturbed' <=> disturbed \/ Terminating)
        /\ arr' = [arr EXCEPT ![Socks] = Grown(SocksArray)]
        /\ UNCHANGED <<watch, jobs, running, app>>
    BY <1>4 DEF Socket
  <2>9. Blamed'
    <3> SUFFICES ASSUME wrong' PROVE Messy(Socks)'
      BY ArraysAre DEF Blamed
    <3>1. ginit /\ arr[Socks].shape \in {"full", "messy"}
      BY <1>4 DEF Socket, InsertFails
    <3>2. arr[Socks] \in ArrType /\ Socks \in Arrays
      BY <1>1, ArraysAre DEF LifeTypeOK, ArrType
    <3>3. Grown(arr[Socks]).shape = "messy"
      BY <3>1, <3>2, GrownTyped
    <3> QED
      BY <1>1, <2>1, <3>1, <3>2, <3>3 DEF Messy, SocksArray, LifeTypeOK
  <2>2. ~disturbed /\ ~Terminating /\ Quiet /\ Matched
    BY <1>1, <2>1
  <2>3. \A t \in Threads : thread'[t] = "runs"
    BY <2>1, <2>2 DEF Started, Matched
  <2>4. ~Terminating' /\ \A a \in Apps : ~app'[a].term
    BY <2>1, <2>2 DEF Terminating
  <2>5. \A a \in Apps : Stage(app[a])'
    BY <1>1, <2>1, <2>4 DEF Stage, CallOK
  <2>6. \A t \in Threads : \A n \in running'[t] : node'[n] = "live"
    <3>1. \A t \in Threads : running[t] \subseteq Nodes
      BY <1>1 DEF LifeTypeOK
    <3> QED
      BY <1>1, <2>1, <2>2, <3>1 DEF Quiet, LifeTypeOK
  <2>7. Quiet'
    BY <2>1, <2>2, <2>4, <2>5, <2>6 DEF Quiet
  <2>8. Matched'
    BY <2>1, <2>3 DEF Matched
  <2> QED
    BY <2>7, <2>8, <2>9
<1>5. ASSUME NEW n \in Nodes, Attach(n) PROVE Blamed' /\ Quiet' /\ Matched'
  <2>1. /\ n \in Binds \cup Outs /\ Owner[n] \in socks /\ node' = [node EXCEPT ![n] = "live"]
        /\ InsertInto({Home(n)}) /\ Push(ThrOf[n], <<"start", n>>)
        /\ \E e \in InsertFails({Home(n)}) : wrong' = (e \/ thread[ThrOf[n]] = "none")
        /\ UNCHANGED <<ginit, socks, watch, running, thread, app, disturbed>>
    BY <1>5 DEF Attach
  <2>10. arr'[Socks] = arr[Socks] /\ Home(n) \in Arrays
    <3>1. Home(n) \in Arrays /\ Home(n) # Socks
      BY <1>2 DEF Home, Arrays, Socks
    <3> QED
      BY <1>1, <2>1, <3>1, InsertTyped, ArraysAre
  <2>2. ~disturbed /\ Quiet /\ Matched
    BY <1>1, <2>1
  <2>3. \A t \in Threads : thread[t] = "runs"
    BY <2>1, <2>2, OpenMeansRunning
  <2>4. ThrOf[n] \in Threads /\ n \notin Roots
    BY <1>2, <2>1
  <2>5. <<"start", n>> \in TasksOf(ThrOf[n]) /\ <<"start", n>> # <<"stop">>
    BY <2>4 DEF TasksOf
  <2>6. \A t \in Threads : \A i \in 1..Len(jobs'[t]) : jobs'[t][i] = <<"stop">> =>
            \E i2 \in 1..Len(jobs[t]) : jobs[t][i2] = <<"stop">>
    BY <1>1, <2>1, <2>4, <2>5, PushNoStop
  <2>7. \A t \in Threads : \A x \in running'[t] : node'[x] = "live"
    <3>1. \A t \in Threads : running[t] \subseteq Nodes
      BY <1>1 DEF LifeTypeOK
    <3> QED
      BY <1>1, <2>1, <2>2, <3>1 DEF Quiet, LifeTypeOK
  <2>8. Quiet' /\ Matched'
    BY <1>1, <2>1, <2>2, <2>3, <2>6, <2>7, <2>10, QuietStays
  <2>9. Blamed'
    <3>1. PICK e \in InsertFails({Home(n)}) : wrong' = (e \/ thread[ThrOf[n]] = "none")
      BY <2>1
    <3>2. wrong' => e
      BY <2>3, <2>4, <3>1
    <3> QED
      BY <1>1, <2>1, <2>10, <3>1, <3>2, InsertBlamed DEF Blamed
  <2> QED
    BY <2>8, <2>9
<1>6. ASSUME NEW n \in Nodes, Use(n) PROVE Blamed' /\ Quiet' /\ Matched'
  <2>1. /\ n \in Ins \cup Outs /\ thread[ThrOf[n]] = "runs" /\ Push(ThrOf[n], <<"work", n>>) /\ ~wrong
        /\ UNCHANGED <<ginit, socks, arr, node, watch, running, thread, app, wrong, disturbed>>
    BY <1>6 DEF Use
  <2>2. ~disturbed /\ Quiet /\ Matched
    BY <1>1, <2>1
  <2>3. ThrOf[n] \in Threads /\ n \notin Roots
    BY <1>2, <2>1
  <2>4. <<"work", n>> \in TasksOf(ThrOf[n]) /\ <<"work", n>> # <<"stop">>
    BY <2>3 DEF TasksOf
  <2>5. /\ \A t \in Threads : t # ThrOf[n] => jobs'[t] = jobs[t]
        /\ \A t \in Threads : \A i \in 1..Len(jobs'[t]) : jobs'[t][i] = <<"stop">> =>
              \E i2 \in 1..Len(jobs[t]) : jobs[t][i2] = <<"stop">>
    BY <1>1, <2>1, <2>3, <2>4, PushNoStop
  <2>6. \A t \in Threads : \A x \in running'[t] : node'[x] = "live"
    BY <2>1, <2>2 DEF Quiet
  <2>7. \A t \in Threads : thread[t] # "runs" => watch'[t] = watch[t] /\ jobs'[t] = jobs[t]
    BY <2>1, <2>5
  <2>8. Quiet' /\ Matched'
    BY <1>1, <2>1, <2>2, <2>5, <2>6, <2>7, QuietStays
  <2> QED
    BY <1>15, <2>1, <2>8
<1>7. ASSUME NEW t \in Threads, RunTask(t) PROVE Blamed' /\ Quiet' /\ Matched'
  <2>1. /\ ~wrong /\ thread[t] = "runs" /\ jobs[t] # << >>
        /\ UNCHANGED <<ginit, socks, node, conns, binds, arr, fd, running, app>>
    BY <1>7 DEF RunTask
  <2>2. PICK task \in TasksOf(t) : task = Head(jobs[t])
    BY <1>1, <2>1, HeadTailProperties
  <2>3. CASE task = <<"stop">>
    <3>1. /\ thread' = [thread EXCEPT ![t] = "ended"] /\ jobs' = [jobs EXCEPT ![t] = << >>]
          /\ UNCHANGED <<watch, wrong, disturbed>>
      BY <1>7, <2>2, <2>3 DEF RunTask
    <3>2. ~disturbed /\ Quiet /\ Matched
      BY <1>1, <3>1
    <3>3. PICK a \in Apps : app[a].pc = "wait" /\ app[a].k = t
      <4>1. 1 \in 1..Len(jobs[t]) /\ jobs[t][1] = <<"stop">>
        BY <1>1, <2>1, <2>2, <2>3, LenProperties, EmptySeq
      <4> QED
        BY <3>2, <4>1 DEF Quiet
    <3>4. app[a].term /\ Terminating /\ Terminating'
      BY <1>1, <2>1, <3>3 DEF CallOK, Terminating
    <3>5. /\ thread'[t] = "ended" /\ jobs'[t] = << >>
          /\ \A u \in Threads : u # t => thread'[u] = thread[u] /\ jobs'[u] = jobs[u]
      BY <1>1, <3>1 DEF LifeTypeOK
    <3>6. \A u \in Threads : Gone(u) => Gone(u)'
      BY <2>1, <3>1, <3>5 DEF Gone
    <3>7. \A x \in Apps : Stage(app[x])'
      <4>1. ASSUME NEW x \in Apps PROVE Stage(app[x])'
        <5>1. CASE x = a
          <6>1. /\ socks' = {} /\ arr'[Socks].last = 0 /\ ginit' /\ \A u \in Threads : u < t => Gone(u)
                /\ \A u \in Threads : u > t => thread[u] = "runs"
            BY <2>1, <3>2, <3>3, <3>4 DEF Quiet, Stage
          <6>2. \A u \in Threads : u > t => u # t
            BY <1>2 DEF Threads
          <6>3. /\ \A u \in Threads : u < t => Gone(u)'
                /\ \A u \in Threads : u > t => thread'[u] = "runs"
            BY <3>5, <3>6, <6>1, <6>2
          <6>4. app'[x].pc = "wait" /\ app'[x].k = t /\ thread'[t] = "ended"
            BY <2>1, <3>3, <3>5, <5>1
          <6> QED
            BY <6>1, <6>3, <6>4 DEF Stage
        <5>2. CASE x # a
          <6>1. ~app[x].term /\ app[x].pc \notin {"join", "wait"}
            BY <1>1, <3>2, <3>4, <5>2 DEF Quiet, CallOK
          <6> QED
            BY <2>1, <6>1 DEF Stage
        <5> QED
          BY <5>1, <5>2
      <4> QED
        BY <4>1
    <3>8. \A u \in Threads : \A i \in 1..Len(jobs'[u]) : jobs'[u][i] = <<"stop">> =>
              \E y \in Apps : app'[y].pc = "wait" /\ app'[y].k = u
      BY <2>1, <3>2, <3>3, <3>5 DEF Quiet
    <3>9. Quiet'
      BY <2>1, <3>2, <3>7, <3>8 DEF Quiet
    <3> QED
      BY <1>15, <2>1, <3>1, <3>4, <3>9 DEF Matched
  <2>4. CASE task # <<"stop">>
    <3>1. PICK n \in Nodes \ Roots : n = task[2] /\ ThrOf[n] = t
      BY <2>2, <2>4, TaskIs
    <3>2. /\ jobs' = [jobs EXCEPT ![t] = Tail(jobs[t])] /\ UNCHANGED thread
          /\ \A u \in Threads : u # t => watch'[u] = watch[u]
      BY <1>1, <1>7, <2>2, <2>4, <3>1 DEF RunTask, LifeTypeOK
    <3>3. /\ (wrong' <=> node[n] = "freed" \/ (task[1] = "start" /\ Reused(t, fd[n])))
          /\ (disturbed' <=> disturbed \/ Closing(Owner[n]) \/ node[n] = "freed"
                             \/ (task[1] = "start" /\ Reused(t, fd[n])))
      BY <1>7, <2>2, <2>4, <3>1 DEF RunTask
    <3>4. ~wrong' /\ ~disturbed /\ Quiet /\ Matched
      BY <1>1, <3>3
    <3>5. \A u \in Threads : thread[u] # "runs" => watch'[u] = watch[u] /\ jobs'[u] = jobs[u]
      BY <1>1, <2>1, <3>2 DEF LifeTypeOK
    <3>6. \A u \in Threads : \A i \in 1..Len(jobs'[u]) : jobs'[u][i] = <<"stop">> =>
              \E i2 \in 1..Len(jobs[u]) : jobs[u][i2] = <<"stop">>
      <4>1. PICK q : q = Tail(jobs[t])
        OBVIOUS
      <4>2. /\ Len(q) = Len(jobs[t]) - 1 /\ Len(jobs[t]) \in Nat
            /\ \A i \in 1..Len(q) : q[i] = jobs[t][i + 1]
        BY <1>1, <2>1, <4>1, HeadTailProperties, LenProperties
      <4>3. \A i \in 1..Len(q) : i + 1 \in 1..Len(jobs[t]) /\ q[i] = jobs[t][i + 1]
        BY <4>2
      <4>4. jobs'[t] = q /\ \A u \in Threads : u # t => jobs'[u] = jobs[u]
        BY <1>1, <3>2, <4>1 DEF LifeTypeOK
      <4> QED
        BY <4>3, <4>4
    <3>7. \A u \in Threads : \A x \in running'[u] : node'[x] = "live"
      BY <2>1, <3>4 DEF Quiet
    <3>8. Quiet' /\ Matched'
      BY <1>1, <2>1, <3>2, <3>4, <3>5, <3>6, <3>7, QuietStays
    <3> QED
      BY <1>15, <3>4, <3>8
  <2> QED
    BY <2>3, <2>4
<1>8. ASSUME NEW t \in Threads, NEW n \in Nodes, HandlerBegin(t, n) PROVE Blamed' /\ Quiet' /\ Matched'
  <2>1. /\ ~wrong /\ node[n] = "live" /\ running' = [running EXCEPT ![t] = {n}]
        /\ (disturbed' <=> disturbed \/ Closing(Owner[n]))
        /\ UNCHANGED <<ginit, socks, arr, node, watch, jobs, thread, app, wrong>>
    BY <1>8 DEF HandlerBegin
  <2>2. ~disturbed /\ Quiet /\ Matched
    BY <1>1, <2>1
  <2>3. \A u \in Threads : \A x \in running'[u] : node'[x] = "live"
    BY <1>1, <2>1, <2>2 DEF Quiet, LifeTypeOK
  <2>4. Quiet' /\ Matched'
    BY <1>1, <2>1, <2>2, <2>3, QuietStays
  <2> QED
    BY <1>15, <2>1, <2>4
<1>9. ASSUME NEW t \in Threads, HandlerEnd(t) PROVE Blamed' /\ Quiet' /\ Matched'
  <2>1. PICK n \in running[t] :
            /\ (disturbed' <=> disturbed \/ Closing(Owner[n]))
            /\ \/ UNCHANGED <<node, conns, arr, fd, jobs>> /\ wrong' = (node[n] = "freed")
               \/ \E c \in Ins :
                     /\ BindOf[c] = n /\ node[n] = "live" /\ node[c] = "none"
                     /\ Opens(c) /\ node' = [node EXCEPT ![c] = "live"]
                     /\ conns' = Inserted(n, c) /\ Push(ThrOf[c], <<"start", c>>)
                     /\ InsertInto({<<"conns", n>>, Home(c)})
                     /\ \E e \in InsertFails({<<"conns", n>>, Home(c)}) :
                           wrong' = (e \/ thread[ThrOf[c]] = "none")
    BY <1>9 DEF HandlerEnd
  <2>2. running' = [running EXCEPT ![t] = {}] /\ UNCHANGED <<ginit, socks, binds, watch, thread, app>>
    BY <1>9 DEF HandlerEnd
  <2>3. ~disturbed /\ ~Closing(Owner[n]) /\ Quiet /\ Matched
    BY <1>1, <2>1
  <2>4. n \in Nodes /\ node[n] = "live"
    BY <1>1, <2>1, <2>3 DEF Quiet, LifeTypeOK
  <2>5. socks # {}
    BY <1>1, <2>3, <2>4, AllClosing
  <2>6. \A u \in Threads : thread[u] = "runs"
    BY <2>3, <2>5, OpenMeansRunning
  <2>7. CASE UNCHANGED <<node, conns, arr, fd, jobs>> /\ wrong' = (node[n] = "freed")
    <3>1. \A u \in Threads : \A x \in running'[u] : node'[x] = "live"
      BY <1>1, <2>2, <2>3, <2>7 DEF Quiet, LifeTypeOK
    <3>2. Quiet' /\ Matched'
      BY <1>1, <2>2, <2>3, <2>6, <2>7, <3>1, QuietStays
    <3> QED
      BY <1>15, <2>4, <2>7, <3>2
  <2>8. ASSUME NEW c \in Ins, BindOf[c] = n, node' = [node EXCEPT ![c] = "live"],
               Push(ThrOf[c], <<"start", c>>), InsertInto({<<"conns", n>>, Home(c)}),
               NEW e \in InsertFails({<<"conns", n>>, Home(c)}), wrong' = (e \/ thread[ThrOf[c]] = "none")
        PROVE  Blamed' /\ Quiet' /\ Matched'
    <3>1. c \in Nodes \ Roots /\ ThrOf[c] \in Threads
      BY <1>2
    <3>2. <<"start", c>> \in TasksOf(ThrOf[c]) /\ <<"start", c>> # <<"stop">>
      BY <3>1 DEF TasksOf
    <3>3. \A u \in Threads : \A i \in 1..Len(jobs'[u]) : jobs'[u][i] = <<"stop">> =>
              \E i2 \in 1..Len(jobs[u]) : jobs[u][i2] = <<"stop">>
      BY <1>1, <2>8, <3>1, <3>2, PushNoStop
    <3>4. \A u \in Threads : \A x \in running'[u] : node'[x] = "live"
      <4>1. \A u \in Threads : running'[u] \subseteq running[u] /\ running[u] \subseteq Nodes
        BY <1>1, <2>2 DEF LifeTypeOK
      <4> QED
        BY <1>1, <2>3, <2>8, <4>1 DEF Quiet, LifeTypeOK
    <3>6. {<<"conns", n>>, Home(c)} \subseteq Arrays /\ Socks \notin {<<"conns", n>>, Home(c)}
      <4>1. n \in Binds /\ Owner[c] \in Roots /\ c \notin Binds
        BY <1>2, <2>8, <3>1
      <4> QED
        BY <4>1 DEF Home, Arrays, Socks
    <3>7. arr'[Socks] = arr[Socks]
      BY <1>1, <2>8, <3>6, InsertTyped, ArraysAre
    <3>5. Quiet' /\ Matched'
      BY <1>1, <2>2, <2>3, <2>6, <3>3, <3>4, <3>7, QuietStays
    <3>8. Blamed'
      <4>1. wrong' => e
        BY <2>6, <2>8, <3>1
      <4> QED
        BY <1>1, <2>8, <3>6, <4>1, InsertBlamed DEF Blamed
    <3> QED
      BY <3>5, <3>8
  <2> QED
    BY <2>1, <2>7, <2>8
<1>10. ASSUME NEW a \in Apps, NEW r \in Roots, CloseDecide(a, r) PROVE Blamed' /\ Quiet' /\ Matched'
  <2>1. /\ ~wrong /\ r \in socks /\ socks' = socks \ {r} /\ app[a].pc = "idle"
        /\ UNCHANGED <<ginit, node, watch, jobs, running, thread, wrong, disturbed>>
    BY <1>10 DEF CloseDecide
  <2>2. PICK b \in BOOLEAN : /\ app' = [app EXCEPT ![a] = [pc |-> "free", s |-> r, k |-> 0, term |-> b]]
                             /\ b <=> arr'[Socks].last = 0
    BY <1>10, <2>1, Zenon DEF CloseDecide, LastSocket
  <2>12. (b => socks' = {}) /\ (~b /\ socks' = {} => Messy(Socks)')
    <3>1. Socks \in Arrays /\ Content(Socks)' = socks'
      BY ArraysAre DEF Content, Socks
    <3>2. (arr'[Socks].last = 0 => socks' = {}) /\ (arr'[Socks].last # 0 /\ socks' = {} => Messy(Socks)')
      BY <3>1 DEF Sized
    <3> QED
      BY <2>2, <3>2
  <2>3. ~disturbed /\ Quiet /\ Matched /\ ~Terminating /\ ginit /\ \A t \in Threads : thread[t] = "runs"
    BY <1>1, <2>1, OpenMeansRunning
  <2>4. /\ app'[a].pc = "free" /\ (app'[a].term <=> b) /\ app'[a].k = 0
        /\ \A x \in Apps : x # a => app'[x] = app[x]
    BY <1>1, <2>2 DEF LifeTypeOK
  <2>5. \A x \in Apps : x # a => ~app'[x].term /\ app'[x].pc \notin {"join", "wait"}
    BY <1>1, <2>3, <2>4 DEF Terminating, CallOK
  <2>6. \A x \in Apps : Stage(app[x])'
    BY <2>1, <2>2, <2>3, <2>4, <2>5, <2>12 DEF Stage
  <2>7. \A x, y \in Apps : app'[x].term /\ app'[y].term => x = y
    BY <2>5
  <2>8. \A u \in Threads : \A i \in 1..Len(jobs'[u]) : jobs'[u][i] # <<"stop">>
    <3>1. \A x \in Apps : app[x].pc # "wait"
      BY <1>1, <2>3 DEF Terminating, CallOK
    <3> QED
      BY <2>1, <2>3, <3>1 DEF Quiet
  <2>9. \A u \in Threads : \A x \in running'[u] : node'[x] = "live"
    BY <2>1, <2>3 DEF Quiet
  <2>10. Quiet'
    BY <2>6, <2>7, <2>8, <2>9 DEF Quiet
  <2>11. Matched'
    <3>1. ~Terminating' /\ socks' = {} => Messy(Socks)'
      BY <2>2, <2>4, <2>12 DEF Terminating
    <3> QED
      BY <2>1, <2>3, <3>1 DEF Matched
  <2> QED
    BY <1>15, <2>1, <2>10, <2>11
<1>11. ASSUME NEW a \in Apps, FreeNode(a) PROVE Blamed' /\ Quiet' /\ Matched'
  <2>1. ~wrong /\ app[a].pc = "free" /\ app[a].s \in Roots /\ app[a].k = 0 /\ app[a] \in CallType
    BY <1>1, <1>11 DEF FreeNode, CallOK, LifeTypeOK, CallType
  <2>2. PICK r \in Roots : r = app[a].s
    BY <2>1
  <2>3. PICK n \in NextToFree(r) :
             /\ ClearOf(n)
             /\ \E e \in WalkFails(n) :
                   wrong' = \/ e \/ node[n] = "freed" \/ Pending("work", n)
                            \/ NotEmptied(n) \/ n \in running[ThrOf[n]]
             /\ node' = [node EXCEPT ![n] = "freed"]
             /\ app' = IF n # r THEN app
                       ELSE IF app[a].term /\ ginit
                       THEN [app EXCEPT ![a].s = NoRoot, ![a].pc = "join"]
                       ELSE [app EXCEPT ![a] = NoCall]
    BY <1>11, <2>2 DEF FreeNode
  <2>4. /\ (disturbed' <=> disturbed \/ Busy(r))
        /\ UNCHANGED <<ginit, socks, watch, jobs, running, thread>>
    BY <1>11, <2>2 DEF FreeNode
  <2>5. ~disturbed /\ ~Busy(r) /\ Quiet /\ Matched
    BY <1>1, <2>4
  <2>6. n \in Nodes /\ Owner[n] = r /\ node[n] = "live"
    BY <1>1, <2>1, <2>2, <2>3, FreesOwn
  <2>7. ~Pending("work", n) /\ n \notin running[ThrOf[n]]
    BY <2>5, <2>6, BusyWith
  <2>8. (n \in Roots \cup Binds => conns[n] = {}) /\ (n \in Roots => binds[n] = {})
    <3>1. \/ n = r /\ binds[r] = {} /\ conns[r] = {}
          \/ n \in conns[r] /\ n \in Ins \cup Outs
          \/ n \in binds[r] /\ n \in Binds /\ conns[n] = {}
          \/ \E b \in binds[r] : b \in Binds /\ n \in conns[b] /\ n \in Ins \cup Outs
      BY <1>1, <2>3, NextToFreeIs
    <3> QED
      BY <1>2, <3>1
  <2>13. \A x \in Arrays : n \notin Content(x) => arr'[x] = arr[x]
    BY <1>1, <2>3, ClearTyped
  <2>9. Blamed'
    <3> SUFFICES ASSUME wrong' PROVE \E x \in Arrays : Messy(x)'
      BY DEF Blamed
    <3>1. PICK e \in WalkFails(n) : \/ e \/ node[n] = "freed" \/ Pending("work", n)
                                    \/ NotEmptied(n) \/ n \in running[ThrOf[n]]
      BY <2>3
    <3>2. CASE e
      <4>1. PICK x \in Holding(n) : Messy(x)'
        BY <3>1, <3>2 DEF WalkFails
      <4> QED
        BY <4>1 DEF Holding
    <3>3. CASE NotEmptied(n)
      <4>1. PICK x \in Arrays : x[1] # "socks" /\ x[2] = n /\ arr[x].last # 0
        BY <3>3 DEF NotEmptied
      <4>2. Content(x) = {}
        BY <2>8, <4>1, ArraysAre
      <4>3. Messy(x) /\ arr'[x] = arr[x]
        BY <1>1, <2>13, <4>1, <4>2 DEF Sized
      <4> QED
        BY <4>3 DEF Messy
    <3> QED
      BY <2>6, <2>7, <3>1, <3>2, <3>3
  <2>14. arr'[Socks] = arr[Socks]
    <3>1. r \notin socks /\ socks \subseteq Roots
      BY <1>1, <2>2 DEF Tree, Held, Closing, LifeTypeOK
    <3>2. n \in Roots => n = r
      BY <2>6, LifeAssumption
    <3> QED
      BY <2>13, <3>1, <3>2, ArraysAre
  <2>10. \A t \in Threads : \A x \in running'[t] : node'[x] = "live"
    <3> SUFFICES ASSUME NEW t \in Threads, NEW x \in running[t] PROVE node'[x] = "live"
      BY <2>4
    <3>1. x \in Nodes /\ ThrOf[x] = t /\ node[x] = "live"
      BY <1>1, <2>5 DEF LifeShape, LifeTypeOK, Quiet
    <3>2. x # n
      BY <2>7, <3>1
    <3> QED
      BY <1>1, <2>3, <2>6, <3>1, <3>2 DEF LifeTypeOK
  <2>11. CASE n # r
    <3>1. app' = app
      BY <2>3, <2>11
    <3> QED
      BY <1>1, <2>4, <2>5, <2>9, <2>10, <2>14, <3>1, QuietStays
  <2>12. CASE n = r
    <3>1. /\ (app[a].term => app'[a].term /\ app'[a].pc = "join" /\ app'[a].k = 0)
          /\ (~app[a].term => ~app'[a].term /\ app'[a].pc = "idle" /\ app'[a].k = 0)
          /\ \A x \in Apps : x # a => app'[x] = app[x]
      <4>1. app[a].term => ginit
        BY <2>5 DEF Quiet, Stage
      <4>2. CASE app[a].term
        <5>1. app' = [app EXCEPT ![a].s = NoRoot, ![a].pc = "join"]
          BY <2>3, <2>12, <4>1, <4>2
        <5> QED
          BY <1>1, <2>1, <4>2, <5>1 DEF LifeTypeOK
      <4>3. CASE ~app[a].term
        <5>1. app' = [app EXCEPT ![a] = NoCall]
          BY <2>3, <2>12, <4>3
        <5> QED
          BY <1>1, <2>1, <4>3, <5>1 DEF LifeTypeOK, NoCall
      <4> QED
        BY <4>2, <4>3
    <3>2. Terminating' <=> Terminating
      BY <3>1 DEF Terminating
    <3>3. \A t \in Threads : Gone(t)' <=> Gone(t)
      BY <2>4 DEF Gone
    <3>4. ASSUME NEW x \in Apps PROVE Stage(app[x])'
      <4>1. CASE x # a
        BY <2>4, <2>5, <2>14, <3>1, <3>3, <4>1 DEF Quiet, Stage
      <4>2. CASE x = a /\ ~app[a].term
        BY <2>4, <3>1, <4>2 DEF Stage
      <4>3. CASE x = a /\ app[a].term
        <5>1. socks = {} /\ arr[Socks].last = 0 /\ ginit /\ \A t \in Threads : thread[t] = "runs"
          BY <2>1, <2>5, <4>3 DEF Quiet, Stage
        <5>2. \A t \in Threads : ~(t < 0)
          BY <1>2 DEF Threads
        <5>3. NThreads > 0 => 0 \in Threads
          BY <1>2 DEF Threads
        <5> QED
          BY <1>2, <2>4, <2>14, <3>1, <4>3, <5>1, <5>2, <5>3 DEF Stage
      <4> QED
        BY <4>1, <4>2, <4>3
    <3>5. \A x, y \in Apps : app'[x].term /\ app'[y].term => x = y
      BY <2>5, <3>1 DEF Quiet
    <3>6. \A u \in Threads : \A i \in 1..Len(jobs'[u]) : jobs'[u][i] = <<"stop">> =>
              \E y \in Apps : app'[y].pc = "wait" /\ app'[y].k = u
      <4>1. \A y \in Apps : app[y].pc = "wait" => app'[y] = app[y]
        BY <2>1, <3>1
      <4> QED
        BY <2>4, <2>5, <4>1 DEF Quiet
    <3>7. Quiet'
      BY <2>10, <3>4, <3>5, <3>6 DEF Quiet
    <3>8. Matched'
      BY <2>4, <2>5, <2>14, <3>2 DEF Matched, Messy
    <3> QED
      BY <2>9, <3>7, <3>8
  <2> QED
    BY <2>11, <2>12
<1>12. ASSUME NEW a \in Apps, JoinPush(a) PROVE Blamed' /\ Quiet' /\ Matched'
  <2>1. /\ app[a].pc = "join" /\ app[a].k < NThreads /\ PushStop(app[a].k)
        /\ (wrong' <=> \/ thread[app[a].k] # "runs"
                       \/ \E b \in Apps : app[b].pc = "wait" /\ app[b].k = app[a].k)
        /\ app' = [app EXCEPT ![a].pc = "wait"]
        /\ UNCHANGED <<ginit, socks, arr, node, watch, running, thread, disturbed>>
    BY <1>12 DEF JoinPush
  <2>2. ~disturbed /\ Quiet /\ Matched
    BY <1>1, <2>1
  <2>3. PICK u \in Threads : u = app[a].k
    BY <1>1, <1>2, <2>1 DEF LifeTypeOK, Threads
  <2>4. app[a].term /\ thread[u] = "runs" /\ \A x \in Apps : x # a => ~app[x].term /\ app[x].pc \notin {"join", "wait"}
    BY <1>1, <2>1, <2>2, <2>3 DEF Quiet, Stage, CallOK
  <2>5. ~wrong'
    BY <2>1, <2>3, <2>4
  <2>6. /\ app'[a].pc = "wait" /\ app'[a].term /\ app'[a].k = u /\ \A x \in Apps : x # a => app'[x] = app[x]
    BY <1>1, <2>1, <2>3, <2>4 DEF LifeTypeOK
  <2>7. \A t \in Threads : t # u => jobs'[t] = jobs[t]
    BY <1>1, <2>1, <2>3 DEF PushStop, Push, LifeTypeOK
  <2>8. Terminating'
    BY <2>6 DEF Terminating
  <2>9. ASSUME NEW x \in Apps PROVE Stage(app[x])'
    <3>1. CASE x # a
      BY <2>4, <2>6, <3>1 DEF Stage
    <3>2. CASE x = a
      <4>1. /\ socks = {} /\ arr[Socks].last = 0 /\ ginit /\ \A t \in Threads : t > u => thread[t] = "runs"
            /\ \A t \in Threads : t < u => Gone(t)
        BY <2>1, <2>2, <2>3, <2>4 DEF Quiet, Stage
      <4>2. \A t \in Threads : t < u => Gone(t)'
        BY <1>2, <2>1, <2>7, <4>1 DEF Gone, Threads
      <4> QED
        BY <2>1, <2>4, <2>6, <3>2, <4>1, <4>2 DEF Stage
    <3> QED
      BY <3>1, <3>2
  <2>10. \A t \in Threads : \A i \in 1..Len(jobs'[t]) : jobs'[t][i] = <<"stop">> =>
             \E y \in Apps : app'[y].pc = "wait" /\ app'[y].k = t
    <3>1. ASSUME NEW t \in Threads, NEW i \in 1..Len(jobs'[t]), jobs'[t][i] = <<"stop">>
          PROVE  \E y \in Apps : app'[y].pc = "wait" /\ app'[y].k = t
      <4>1. CASE t = u
        BY <2>6, <4>1
      <4>2. CASE t # u
        BY <2>1, <2>2, <2>4, <2>6, <2>7, <3>1, <4>2 DEF Quiet
      <4> QED
        BY <4>1, <4>2
    <3> QED
      BY <3>1
  <2>11. /\ \A x, y \in Apps : app'[x].term /\ app'[y].term => x = y
         /\ \A t \in Threads : \A x \in running'[t] : node'[x] = "live"
    BY <2>1, <2>2, <2>4, <2>6 DEF Quiet
  <2>12. Quiet'
    BY <2>9, <2>10, <2>11 DEF Quiet
  <2> QED
    BY <1>15, <2>5, <2>8, <2>12 DEF Matched
<1>13. ASSUME NEW a \in Apps, JoinWait(a) PROVE Blamed' /\ Quiet' /\ Matched'
  <2>1. /\ ~wrong /\ app[a].pc = "wait" /\ thread' = [thread EXCEPT ![app[a].k] = "none"]
        /\ watch' = [watch EXCEPT ![app[a].k] = {}] /\ jobs' = [jobs EXCEPT ![app[a].k] = << >>]
        /\ app' = [app EXCEPT ![a].pc = "join", ![a].k = @ + 1]
        /\ UNCHANGED <<ginit, socks, arr, node, running, wrong, disturbed>>
    BY <1>13 DEF JoinWait
  <2>2. ~disturbed /\ Quiet /\ Matched
    BY <1>1, <2>1
  <2>3. PICK u \in Threads : u = app[a].k
    BY <1>1, <1>2, <2>1 DEF LifeTypeOK, CallOK, Threads
  <2>4. app[a].term /\ \A x \in Apps : x # a => ~app[x].term /\ app[x].pc \notin {"join", "wait"}
    BY <1>1, <2>1, <2>2 DEF Quiet, CallOK
  <2>5. /\ app'[a].pc = "join" /\ app'[a].term /\ app'[a].k = u + 1 /\ \A x \in Apps : x # a => app'[x] = app[x]
    BY <1>1, <2>1, <2>3, <2>4 DEF LifeTypeOK
  <2>6. /\ thread'[u] = "none" /\ watch'[u] = {} /\ jobs'[u] = << >>
        /\ \A t \in Threads : t # u => thread'[t] = thread[t] /\ watch'[t] = watch[t] /\ jobs'[t] = jobs[t]
    BY <1>1, <2>1, <2>3 DEF LifeTypeOK
  <2>7. Terminating'
    BY <2>5 DEF Terminating
  <2>8. Gone(u)' /\ \A t \in Threads : Gone(t) => Gone(t)'
    BY <2>6 DEF Gone
  <2>9. ASSUME NEW x \in Apps PROVE Stage(app[x])'
    <3>1. CASE x # a
      BY <2>4, <2>5, <3>1 DEF Stage
    <3>2. CASE x = a
      <4>1. /\ socks = {} /\ arr[Socks].last = 0 /\ ginit /\ \A t \in Threads : t > u => thread[t] = "runs"
            /\ \A t \in Threads : t < u => Gone(t)
        BY <2>1, <2>2, <2>3, <2>4 DEF Quiet, Stage
      <4>2. \A t \in Threads : t < u + 1 => Gone(t)'
        <5>1. \A t \in Threads : t < u + 1 => t < u \/ t = u
          BY <1>2 DEF Threads
        <5> QED
          BY <2>8, <4>1, <5>1
      <4>3. \A t \in Threads : t >= u + 1 => thread'[t] = "runs"
        <5>1. \A t \in Threads : t >= u + 1 => t > u /\ t # u
          BY <1>2 DEF Threads
        <5> QED
          BY <2>6, <4>1, <5>1
      <4>4. /\ \A t \in Threads : t > u + 1 => thread'[t] = "runs"
            /\ (u + 1 < NThreads => thread'[u + 1] = "runs")
        <5>1. \A t \in Threads : t > u + 1 => t >= u + 1
          BY <1>2 DEF Threads
        <5>2. u + 1 < NThreads => u + 1 \in Threads /\ u + 1 >= u + 1
          BY <1>2 DEF Threads
        <5> QED
          BY <4>3, <5>1, <5>2
      <4>5. socks' = {} /\ arr'[Socks].last = 0 /\ ginit'
        BY <2>1, <4>1
      <4> QED
        BY <2>5, <3>2, <4>2, <4>4, <4>5 DEF Stage
    <3> QED
      BY <3>1, <3>2
  <2>10. \A t \in Threads : \A i \in 1..Len(jobs'[t]) : jobs'[t][i] = <<"stop">> =>
             \E y \in Apps : app'[y].pc = "wait" /\ app'[y].k = t
    <3>1. ASSUME NEW t \in Threads, NEW i \in 1..Len(jobs'[t]), jobs'[t][i] = <<"stop">> PROVE FALSE
      <4>1. CASE t = u
        BY <2>6, <3>1, <4>1
      <4>2. CASE t # u
        BY <2>2, <2>3, <2>4, <2>6, <3>1, <4>2 DEF Quiet
      <4> QED
        BY <4>1, <4>2
    <3> QED
      BY <3>1
  <2>11. /\ \A x, y \in Apps : app'[x].term /\ app'[y].term => x = y
         /\ \A t \in Threads : \A x \in running'[t] : node'[x] = "live"
    <3>1. \A x \in Apps : app'[x].term => x = a
      BY <2>4, <2>5
    <3>2. \A t \in Threads : \A x \in running'[t] : node'[x] = "live"
      BY <2>1, <2>2 DEF Quiet
    <3> QED
      BY <3>1, <3>2
  <2>12. Quiet'
    BY <2>9, <2>10, <2>11 DEF Quiet
  <2> QED
    BY <1>15, <2>1, <2>7, <2>12 DEF Matched
<1>14. ASSUME NEW a \in Apps, GlobalEnd(a) PROVE Blamed' /\ Quiet' /\ Matched'
  <2>1. /\ app[a].pc = "join" /\ app[a].k = NThreads /\ (wrong' <=> arr[Socks].last # 0) /\ ginit' = FALSE
        /\ app' = [app EXCEPT ![a] = NoCall]
        /\ UNCHANGED <<socks, arr, node, watch, jobs, running, thread, disturbed>>
    BY <1>14 DEF GlobalEnd
  <2>2. ~disturbed /\ Quiet /\ Matched
    BY <1>1, <2>1
  <2>3. app[a].term /\ \A x \in Apps : x # a => ~app[x].term /\ app[x].pc \notin {"join", "wait"}
    BY <1>1, <2>1, <2>2 DEF Quiet, CallOK
  <2>4. socks = {} /\ arr[Socks].last = 0 /\ \A t \in Threads : Gone(t)
    <3>1. \A t \in Threads : t < NThreads
      BY <1>2 DEF Threads
    <3> QED
      BY <2>1, <2>2, <2>3, <3>1 DEF Quiet, Stage
  <2>5. /\ ~app'[a].term /\ app'[a].pc = "idle" /\ \A x \in Apps : x # a => app'[x] = app[x]
    BY <1>1, <2>1 DEF LifeTypeOK, NoCall
  <2>6. \A x \in Apps : ~app'[x].term /\ app'[x].pc \notin {"join", "wait"}
    BY <2>3, <2>5
  <2>7. \A x \in Apps : Stage(app[x])'
    BY <2>6 DEF Stage
  <2>8. \A t \in Threads : jobs'[t] = << >> /\ watch'[t] = {} /\ thread'[t] = "none"
    BY <2>1, <2>4 DEF Gone
  <2>9. \A t \in Threads : \A i \in 1..Len(jobs'[t]) : jobs'[t][i] # <<"stop">>
    BY <2>8
  <2>10. \A t \in Threads : \A x \in running'[t] : node'[x] = "live"
    BY <2>1, <2>2 DEF Quiet
  <2>11. Quiet'
    BY <2>6, <2>7, <2>9, <2>10 DEF Quiet
  <2>12. Matched'
    BY <2>1, <2>4, <2>8 DEF Matched
  <2> QED
    BY <1>15, <2>1, <2>4, <2>11, <2>12
<1> QED
  BY <1>3, <1>4, <1>5, <1>6, <1>7, <1>8, <1>9, <1>10, <1>11, <1>12, <1>13, <1>14
  DEF LifeNext, CloseStep

\* The inductive invariant of the life cycle.
LEMMA LifeInvariant == LifeSpec => []LifeInv
<1>1. LifeInit => LifeInv
  <2> SUFFICES ASSUME LifeInit PROVE LifeInv
    OBVIOUS
  <2>1. NThreads \in Nat /\ NFds \in Nat /\ NoRoot \notin Roots
    BY LifeAssumption
  <2>2. NoCall \in CallType /\ CallOK(NoCall) /\ ~NoCall.term /\ NoCall.pc = "idle" /\ NoCall.s = NoRoot
    BY <2>1 DEF NoCall, CallType, CallOK
  <2>3. << >> \in Seq(Tasks) /\ \A t \in Threads : << >> \in Seq(TasksOf(t))
    BY EmptySeq
  <2>4. ginit \in BOOLEAN /\ wrong \in BOOLEAN /\ disturbed \in BOOLEAN
    BY Zenon DEF LifeInit
  <2>12. Fresh \in [last : Nat, shape : Shapes] /\ Fresh.last = 0
    BY DEF Fresh, Shapes
  <2>5. LifeTypeOK
    BY <2>1, <2>2, <2>3, <2>4, <2>12 DEF LifeInit, LifeTypeOK, CallType
  <2>6. LifeShape
    BY <2>2, <2>3, <2>5 DEF LifeInit, LifeShape, Watched
  <2>7. Owner \in [Nodes -> Roots] /\ Roots \subseteq Nodes /\ Binds \subseteq Nodes /\ Ins \subseteq Nodes
        /\ Outs \subseteq Nodes
    BY LifeAssumption DEF Nodes
  <2>8. Tree
    BY <2>1, <2>2, <2>7 DEF LifeInit, Tree, Held, Members, Listed, Rooted
  <2>9. \A a \in Apps : ~app[a].term /\ app[a].pc = "idle"
    BY <2>2 DEF LifeInit
  <2>10. Quiet
    BY <2>9 DEF LifeInit, Quiet, Stage
  <2>11. Matched
    BY DEF LifeInit, Matched
  <2>13. Sized
    <3>1. \A x \in Arrays : Content(x) = {} /\ arr[x].last = 0
      BY <2>12, ArraysAre DEF LifeInit
    <3> QED
      BY <3>1 DEF Sized
  <2> QED
    BY <2>6, <2>8, <2>10, <2>11, <2>13 DEF LifeInit, LifeInv, Blamed
<1>2. LifeInv /\ [LifeNext]_lifeVars => LifeInv'
  <2> SUFFICES ASSUME LifeInv, [LifeNext]_lifeVars PROVE LifeInv'
    OBVIOUS
  <2>1. LifeShape' /\ Tree' /\ Sized'
    BY LifeShapeStep, TreeStep, SizedStep DEF LifeInv
  <2>2. ~disturbed' => Blamed' /\ Quiet' /\ Matched'
    BY <2>1, QuietStep
  <2> QED
    BY <2>1, <2>2 DEF LifeInv
<1> QED
  BY <1>1, <1>2, PTL DEF LifeSpec

-----------------------------------------------------------------------------

\* The structures of the life cycle keep their types.
THEOREM LifeTypes == LifeSpec => []LifeTypeOK
<1>1. LifeInv => LifeTypeOK
  BY DEF LifeInv, LifeShape
<1> QED
  BY <1>1, LifeInvariant, PTL

\* For every number of sockets, connections and workers and every size of the
\* arrays' blocks: a close fails an assertion or uses freed memory only if a
\* worker was busy with the socket, a loop met a descriptor again, a socket was
\* opened while the workers were being stopped, or an array had a cleared slot
\* filled again or a block given back.
THEOREM QuietClosesAreSafe == LifeSpec => []QuietCloseSafe
<1>1. LifeInv => QuietCloseSafe
  BY DEF LifeInv, Blamed, QuietCloseSafe
<1> QED
  BY <1>1, LifeInvariant, PTL

\* fsock_close frees everything under a socket before the socket and leaves no
\* descriptor open; and an undisturbed last close stops every worker, with
\* nothing in its queue, unless the array of the sockets is messy by then.
THEOREM ClosesLeaveNothing == LifeSpec => []CloseLeavesNothing
<1>1. LifeInv => NothingLeft
  <2>1. LifeInv => \A n \in Nodes : /\ (node[n] = "live" => node[Owner[n]] = "live")
                                    /\ (fd[n] # 0 => node[n] = "live")
    BY DEF LifeInv, Tree, Rooted
  <2> QED
    BY <2>1 DEF NothingLeft
<1>2. LifeInv => WorkersMatch
  BY DEF LifeInv, Matched, WorkersMatch
<1>3. LifeInv => CloseLeavesNothing
  BY <1>1, <1>2 DEF CloseLeavesNothing
<1> QED
  BY <1>3, LifeInvariant, PTL

=============================================================================
