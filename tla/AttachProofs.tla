---------------------------- MODULE AttachProofs ----------------------------
(***************************************************************************)
(* How a socket gets its connections, for any number of threads, binds,    *)
(* connections and callers: the threads are used evenly, indices and tasks *)
(* find what they name, descriptors have one owner, and a stop reaches     *)
(* every connection that had its watchers.                                 *)
(***************************************************************************)
EXTENDS Attach, QueueOpsProofs, FiniteSetTheorems, WellFoundedInduction

-----------------------------------------------------------------------------
(* The invariant.                                                          *)

ReadOps == {"START_READ", "STOP_READ"}
Task == Socks \X {"BIND", "CONN", "START_READ", "STOP_READ"}
CallRecord == [pc : {"idle", "open", "scan", "store", "insert", "start"},
               o : Socks \cup {0}, fd : Fds \cup {Unset}, i : Indices]
AccRecord == [pc : {"idle", "local", "root", "choose", "start"},
              b : Binds \cup {0}, o : Ins \cup {0},
              fd : Fds \cup {Unset}, i : Indices, il : Indices]

\* A struct that is not in use is as fsock_sock_init leaves it.
FreshOK(o) ==
    o \notin made => /\ thr[o] = Unset /\ fd[o] = Unset /\ idx[o] = Unset
                     /\ idxlocal[o] = Unset /\ rio[o] = "uninit"

\* A socket whose index is set has its thread and its descriptor, and only such
\* a socket has its watcher initialised.
StartedOK(o) ==
    /\ idx[o] # Unset => thr[o] \in Threads /\ fd[o] \in open
    /\ rio[o] # "uninit" => idx[o] # Unset

\* What fsock_bind and fsock_connect have done to their socket so far.
CallOK(a) ==
    LET c == call[a] IN
    /\ c.pc = "idle" => c = NoCall
    /\ c.pc # "idle" => /\ c.o \in made /\ c.o \in Binds \cup Outs /\ thr[c.o] \in Threads
                        /\ fd[c.o] = Unset /\ idx[c.o] = Unset /\ rio[c.o] = "uninit"
    /\ c.pc \in {"idle", "open"} <=> c.fd = Unset
    /\ c.pc \in {"scan", "store"} => c.o \in Binds
    /\ c.pc = "insert" => c.o \in Outs
    /\ c.pc \in {"open", "insert"} => c.o \notin Elems(conns)
    /\ c.pc = "start" => c.i # Unset
    /\ c.pc = "start" /\ c.o \in Outs => c.i + 1 \in 1..Len(conns) /\ conns[c.i + 1] = c.o

\* The same for an accept handler.
AccOK(t) ==
    LET h == acc[t] IN
    /\ h.pc = "idle" => h = NoAccept
    /\ h.pc # "idle" => /\ h.b \in made /\ h.b \in Binds /\ thr[h.b] = t
                        /\ h.o \in made /\ h.o \in Ins /\ h.fd # Unset /\ rio[h.o] = "uninit"
    /\ h.pc \in {"local", "root", "choose"} =>
          thr[h.o] = Unset /\ fd[h.o] = Unset /\ idx[h.o] = Unset /\ idxlocal[h.o] = Unset
    /\ h.pc = "local" => \A b \in Binds : h.o \notin Elems(local[b])
    /\ h.pc \in {"local", "root"} => h.o \notin Elems(conns)
    /\ h.pc \in {"root", "choose"} =>
          local[h.b] # << >> /\ h.il = Len(local[h.b]) - 1 /\ local[h.b][Len(local[h.b])] = h.o
    /\ h.pc \in {"choose", "start"} => h.i + 1 \in 1..Len(conns) /\ conns[h.i + 1] = h.o
    /\ h.pc = "start" => /\ idx[h.o] = h.i /\ thr[h.o] \in Threads
                         /\ \A u \in Threads : <<h.o, "CONN">> \notin Elems(jobs[u])

\* No two calls work on one socket, no two handlers either.
Apart ==
    /\ \A a, b \in Apps : call[a].pc # "idle" /\ call[a].o = call[b].o => a = b
    /\ \A t, u \in Threads : acc[t].pc # "idle" /\ acc[t].o = acc[u].o => t = u

\* Queues without doubles.
QueuesOK(q) == q \in [Threads -> Seq(Task)] /\ \A t \in Threads : Distinct(q[t])

\* Tasks are queued for the thread of their socket; the first one of a socket
\* finds it complete and its watcher not yet initialised.
TaskOK(t, j) ==
    /\ thr[j[1]] = t
    /\ j[2] = "BIND" => j[1] \in Binds
    /\ j[2] = "CONN" => j[1] \notin Binds
    /\ j[2] \in {"BIND", "CONN"} => idx[j[1]] # Unset /\ rio[j[1]] = "uninit"
    /\ j[2] \in ReadOps => j[1] \in Elems(conns)
TasksOK == \A t \in Threads : \A j \in Elems(jobs[t]) : TaskOK(t, j)

\* The arrays hold structs in use, a bind's own array each of them once, in the
\* order of root->conns.
ArraysOK ==
    /\ Elems(conns) \subseteq made
    /\ \A b \in Binds : Elems(local[b]) \subseteq made
    /\ \A b, d \in Binds : \A k \in 1..Len(local[b]) : \A m \in 1..Len(local[d]) :
          local[b][k] = local[d][m] => b = d /\ k = m
    /\ \A o \in Outs \cup Ins : idx[o] # Unset => idx[o] + 1 \in 1..Len(conns)

\* The unlocked array of binds.
Waiting == {b \in Binds : b \notin made \/ \E a \in Apps : call[a].o = b /\ call[a].pc # "start"}
BindsOK ==
    /\ binds.last + Cardinality(Waiting) <= NBinds
    /\ \A k \in 0..NBinds : k >= binds.last => binds.elems[k] = 0
    /\ \A a \in Apps :
          /\ call[a].pc = "store" =>
                call[a].i \in 0..binds.last /\ (~raced => binds.elems[call[a].i] = 0)
          /\ call[a].pc = "start" /\ call[a].o \in Binds /\ ~raced =>
                call[a].i \in 0..NBinds /\ binds.elems[call[a].i] = call[a].o
    /\ ~raced => \A b \in Binds : idx[b] # Unset => idx[b] \in 0..NBinds

\* Descriptors that somebody has are open.
FdsOpen ==
    /\ IsFiniteSet(open)
    /\ \A o \in Socks : fd[o] # Unset => fd[o] \in open
    /\ \A a \in Apps : call[a].fd # Unset => call[a].fd \in open
    /\ \A t \in Threads : acc[t].fd # Unset => acc[t].fd \in open

\* While the input is stopped, no task starts it again but the first one.
StopsOK ==
    reading = STOP_OP =>
       /\ \A c \in Outs \cup Ins : rio[c] = "uninit" => c \in late
       /\ ~crashed => \A t \in Threads : \A c \in Socks : <<c, "START_READ">> \notin Elems(jobs[t])

\* The parts of the type invariant.
FieldsT == /\ made \in SUBSET Socks /\ thr \in [Socks -> Threads \cup {Unset}]
           /\ fd \in [Socks -> Fds \cup {Unset}] /\ idx \in [Socks -> Indices]
           /\ idxlocal \in [Socks -> Indices] /\ rio \in [Socks -> {"uninit", "off", "on"}]
ArraysT == /\ binds \in [elems : [0..NBinds -> Binds \cup {0}], last : 0..NBinds]
           /\ conns \in Seq(Outs \cup Ins) /\ local \in [Binds -> Seq(Ins)]
LocalsT == call \in [Apps -> CallRecord] /\ acc \in [Threads -> AccRecord]
OthersT == /\ thrLastIdx \in Threads /\ reading \in {0, STOP_OP} /\ open \in SUBSET Fds
           /\ backlog \in [Binds -> Nat] /\ arrived \in 0..NIns /\ crashed \in BOOLEAN
           /\ chosen \in [Threads -> Nat] /\ raced \in BOOLEAN /\ failed \in BOOLEAN
           /\ late \in SUBSET (Outs \cup Ins)

Types == FieldsT /\ ArraysT /\ LocalsT /\ OthersT /\ QueuesOK(jobs)

SocksOK == \A o \in Socks : FreshOK(o) /\ StartedOK(o)
CallsOK == \A a \in Apps : CallOK(a)
AccsOK == \A t \in Threads : AccOK(t)

AttachInv ==
    /\ Types /\ SocksOK /\ CallsOK /\ AccsOK /\ Apart /\ TasksOK /\ ArraysOK /\ BindsOK /\ FdsOpen
    /\ IndicesName /\ BindIndexNames /\ FdsOwned /\ ThreadlessOnlyInAccept
    /\ StopsOK /\ StopReaches

-----------------------------------------------------------------------------
(* Numbers: the least free one, and the threads in turn.                   *)

\* The least of a nonempty set of numbers exists, so NextOf finds it.
LEMMA NextOfIs ==
    ASSUME NEW T \in SUBSET Nat, T # {}
    PROVE  NextOf(T) \in T
<1>1. IsWellFoundedOn(OpToRel(<, Nat), Nat)
  BY NatLessThanWellFounded
<1>2. PICK x \in T : \A y \in T : ~(<<y, x>> \in OpToRel(<, Nat))
  BY <1>1, WFMin
<1>3. \A y \in T : ~(y < x)
  BY <1>2 DEF OpToRel
<1>4. \E o \in T : \A p \in T : o <= p
  BY <1>3
<1> QED
  BY <1>4 DEF NextOf

\* A descriptor the kernel gives out was not open.
LEMMA NewFdIs ==
    ASSUME IsFiniteSet(open), open \subseteq Fds
    PROVE  NewFd \in Fds /\ NewFd \notin open /\ IsFiniteSet(open \cup {NewFd})
<1> DEFINE n == Cardinality(open)
           T == (1..(n + 1)) \ open
<1>1. n \in Nat
  BY FS_CardinalityType
<1>2. T # {}
  <2> SUFFICES ASSUME 1..(n + 1) \subseteq open PROVE FALSE
    OBVIOUS
  <2>1. Cardinality(1..(n + 1)) <= n
    BY FS_Subset
  <2>2. Cardinality(1..(n + 1)) = n + 1
    <3>1. 1 \in Int /\ n + 1 \in Int /\ ~(1 > n + 1) /\ (n + 1) - 1 + 1 = n + 1
      BY <1>1
    <3> QED
      BY <3>1, FS_Interval
  <2> QED
    BY <1>1, <2>1, <2>2
<1>3. T \in SUBSET Nat
  BY <1>1
<1>4. NewFd \in T
  BY <1>2, <1>3, NextOfIs DEF NewFd
<1>5. IsFiniteSet(open \cup {NewFd})
  BY FS_AddElement
<1> QED
  BY <1>1, <1>4, <1>5 DEF Fds

\* The structs are numbers, those of different kinds different ones.
LEMMA SocksAre ==
    /\ Binds \in SUBSET Nat /\ Outs \in SUBSET Nat /\ Ins \in SUBSET Nat /\ Socks \in SUBSET Nat
    /\ Binds \cap Outs = {} /\ Binds \cap Ins = {} /\ Outs \cap Ins = {}
    /\ 0 \notin Socks /\ Unset \notin Socks /\ Unset \notin Threads /\ Unset \notin Fds
    /\ Socks = Binds \cup Outs \cup Ins
  BY AttachAssumption DEF Binds, Outs, Ins, Socks, Threads, Fds, Unset

\* The threads below the counter have been chosen once more than the others.
Even == /\ thrLastIdx \in Threads /\ chosen \in [Threads -> Nat]
        /\ \A t, u \in Threads :
              /\ t < thrLastIdx /\ u < thrLastIdx => chosen[t] = chosen[u]
              /\ t >= thrLastIdx /\ u >= thrLastIdx => chosen[t] = chosen[u]
              /\ t < thrLastIdx /\ u >= thrLastIdx => chosen[t] = chosen[u] + 1

\* One choice keeps them even.
LEMMA ChooseKeepsEven ==
    ASSUME Even, ChooseThr
    PROVE  Even'
<1>1. PICK n \in Nat : n = NThreads /\ n > 0
  BY AttachAssumption
<1>2. PICK k \in Threads : k = thrLastIdx /\ k \in Nat /\ k < n
  BY <1>1 DEF Even, Threads
<1>3. thrLastIdx' \in Nat /\ (k + 1 = n => thrLastIdx' = 0) /\ (k + 1 # n => thrLastIdx' = k + 1)
  BY <1>1, <1>2 DEF ChooseThr, WrapIdx
<1>4. thrLastIdx' \in Threads
  BY <1>1, <1>2, <1>3 DEF Threads
<1>5. /\ chosen' \in [Threads -> Nat] /\ chosen'[k] = chosen[k] + 1
      /\ \A t \in Threads : chosen[t] \in Nat /\ t \in Nat /\ t < n
      /\ \A t \in Threads : t # k => chosen'[t] = chosen[t]
  BY <1>1, <1>2 DEF ChooseThr, Even, Threads
<1>6. \A t, u \in Threads :
              /\ t < k /\ u < k => chosen[t] = chosen[u]
              /\ t >= k /\ u >= k => chosen[t] = chosen[u]
              /\ t < k /\ u >= k => chosen[t] = chosen[u] + 1
  BY <1>2 DEF Even
<1>7. ASSUME NEW t \in Threads, NEW u \in Threads
      PROVE  /\ t < thrLastIdx' /\ u < thrLastIdx' => chosen'[t] = chosen'[u]
             /\ t >= thrLastIdx' /\ u >= thrLastIdx' => chosen'[t] = chosen'[u]
             /\ t < thrLastIdx' /\ u >= thrLastIdx' => chosen'[t] = chosen'[u] + 1
  <2>1. CASE t = k /\ u = k
    BY <1>2, <1>3, <1>5, <2>1
  <2>2. CASE t = k /\ u # k
    BY <1>2, <1>3, <1>5, <1>6, <2>2
  <2>3. CASE t # k /\ u = k
    BY <1>2, <1>3, <1>5, <1>6, <2>3
  <2>4. CASE t # k /\ u # k
    BY <1>2, <1>3, <1>5, <1>6, <2>4
  <2> QED
    BY <2>1, <2>2, <2>3, <2>4
<1> QED
  BY <1>4, <1>5, <1>7 DEF Even

\* However bind, connect and accept interleave, and whichever fail afterwards,
\* f_choose_thr gives no thread two connections more than another.
THEOREM ThreadsBalanced == Spec => []Balanced
<1>1. Init => Even
  BY AttachAssumption DEF Init, Even, Threads
<1>2. Even /\ [Next]_vars => Even'
  <2> SUFFICES ASSUME Even, [Next]_vars PROVE Even'
    OBVIOUS
  <2>1. ChooseThr \/ UNCHANGED <<thrLastIdx, chosen>>
    BY DEF Next, Environment, Call, Handler, Tasks, Accepts, CallBegin, CallOpen, CallFails,
           BindScan, BindStore, ConnectInsert, CallAborts, CallStart, PeerConnects, Accept,
           AcceptLocal, AcceptRoot, AcceptChoose, AcceptStart, Run, StopReading, StartReading,
           vars
  <2> QED
    BY <2>1, ChooseKeepsEven DEF Even
<1>3. Even => Balanced
  <2> SUFFICES ASSUME Even, NEW t \in Threads, NEW u \in Threads
               PROVE  chosen[t] <= chosen[u] + 1
    BY DEF Balanced
  <2>1. /\ chosen[t] \in Nat /\ chosen[u] \in Nat /\ t \in Nat /\ u \in Nat /\ thrLastIdx \in Nat
        /\ t < thrLastIdx /\ u < thrLastIdx => chosen[t] = chosen[u]
        /\ t >= thrLastIdx /\ u >= thrLastIdx => chosen[t] = chosen[u]
        /\ t < thrLastIdx /\ u >= thrLastIdx => chosen[t] = chosen[u] + 1
        /\ u < thrLastIdx /\ t >= thrLastIdx => chosen[u] = chosen[t] + 1
    BY AttachAssumption DEF Even, Threads
  <2> QED
    BY <2>1
<1> QED
  BY <1>1, <1>2, <1>3, PTL DEF Spec

-----------------------------------------------------------------------------
(* The bulk loop.                                                          *)

\* The loop is well defined: it takes one turn after the other.
LEMMA TurnsAre ==
    ASSUME conns \in Seq(Outs \cup Ins), NEW op, NEW other
    PROVE  /\ Turns(op, other)[0] = jobs
           /\ \A k \in 1..Len(conns) :
                 Turns(op, other)[k] = Requeue(Turns(op, other)[k - 1], conns[k], op, other)
<1> DEFINE n == Len(conns)
           Next1(q, k) == Requeue(q, conns[k], op, other)
           P(g, m) == g[0] = jobs /\ \A k \in 1..m : g[k] = Next1(g[k - 1], k)
           F(f) == f = [k \in 0..n |-> IF k = 0 THEN jobs ELSE Next1(f[k - 1], k)]
           Bad == {m \in Nat : m <= n /\ ~\E g : P(g, m)}
<1>1. n \in Nat
  OBVIOUS
<1>2. Turns(op, other) = CHOOSE f : F(f)
  BY DEF Turns
<1> HIDE DEF Next1
<1>3. Bad = {}
  <2> SUFFICES ASSUME Bad # {} PROVE FALSE
    OBVIOUS
  <2>1. IsWellFoundedOn(OpToRel(<, Nat), Nat)
    BY NatLessThanWellFounded
  <2>2. PICK m \in Bad : \A y \in Bad : ~(<<y, m>> \in OpToRel(<, Nat))
    <3>1. Bad \subseteq Nat
      OBVIOUS
    <3> HIDE DEF Bad
    <3> QED
      BY <2>1, <3>1, WFMin
  <2>3. m \in Nat /\ m <= n /\ \A y \in Bad : ~(y < m)
    BY <2>2 DEF OpToRel
  <2>4. CASE m = 0
    <3> DEFINE g == [k \in {0} |-> jobs]
    <3>1. P(g, m)
      BY <2>4
    <3> QED
      BY <3>1
  <2>5. CASE m # 0
    <3>1. m - 1 \in Nat /\ m - 1 < m /\ m - 1 <= n
      BY <1>1, <2>3, <2>5
    <3>2. m - 1 \notin Bad
      BY <2>3, <3>1
    <3>3. PICK g : P(g, m - 1)
      BY <3>1, <3>2
    <3> DEFINE h == [k \in 0..m |-> IF k = m THEN Next1(g[m - 1], m) ELSE g[k]]
    <3>4. h[0] = jobs
      BY <2>3, <2>5, <3>3
    <3>5. ASSUME NEW k \in 1..m PROVE h[k] = Next1(h[k - 1], k)
      <4>1. k \in 0..m /\ k - 1 \in 0..m /\ k - 1 # m
        BY <2>3
      <4>2. h[k - 1] = g[k - 1]
        BY <4>1
      <4>3. CASE k = m
        BY <4>1, <4>2, <4>3
      <4>4. CASE k # m
        <5>1. k \in 1..(m - 1) /\ h[k] = g[k]
          BY <2>3, <4>1, <4>4
        <5> QED
          BY <3>3, <4>2, <5>1
      <4> QED
        BY <4>3, <4>4
    <3> HIDE DEF h
    <3>6. P(h, m)
      BY <3>4, <3>5
    <3> QED
      BY <3>6
  <2> QED
    BY <2>4, <2>5
<1>4. PICK g : P(g, n)
  <2>1. n \notin Bad /\ n <= n
    BY <1>1, <1>3
  <2> QED
    BY <1>1, <2>1
<1>5. \E f : F(f)
  <2> DEFINE f == [k \in 0..n |-> g[k]]
  <2>1. ASSUME NEW k \in 0..n
        PROVE  f[k] = IF k = 0 THEN jobs ELSE Next1(f[k - 1], k)
    <3>1. CASE k = 0
      BY <1>4, <3>1
    <3>2. CASE k # 0
      <4>1. k \in 1..n /\ k - 1 \in 0..n
        BY <1>1, <3>2
      <4> QED
        BY <1>4, <3>2, <4>1
    <3> QED
      BY <3>1, <3>2
  <2>2. f = [k \in 0..n |-> f[k]]
    OBVIOUS
  <2>3. F(f)
    <3> HIDE DEF f
    <3> QED
      BY <2>1, <2>2
  <2> QED
    BY <2>3
<1>6. F(CHOOSE f : F(f))
  <2> HIDE DEF F
  <2> QED
    BY <1>5
<1>7. PICK f : f = Turns(op, other) /\ F(f)
  BY <1>2, <1>6
<1>8. f[0] = jobs /\ \A k \in 1..n : f[k] = Next1(f[k - 1], k)
  <2>1. 0 \in 0..n /\ \A k \in 1..n : k \in 0..n /\ k # 0
    BY <1>1
  <2> QED
    BY <1>7, <2>1
<1> QED
  BY <1>7, <1>8 DEF Next1

\* From q to r: the task of c is queued, the opposite one is not, the rest stays.
Turned(q, r, c, op, other) ==
    /\ \A t \in Threads : t # thr[c] => r[t] = q[t]
    /\ Elems(r[thr[c]]) = (Elems(q[thr[c]]) \cup {<<c, op>>}) \ {<<c, other>>}

\* One turn queues the task of its connection, takes the opposite one out and
\* does nothing else.
LEMMA RequeueDoes ==
    ASSUME NEW q, QueuesOK(q), NEW c \in Socks, thr[c] \in Threads,
           NEW op \in ReadOps, NEW other \in ReadOps, op # other
    PROVE  /\ QueuesOK(Requeue(q, c, op, other))
           /\ Turned(q, Requeue(q, c, op, other), c, op, other)
<1>1. PICK t \in Threads : t = thr[c]
  OBVIOUS
<1>2. PICK x \in Task, y \in Task : x = <<c, op>> /\ y = <<c, other>> /\ x # y
  <2>1. <<c, op>> \in Task /\ <<c, other>> \in Task
    BY DEF Task, ReadOps
  <2>2. <<c, op>> # <<c, other>>
    OBVIOUS
  <2> QED
    BY <2>1, <2>2
<1>3. PICK s : s = IF x \in Elems(q[t]) THEN q[t] ELSE Append(q[t], x)
  OBVIOUS
<1>4. q \in [Threads -> Seq(Task)] /\ q[t] \in Seq(Task) /\ \A u \in Threads : Distinct(q[u])
  BY DEF QueuesOK
<1>5. s \in Seq(Task) /\ Distinct(s) /\ Elems(s) = Elems(q[t]) \cup {x}
  <2>1. CASE x \in Elems(q[t])
    BY <1>3, <1>4, <2>1
  <2>2. CASE x \notin Elems(q[t])
    BY <1>3, <1>4, <2>2, ElemsAppend
  <2> QED
    BY <2>1, <2>2
<1>6. PICK w : w = Without(s, y)
  OBVIOUS
<1>7. w \in Seq(Task) /\ Distinct(w) /\ Elems(w) = Elems(s) \ {y}
  BY <1>5, <1>6, WithoutElems
<1>8. Requeue(q, c, op, other) = [q EXCEPT ![t] = w]
  BY <1>1, <1>2, <1>3, <1>6 DEF Requeue
<1>9. PICK r : r = Requeue(q, c, op, other)
  OBVIOUS
<1>10. r \in [Threads -> Seq(Task)] /\ r[t] = w /\ \A u \in Threads : u # t => r[u] = q[u]
  BY <1>4, <1>7, <1>8, <1>9
<1>11. \A u \in Threads : Distinct(r[u])
  BY <1>4, <1>7, <1>10
<1>12. Turned(q, r, c, op, other)
  BY <1>1, <1>2, <1>5, <1>7, <1>10 DEF Turned
<1> QED
  BY <1>9, <1>10, <1>11, <1>12 DEF QueuesOK

\* The whole loop keeps the queues free of doubles, adds tasks of connections to
\* the queues of their threads only, and leaves each connection's task queued
\* and the opposite one not.
LEMMA TurnsDo ==
    ASSUME QueuesOK(jobs),
           conns \in Seq(Outs \cup Ins), \A c \in Elems(conns) : thr[c] \in Threads,
           NEW op \in ReadOps, NEW other \in ReadOps, op # other,
           NEW q, q = Turns(op, other)[Len(conns)]
    PROVE  /\ QueuesOK(q)
           /\ \A t \in Threads : \A j \in Elems(q[t]) :
                 j \in Elems(jobs[t]) \/ \E c \in Elems(conns) : thr[c] = t /\ j = <<c, op>>
           /\ \A c \in Elems(conns) : /\ <<c, op>> \in Elems(q[thr[c]])
                                      /\ <<c, other>> \notin Elems(q[thr[c]])
<1> DEFINE n == Len(conns)
           f == Turns(op, other)
           From(r) == \A t \in Threads : \A j \in Elems(r[t]) :
                         j \in Elems(jobs[t]) \/ \E c \in Elems(conns) : thr[c] = t /\ j = <<c, op>>
           Done(r, k) == \A i \in 1..k : /\ <<conns[i], op>> \in Elems(r[thr[conns[i]]])
                                         /\ <<conns[i], other>> \notin Elems(r[thr[conns[i]]])
           Bad == {k \in Nat : k <= n /\ ~(QueuesOK(f[k]) /\ From(f[k]) /\ Done(f[k], k))}
<1>1. n \in Nat /\ f[0] = jobs /\ \A k \in 1..n : f[k] = Requeue(f[k - 1], conns[k], op, other)
  BY TurnsAre
<1>2. \A k \in 1..n : conns[k] \in Elems(conns) /\ conns[k] \in Socks
  BY DEF Elems, Socks
<1> HIDE DEF f
<1>3. Bad = {}
  <2> SUFFICES ASSUME Bad # {} PROVE FALSE
    OBVIOUS
  <2>1. IsWellFoundedOn(OpToRel(<, Nat), Nat)
    BY NatLessThanWellFounded
  <2>2. PICK m \in Bad : \A y \in Bad : ~(<<y, m>> \in OpToRel(<, Nat))
    <3>1. Bad \subseteq Nat
      OBVIOUS
    <3> HIDE DEF Bad
    <3> QED
      BY <2>1, <3>1, WFMin
  <2>3. m \in Nat /\ m <= n /\ \A y \in Bad : ~(y < m)
    BY <2>2 DEF OpToRel
  <2>4. CASE m = 0
    <3>1. QueuesOK(f[0]) /\ From(f[0])
      BY <1>1
    <3>2. Done(f[0], 0)
      OBVIOUS
    <3> QED
      BY <2>4, <3>1, <3>2
  <2>5. CASE m # 0
    <3>1. m - 1 \in Nat /\ m - 1 < m /\ m - 1 <= n /\ m \in 1..n
      BY <1>1, <2>3, <2>5
    <3>2. m - 1 \notin Bad
      BY <2>3, <3>1
    <3>3. PICK r : r = f[m - 1] /\ QueuesOK(r) /\ From(r) /\ Done(r, m - 1)
      BY <3>1, <3>2
    <3>4. PICK c \in Elems(conns) : c = conns[m] /\ c \in Socks /\ thr[c] \in Threads
      BY <1>2, <3>1
    <3>5. PICK s : s = f[m] /\ s = Requeue(r, c, op, other)
      BY <1>1, <3>1, <3>3, <3>4
    <3>6. QueuesOK(s) /\ Turned(r, s, c, op, other)
      <4> HIDE DEF Bad, From, Done
      <4> QED
        BY <3>3, <3>4, <3>5, RequeueDoes
    <3>7. From(s)
      <4> SUFFICES ASSUME NEW t \in Threads, NEW j \in Elems(s[t])
                   PROVE  j \in Elems(jobs[t]) \/ \E d \in Elems(conns) : thr[d] = t /\ j = <<d, op>>
        OBVIOUS
      <4>1. CASE t # thr[c] \/ j # <<c, op>>
        <5>1. j \in Elems(r[t])
          BY <3>4, <3>6, <4>1 DEF Turned
        <5> QED
          BY <3>3, <5>1
      <4>2. CASE t = thr[c] /\ j = <<c, op>>
        BY <3>4, <4>2
      <4> QED
        BY <4>1, <4>2
    <3>8. Done(s, m)
      <4> SUFFICES ASSUME NEW i \in 1..m
                   PROVE  /\ <<conns[i], op>> \in Elems(s[thr[conns[i]]])
                          /\ <<conns[i], other>> \notin Elems(s[thr[conns[i]]])
        OBVIOUS
      <4>1. i \in 1..n
        BY <2>3, <1>1
      <4>2. PICK d \in Elems(conns) : d = conns[i] /\ thr[d] \in Threads
        BY <1>2, <4>1
      <4>3. <<d, op>> # <<c, other>> /\ <<c, op>> # <<d, other>>
        OBVIOUS
      <4>4. CASE d = c
        BY <3>6, <4>2, <4>3, <4>4 DEF Turned
      <4>5. CASE d # c
        <5>1. i \in 1..(m - 1)
          <6>1. i # m
            BY <3>4, <4>2, <4>5
          <6> QED
            BY <2>3, <6>1
        <5>2. <<d, op>> \in Elems(r[thr[d]]) /\ <<d, other>> \notin Elems(r[thr[d]])
          BY <3>3, <4>2, <5>1
        <5>3. CASE thr[d] = thr[c]
          BY <3>6, <4>2, <4>3, <5>2, <5>3 DEF Turned
        <5>4. CASE thr[d] # thr[c]
          BY <3>6, <4>2, <5>2, <5>4 DEF Turned
        <5> QED
          BY <5>3, <5>4
      <4> QED
        BY <4>4, <4>5
    <3> HIDE DEF From, Done
    <3> QED
      BY <3>5, <3>6, <3>7, <3>8
  <2> QED
    BY <2>4, <2>5
<1>4. QueuesOK(q) /\ From(q) /\ Done(q, n)
  <2>1. n \notin Bad /\ n <= n /\ f[n] = q
    BY <1>1, <1>3 DEF f
  <2> HIDE DEF From, Done
  <2> QED
    BY <1>1, <2>1
<1>5. \A c \in Elems(conns) : \E i \in 1..n : c = conns[i]
  BY DEF Elems
<1> QED
  BY <1>4, <1>5

-----------------------------------------------------------------------------
(* What the actions do, with the records they leave behind.                *)

\* r has these fields.
CallIs(r, p, o, d, i) == r \in CallRecord /\ r.pc = p /\ r.o = o /\ r.fd = d /\ r.i = i

\* Application a goes on with these locals, the others keep theirs.
CallTo(a, p, o, d, i) == /\ CallIs(call'[a], p, o, d, i) /\ call' \in [Apps -> CallRecord]
                         /\ \A b \in Apps : b # a => call'[b] = call[b]

\* A step that puts r in the locals of a gives them the fields of r.
LEMMA CallToIf ==
    ASSUME Types, NEW a \in Apps, NEW r, call' = [call EXCEPT ![a] = r],
           NEW p, NEW o, NEW d, NEW i, CallIs(r, p, o, d, i)
    PROVE  CallTo(a, p, o, d, i)
<1>1. call \in [Apps -> CallRecord] /\ r \in CallRecord
  BY DEF Types, LocalsT, CallIs
<1>2. call' \in [Apps -> CallRecord] /\ call'[a] = r /\ \A b \in Apps : b # a => call'[b] = call[b]
  BY <1>1
<1> QED
  BY <1>2 DEF CallTo

\* The fields of the locals of a call have their types.
LEMMA CallFields ==
    ASSUME NEW c \in CallRecord
    PROVE  /\ c.pc \in {"idle", "open", "scan", "store", "insert", "start"} /\ c.o \in Socks \cup {0}
           /\ c.fd \in Fds \cup {Unset} /\ c.i \in Indices
  BY DEF CallRecord

\* What the assignments of a call make of its locals.
LEMMA CallExcept ==
    ASSUME NEW c \in CallRecord, NEW p \in {"idle", "open", "scan", "store", "insert", "start"},
           NEW d \in Fds \cup {Unset}, NEW i \in Indices
    PROVE  /\ CallIs([c EXCEPT !.pc = p], p, c.o, c.fd, c.i)
           /\ CallIs([c EXCEPT !.pc = p, !.i = i], p, c.o, c.fd, i)
           /\ CallIs([c EXCEPT !.fd = d, !.pc = p], p, c.o, d, c.i)
<1>1. CallIs([c EXCEPT !.pc = p], p, c.o, c.fd, c.i)
  BY DEF CallRecord, CallIs
<1>2. CallIs([c EXCEPT !.pc = p, !.i = i], p, c.o, c.fd, i)
  BY DEF CallRecord, CallIs
<1>3. CallIs([c EXCEPT !.fd = d, !.pc = p], p, c.o, d, c.i)
  BY DEF CallRecord, CallIs
<1> QED
  BY <1>1, <1>2, <1>3

\* The locals of a call that is not running, and of one that begins.
LEMMA NoCallIs ==
    /\ CallIs(NoCall, "idle", 0, Unset, Unset)
    /\ \A o \in Socks : CallIs([NoCall EXCEPT !.pc = "open", !.o = o], "open", o, Unset, Unset)
  BY DEF NoCall, CallRecord, CallIs, Indices

\* fsock_bind or fsock_connect begins with a fresh struct and a thread.
LEMMA CallBeginIs ==
    ASSUME Types, NEW a \in Apps, NEW S \in {Binds, Outs}, CallBegin(a, S)
    PROVE  \E o \in S : /\ o \notin made /\ made' = made \cup {o}
                        /\ thr' = [thr EXCEPT ![o] = thrLastIdx]
                        /\ CallTo(a, "open", o, Unset, Unset)
<1>1. S \in SUBSET Nat /\ S \ made # {} /\ S \subseteq Socks
  BY SocksAre DEF CallBegin
<1>2. PICK o \in S : o = NextOf(S \ made) /\ o \notin made
  <2>1. S \ made \in SUBSET Nat
    BY <1>1
  <2> QED
    BY <1>1, <2>1, NextOfIs
<1>3. call' = [call EXCEPT ![a] = [NoCall EXCEPT !.pc = "open", !.o = o]]
  BY <1>2 DEF CallBegin
<1>4. CallTo(a, "open", o, Unset, Unset)
  BY <1>1, <1>3, NoCallIs, CallToIf
<1>5. made' = made \cup {o} /\ thr' = [thr EXCEPT ![o] = thrLastIdx]
  BY <1>2 DEF CallBegin, PresetThr
<1> QED
  BY <1>2, <1>4, <1>5

\* It gets a descriptor that was not open, and goes on by its kind.
LEMMA CallOpenIs ==
    ASSUME Types, IsFiniteSet(open), NEW a \in Apps, CallOpen(a)
    PROVE  \E d \in Fds, p \in {"scan", "insert"} :
              /\ d \notin open /\ open' = open \cup {d} /\ IsFiniteSet(open')
              /\ p = "scan" <=> call[a].o \in Binds
              /\ CallTo(a, p, call[a].o, d, call[a].i)
<1>1. open \subseteq Fds /\ call[a] \in CallRecord /\ call \in [Apps -> CallRecord]
  BY DEF Types, OthersT, LocalsT
<1>2. PICK d \in Fds : d = NewFd /\ d \notin open /\ IsFiniteSet(open \cup {d})
  BY <1>1, NewFdIs
<1>3. PICK p \in {"scan", "insert"} : p = IF call[a].o \in Binds THEN "scan" ELSE "insert"
  OBVIOUS
<1>4. call' = [call EXCEPT ![a] = [call[a] EXCEPT !.fd = d, !.pc = p]]
  BY <1>1, <1>2, <1>3 DEF CallOpen
<1>5. CallIs([call[a] EXCEPT !.fd = d, !.pc = p], p, call[a].o, d, call[a].i)
  <2>1. call[a].i \in Indices
    BY <1>1, CallFields
  <2> QED
    BY <1>1, <2>1, CallExcept
<1>6. CallTo(a, p, call[a].o, d, call[a].i)
  BY <1>4, <1>5, CallToIf
<1>7. open' = open \cup {d}
  BY <1>2 DEF CallOpen
<1> QED
  BY <1>2, <1>3, <1>6, <1>7

\* It returns without one, and no open descriptor is closed.
LEMMA CallFailsIs ==
    ASSUME Types, IsFiniteSet(open), NEW a \in Apps, CallFails(a)
    PROVE  /\ open \subseteq open' /\ open' \in SUBSET Fds /\ IsFiniteSet(open')
           /\ CallTo(a, "idle", 0, Unset, Unset) /\ call'[a] = NoCall
<1>1. open \subseteq Fds
  BY DEF Types, OthersT
<1>2. NewFd \in Fds /\ IsFiniteSet(open \cup {NewFd})
  BY <1>1, NewFdIs
<1>3. open' = open \/ open' = open \cup {NewFd}
  BY DEF CallFails
<1>4. call' = [call EXCEPT ![a] = NoCall]
  BY DEF CallFails
<1>5. call'[a] = NoCall
  BY <1>4 DEF Types, LocalsT
<1> QED
  BY <1>1, <1>2, <1>3, <1>4, <1>5, CallToIf, NoCallIs

\* The unlocked search returns last or an empty slot.
LEMMA BindScanIs ==
    ASSUME Types, NEW a \in Apps, BindScan(a)
    PROVE  \E i \in 0..binds.last : /\ i = binds.last \/ binds.elems[i] = 0
                                    /\ CallTo(a, "store", call[a].o, call[a].fd, i)
<1>1. /\ call[a] \in CallRecord /\ call \in [Apps -> CallRecord] /\ binds.last \in Nat
      /\ Unset \in Fds \cup {Unset}
  BY DEF Types, LocalsT, ArraysT
<1>2. PICK i \in Slots : call' = [call EXCEPT ![a].pc = "store", ![a].i = i]
  BY DEF BindScan
<1>3. i \in 0..binds.last /\ (i = binds.last \/ binds.elems[i] = 0) /\ i \in Indices
  BY <1>1 DEF Slots, Indices
<1>4. call' = [call EXCEPT ![a] = [call[a] EXCEPT !.pc = "store", !.i = i]]
  BY <1>1, <1>2
<1>5. CallIs([call[a] EXCEPT !.pc = "store", !.i = i], "store", call[a].o, call[a].fd, i)
  BY <1>1, <1>3, CallExcept
<1> QED
  BY <1>3, <1>4, <1>5, CallToIf

\* The unlocked store.
LEMMA BindStoreIs ==
    ASSUME Types, NEW a \in Apps, BindStore(a)
    PROVE  /\ binds'.last = binds.last + 1
           /\ binds'.elems = [binds.elems EXCEPT ![call[a].i] = call[a].o]
           /\ CallTo(a, "start", call[a].o, call[a].fd, call[a].i)
<1>1. /\ call[a] \in CallRecord /\ call \in [Apps -> CallRecord]
      /\ Unset \in Fds \cup {Unset} /\ Unset \in Indices
  BY DEF Types, LocalsT, Indices
<1>2. call' = [call EXCEPT ![a] = [call[a] EXCEPT !.pc = "start"]]
  BY <1>1 DEF BindStore
<1>3. CallIs([call[a] EXCEPT !.pc = "start"], "start", call[a].o, call[a].fd, call[a].i)
  BY <1>1, CallExcept
<1>4. CallTo(a, "start", call[a].o, call[a].fd, call[a].i)
  BY <1>2, <1>3, CallToIf
<1> QED
  BY <1>4 DEF BindStore

\* fsock_connect publishes its connection and keeps the index.
LEMMA ConnectInsertIs ==
    ASSUME Types, NEW a \in Apps, ConnectInsert(a)
    PROVE  /\ conns' = Append(conns, call[a].o)
           /\ CallTo(a, "start", call[a].o, call[a].fd, Len(conns))
<1>1. /\ call[a] \in CallRecord /\ call \in [Apps -> CallRecord] /\ Len(conns) \in Indices
      /\ Unset \in Fds \cup {Unset}
  BY DEF Types, LocalsT, ArraysT, Indices
<1>2. call' = [call EXCEPT ![a] = [call[a] EXCEPT !.pc = "start", !.i = Len(conns)]]
  BY <1>1 DEF ConnectInsert
<1>3. CallIs([call[a] EXCEPT !.pc = "start", !.i = Len(conns)], "start", call[a].o, call[a].fd, Len(conns))
  BY <1>1, CallExcept
<1> QED
  BY <1>2, <1>3, CallToIf DEF ConnectInsert

\* The call sets idx and fd of its socket, and returns.
LEMMA CallStartIs ==
    ASSUME Types, NEW a \in Apps, CallStart(a)
    PROVE  /\ idx' = [idx EXCEPT ![call[a].o] = call[a].i]
           /\ fd' = [fd EXCEPT ![call[a].o] = call[a].fd]
           /\ CallTo(a, "idle", 0, Unset, Unset) /\ call'[a] = NoCall
<1>1. call' = [call EXCEPT ![a] = NoCall]
  BY DEF CallStart
<1>2. call'[a] = NoCall
  BY <1>1 DEF Types, LocalsT
<1> QED
  BY <1>1, <1>2, CallToIf, NoCallIs DEF CallStart

\* The same for the accept handlers.
AccIs(h, p, b, o, d, i, il) == /\ h \in AccRecord /\ h.pc = p /\ h.b = b /\ h.o = o
                               /\ h.fd = d /\ h.i = i /\ h.il = il

\* The handler on t goes on with these locals, the others keep theirs.
AccTo(t, p, b, o, d, i, il) ==
    /\ AccIs(acc'[t], p, b, o, d, i, il) /\ acc' \in [Threads -> AccRecord]
    /\ \A u \in Threads : u # t => acc'[u] = acc[u]

\* A step that puts h in the locals of the handler on t gives them its fields.
LEMMA AccToIf ==
    ASSUME Types, NEW t \in Threads, NEW h, acc' = [acc EXCEPT ![t] = h],
           NEW p, NEW b, NEW o, NEW d, NEW i, NEW il, AccIs(h, p, b, o, d, i, il)
    PROVE  AccTo(t, p, b, o, d, i, il)
<1>1. acc \in [Threads -> AccRecord] /\ h \in AccRecord
  BY DEF Types, LocalsT, AccIs
<1>2. acc' \in [Threads -> AccRecord] /\ acc'[t] = h /\ \A u \in Threads : u # t => acc'[u] = acc[u]
  BY <1>1
<1> QED
  BY <1>2 DEF AccTo

\* The fields of the locals of an accept handler have their types.
LEMMA AccFields ==
    ASSUME NEW h \in AccRecord
    PROVE  /\ h.pc \in {"idle", "local", "root", "choose", "start"} /\ h.b \in Binds \cup {0}
           /\ h.o \in Ins \cup {0} /\ h.fd \in Fds \cup {Unset} /\ h.i \in Indices /\ h.il \in Indices
  BY DEF AccRecord

\* What the assignments of a handler make of its locals.
LEMMA AccExcept ==
    ASSUME NEW h \in AccRecord, NEW p \in {"idle", "local", "root", "choose", "start"},
           NEW i \in Indices
    PROVE  /\ AccIs([h EXCEPT !.pc = p], p, h.b, h.o, h.fd, h.i, h.il)
           /\ AccIs([h EXCEPT !.pc = p, !.i = i], p, h.b, h.o, h.fd, i, h.il)
           /\ AccIs([h EXCEPT !.pc = p, !.il = i], p, h.b, h.o, h.fd, h.i, i)
<1>1. AccIs([h EXCEPT !.pc = p], p, h.b, h.o, h.fd, h.i, h.il)
  BY DEF AccRecord, AccIs
<1>2. AccIs([h EXCEPT !.pc = p, !.i = i], p, h.b, h.o, h.fd, i, h.il)
  BY DEF AccRecord, AccIs
<1>3. AccIs([h EXCEPT !.pc = p, !.il = i], p, h.b, h.o, h.fd, h.i, i)
  BY DEF AccRecord, AccIs
<1> QED
  BY <1>1, <1>2, <1>3

\* The locals when no handler runs, and when one begins.
LEMMA NoAcceptIs ==
    /\ AccIs(NoAccept, "idle", 0, 0, Unset, Unset, Unset)
    /\ \A b \in Binds, o \in Ins, d \in Fds :
          AccIs([NoAccept EXCEPT !.pc = "local", !.b = b, !.o = o, !.fd = d],
                "local", b, o, d, Unset, Unset)
  BY DEF NoAccept, AccRecord, AccIs, Indices

\* A handler that gives up or is done.
AccEnds(t) == AccTo(t, "idle", 0, 0, Unset, Unset, Unset) /\ acc'[t] = NoAccept

\* The handler returns.
LEMMA AccEndsIf ==
    ASSUME Types, NEW t \in Threads, acc' = [acc EXCEPT ![t] = NoAccept]
    PROVE  AccEnds(t)
<1>1. acc'[t] = NoAccept
  BY DEF Types, LocalsT
<1> QED
  BY <1>1, AccToIf, NoAcceptIs DEF AccEnds

\* accept returns a descriptor that was not open; a fresh struct takes it, or none.
LEMMA AcceptIs ==
    ASSUME Types, IsFiniteSet(open), NEW t \in Threads, NEW b \in Binds, Accept(t, b)
    PROVE  \E d \in Fds :
              /\ d \notin open /\ open' = open \cup {d} /\ IsFiniteSet(open')
              /\ \/ /\ made' = made /\ acc' = acc /\ failed' = TRUE
                 \/ \E o \in Ins : /\ o \notin made /\ made' = made \cup {o} /\ failed' = failed
                                   /\ AccTo(t, "local", b, o, d, Unset, Unset)
<1>1. open \subseteq Fds
  BY DEF Types, OthersT
<1>2. PICK d \in Fds : d = NewFd /\ d \notin open /\ IsFiniteSet(open \cup {d})
  BY <1>1, NewFdIs
<1>3. open' = open \cup {d}
  BY <1>2 DEF Accept
<1>4. CASE failed' = TRUE /\ UNCHANGED <<made, acc>>
  BY <1>2, <1>3, <1>4
<1>5. CASE /\ Ins \ made # {} /\ made' = made \cup {NextOf(Ins \ made)} /\ failed' = failed
           /\ acc' = [acc EXCEPT ![t] = [NoAccept EXCEPT !.pc = "local", !.b = b,
                                            !.o = NextOf(Ins \ made), !.fd = NewFd]]
  <2>1. PICK o \in Ins : o = NextOf(Ins \ made) /\ o \notin made
    <3>1. Ins \ made \in SUBSET Nat
      BY SocksAre
    <3> QED
      BY <1>5, <3>1, NextOfIs
  <2>2. AccTo(t, "local", b, o, d, Unset, Unset)
    BY <1>2, <1>5, <2>1, NoAcceptIs, AccToIf
  <2> QED
    BY <1>2, <1>3, <1>5, <2>1, <2>2
<1> QED
  BY <1>4, <1>5 DEF Accept

\* The insert in the bind's array, or its failure.
LEMMA AcceptLocalIs ==
    ASSUME Types, NEW t \in Threads, acc[t].b \in Binds, AcceptLocal(t)
    PROVE  \/ /\ local' = [local EXCEPT ![acc[t].b] = Append(@, acc[t].o)]
              /\ made' = made /\ failed' = failed
              /\ AccTo(t, "root", acc[t].b, acc[t].o, acc[t].fd, acc[t].i, Len(local[acc[t].b]))
           \/ /\ failed' = TRUE /\ made' = made \ {acc[t].o} /\ local' = local /\ AccEnds(t)
<1>1. acc[t] \in AccRecord /\ acc \in [Threads -> AccRecord] /\ local \in [Binds -> Seq(Ins)]
  BY DEF Types, LocalsT, ArraysT
<1>2. CASE failed' = TRUE /\ made' = made \ {acc[t].o} /\ local' = local
           /\ acc' = [acc EXCEPT ![t] = NoAccept]
  BY <1>2, AccEndsIf
<1>3. CASE /\ local' = [local EXCEPT ![acc[t].b] = Append(@, acc[t].o)]
           /\ acc' = [acc EXCEPT ![t].pc = "root", ![t].il = Len(local[acc[t].b])]
           /\ made' = made /\ failed' = failed
  <2>1. PICK n : n = Len(local[acc[t].b])
    OBVIOUS
  <2>2. n \in Indices
    BY <1>1, <2>1 DEF Indices
  <2>3. acc' = [acc EXCEPT ![t] = [acc[t] EXCEPT !.pc = "root", !.il = n]]
    BY <1>1, <1>3, <2>1
  <2>4. AccTo(t, "root", acc[t].b, acc[t].o, acc[t].fd, acc[t].i, n)
    BY <1>1, <2>2, <2>3, AccExcept, AccToIf
  <2> QED
    BY <1>3, <2>1, <2>4
<1> QED
  BY <1>2, <1>3 DEF AcceptLocal

\* The insert in root->conns, or its failure.
LEMMA AcceptRootIs ==
    ASSUME Types, NEW t \in Threads, AcceptRoot(t)
    PROVE  \/ /\ conns' = Append(conns, acc[t].o) /\ failed' = failed
              /\ AccTo(t, "choose", acc[t].b, acc[t].o, acc[t].fd, Len(conns), acc[t].il)
           \/ failed' = TRUE /\ conns' = conns /\ AccEnds(t)
<1>1. acc[t] \in AccRecord /\ acc \in [Threads -> AccRecord] /\ Len(conns) \in Indices
  BY DEF Types, LocalsT, ArraysT, Indices
<1>2. CASE failed' = TRUE /\ conns' = conns /\ acc' = [acc EXCEPT ![t] = NoAccept]
  BY <1>2, AccEndsIf
<1>3. CASE /\ conns' = Append(conns, acc[t].o) /\ failed' = failed
           /\ acc' = [acc EXCEPT ![t].pc = "choose", ![t].i = Len(conns)]
  <2>1. acc' = [acc EXCEPT ![t] = [acc[t] EXCEPT !.pc = "choose", !.i = Len(conns)]]
    BY <1>1, <1>3
  <2>2. AccTo(t, "choose", acc[t].b, acc[t].o, acc[t].fd, Len(conns), acc[t].il)
    BY <1>1, <2>1, AccExcept, AccToIf
  <2> QED
    BY <1>3, <2>2
<1> QED
  BY <1>2, <1>3 DEF AcceptRoot

\* The handler sets thr, fd and both indices of its connection.
LEMMA AcceptChooseIs ==
    ASSUME Types, NEW t \in Threads, AcceptChoose(t)
    PROVE  /\ thr' = [thr EXCEPT ![acc[t].o] = thrLastIdx] /\ fd' = [fd EXCEPT ![acc[t].o] = acc[t].fd]
           /\ idx' = [idx EXCEPT ![acc[t].o] = acc[t].i]
           /\ idxlocal' = [idxlocal EXCEPT ![acc[t].o] = acc[t].il]
           /\ AccTo(t, "start", acc[t].b, acc[t].o, acc[t].fd, acc[t].i, acc[t].il)
<1>1. acc[t] \in AccRecord /\ acc \in [Threads -> AccRecord] /\ Unset \in Indices
  BY DEF Types, LocalsT, Indices
<1>2. acc' = [acc EXCEPT ![t] = [acc[t] EXCEPT !.pc = "start"]]
  BY <1>1 DEF AcceptChoose
<1>3. AccTo(t, "start", acc[t].b, acc[t].o, acc[t].fd, acc[t].i, acc[t].il)
  BY <1>1, <1>2, AccExcept, AccToIf
<1> QED
  BY <1>3 DEF AcceptChoose, SetFd, SetIndices

\* It queues the CONN task and returns.
LEMMA AcceptStartIs ==
    ASSUME Types, NEW t \in Threads, AcceptStart(t)
    PROVE  AccEnds(t) /\ StartTask(thr[acc[t].o], acc[t].o)
  BY AccEndsIf DEF AcceptStart

-----------------------------------------------------------------------------
(* The invariant's parts, one after the other, are kept by every step.     *)

\* The steps.
LEMMA StepIs ==
    ASSUME [Next]_vars
    PROVE  \/ UNCHANGED vars
           \/ \E a \in Apps, S \in {Binds, Outs} : CallBegin(a, S)
           \/ \E a \in Apps : \/ CallOpen(a) \/ CallFails(a) \/ BindScan(a) \/ BindStore(a)
                              \/ ConnectInsert(a) \/ CallAborts(a) \/ CallStart(a)
           \/ \E b \in Binds : PeerConnects(b)
           \/ \E t \in Threads, b \in Binds : Accept(t, b)
           \/ \E t \in Threads : \/ AcceptLocal(t) \/ AcceptRoot(t) \/ AcceptChoose(t)
                                 \/ AcceptStart(t) \/ Run(t)
           \/ StopReading \/ StartReading
  BY DEF Next, Environment, Call, Handler, Tasks, Accepts

\* An accept handler that is not idle serves a bind, and a call that is not idle
\* has a socket.
LEMMA Working ==
    ASSUME AttachInv
    PROVE  /\ \A t \in Threads : acc[t].pc # "idle" =>
                 /\ acc[t].b \in Binds /\ acc[t].b \in made /\ thr[acc[t].b] = t
                 /\ acc[t].o \in Ins /\ acc[t].o \in made /\ rio[acc[t].o] = "uninit"
                 /\ acc[t].fd \in Fds
           /\ \A a \in Apps : call[a].pc # "idle" =>
                 /\ call[a].o \in Binds \cup Outs /\ call[a].o \in made
                 /\ rio[call[a].o] = "uninit" /\ thr[call[a].o] \in Threads
                 /\ fd[call[a].o] = Unset /\ idx[call[a].o] = Unset
<1>1. ASSUME NEW t \in Threads, acc[t].pc # "idle"
      PROVE  /\ acc[t].b \in Binds /\ acc[t].b \in made /\ thr[acc[t].b] = t
             /\ acc[t].o \in Ins /\ acc[t].o \in made /\ rio[acc[t].o] = "uninit"
             /\ acc[t].fd \in Fds
  <2>1. acc[t] \in AccRecord /\ AccOK(t)
    BY DEF AttachInv, Types, LocalsT, AccsOK
  <2> QED
    BY <1>1, <2>1, AccFields DEF AccOK
<1>2. ASSUME NEW a \in Apps, call[a].pc # "idle"
      PROVE  /\ call[a].o \in Binds \cup Outs /\ call[a].o \in made
             /\ rio[call[a].o] = "uninit" /\ thr[call[a].o] \in Threads
             /\ fd[call[a].o] = Unset /\ idx[call[a].o] = Unset
  <2>1. CallOK(a)
    BY DEF AttachInv, CallsOK
  <2> QED
    BY <1>2, <2>1 DEF CallOK
<1> QED
  BY <1>1, <1>2

\* The fields keep their types.
LEMMA FieldsStep ==
    ASSUME AttachInv, [Next]_vars
    PROVE  FieldsT'
<1>1. /\ made \in SUBSET Socks /\ thr \in [Socks -> Threads \cup {Unset}]
      /\ fd \in [Socks -> Fds \cup {Unset}] /\ idx \in [Socks -> Indices]
      /\ idxlocal \in [Socks -> Indices] /\ rio \in [Socks -> {"uninit", "off", "on"}]
      /\ thrLastIdx \in Threads
  BY DEF AttachInv, Types, FieldsT, OthersT
<1>2. Types /\ IsFiniteSet(open)
  BY DEF AttachInv, FdsOpen
<1>3. CASE UNCHANGED <<made, thr, fd, idx, idxlocal, rio>>
  BY <1>1, <1>3 DEF FieldsT
<1>4. ASSUME NEW a \in Apps, NEW S \in {Binds, Outs}, CallBegin(a, S) PROVE FieldsT'
  <2>1. UNCHANGED <<fd, idx, idxlocal, rio>>
    BY <1>4 DEF CallBegin
  <2>2. PICK o \in S : made' = made \cup {o} /\ thr' = [thr EXCEPT ![o] = thrLastIdx]
    BY <1>2, <1>4, CallBeginIs
  <2>3. o \in Socks
    BY SocksAre
  <2> QED
    BY <1>1, <2>1, <2>2, <2>3 DEF FieldsT
<1>5. ASSUME NEW a \in Apps, CallStart(a) PROVE FieldsT'
  <2>1. UNCHANGED <<made, thr, idxlocal, rio>>
    BY <1>5 DEF CallStart
  <2>2. call[a].fd \in Fds \cup {Unset} /\ call[a].i \in Indices
    BY <1>2, CallFields DEF Types, LocalsT
  <2>3. idx' = [idx EXCEPT ![call[a].o] = call[a].i] /\ fd' = [fd EXCEPT ![call[a].o] = call[a].fd]
    BY <1>2, <1>5, CallStartIs
  <2> QED
    BY <1>1, <2>1, <2>2, <2>3 DEF FieldsT
<1>6. ASSUME NEW t \in Threads, NEW b \in Binds, Accept(t, b) PROVE FieldsT'
  <2>1. UNCHANGED <<thr, fd, idx, idxlocal, rio>>
    BY <1>6 DEF Accept, fields
  <2>2. made' = made \/ \E o \in Ins : made' = made \cup {o}
    BY <1>2, <1>6, AcceptIs
  <2> QED
    BY <1>1, <2>1, <2>2, SocksAre DEF FieldsT
<1>7. ASSUME NEW t \in Threads, AcceptLocal(t) PROVE FieldsT'
  <2>1. UNCHANGED <<thr, fd, idx, idxlocal, rio>>
    BY <1>7 DEF AcceptLocal, fields
  <2>2. made' \subseteq made
    BY <1>7 DEF AcceptLocal
  <2> QED
    BY <1>1, <2>1, <2>2 DEF FieldsT
<1>8. ASSUME NEW t \in Threads, AcceptChoose(t) PROVE FieldsT'
  <2>1. UNCHANGED <<made, rio>>
    BY <1>8 DEF AcceptChoose
  <2>2. acc[t].fd \in Fds \cup {Unset} /\ acc[t].i \in Indices /\ acc[t].il \in Indices
    BY <1>2, AccFields DEF Types, LocalsT
  <2>3. /\ thr' = [thr EXCEPT ![acc[t].o] = thrLastIdx] /\ fd' = [fd EXCEPT ![acc[t].o] = acc[t].fd]
        /\ idx' = [idx EXCEPT ![acc[t].o] = acc[t].i]
        /\ idxlocal' = [idxlocal EXCEPT ![acc[t].o] = acc[t].il]
    BY <1>2, <1>8, AcceptChooseIs
  <2> QED
    BY <1>1, <2>1, <2>2, <2>3 DEF FieldsT
<1>9. ASSUME NEW t \in Threads, Run(t) PROVE FieldsT'
  <2>1. UNCHANGED <<made, thr, fd, idx, idxlocal>>
    BY <1>9 DEF Run, fields
  <2>2. rio' = rio \/ \E o, v : v \in {"off", "on"} /\ rio' = [rio EXCEPT ![o] = v]
    BY <1>9 DEF Run
  <2> QED
    BY <1>1, <2>1, <2>2 DEF FieldsT
<1>10. ASSUME NEW a \in Apps, CallOpen(a) \/ CallFails(a) \/ BindScan(a) \/ BindStore(a)
                              \/ ConnectInsert(a) \/ CallAborts(a)
       PROVE  FieldsT'
  BY <1>3, <1>10 DEF CallOpen, CallFails, BindScan, BindStore, ConnectInsert, CallAborts, fields
<1>11. ASSUME NEW t \in Threads, AcceptRoot(t) \/ AcceptStart(t) PROVE FieldsT'
  BY <1>3, <1>11 DEF AcceptRoot, AcceptStart, fields
<1>12. ASSUME NEW b \in Binds, PeerConnects(b) PROVE FieldsT'
  BY <1>3, <1>12 DEF PeerConnects, fields
<1>13. CASE StopReading \/ StartReading \/ UNCHANGED vars
  BY <1>3, <1>13 DEF StopReading, StartReading, vars, fields
<1> QED
  BY <1>4, <1>5, <1>6, <1>7, <1>8, <1>9, <1>10, <1>11, <1>12, <1>13, StepIs

\* So do the locals of calls and handlers.
LEMMA LocalsStep ==
    ASSUME AttachInv, [Next]_vars
    PROVE  LocalsT'
<1>1. call \in [Apps -> CallRecord] /\ acc \in [Threads -> AccRecord]
  BY DEF AttachInv, Types, LocalsT
<1>2. Types /\ IsFiniteSet(open)
  BY DEF AttachInv, FdsOpen
<1>3. ASSUME NEW a \in Apps, NEW S \in {Binds, Outs}, CallBegin(a, S) PROVE LocalsT'
  <2>1. PICK o \in S : CallTo(a, "open", o, Unset, Unset)
    BY <1>2, <1>3, CallBeginIs
  <2> QED
    BY <1>1, <1>3, <2>1 DEF LocalsT, CallTo, CallBegin
<1>4. ASSUME NEW a \in Apps, CallOpen(a) PROVE LocalsT'
  <2>1. \E d \in Fds, p \in {"scan", "insert"} : CallTo(a, p, call[a].o, d, call[a].i)
    BY <1>2, <1>4, CallOpenIs
  <2> QED
    BY <1>1, <1>4, <2>1 DEF LocalsT, CallTo, CallOpen
<1>5. ASSUME NEW a \in Apps, CallFails(a) PROVE LocalsT'
  <2>1. CallTo(a, "idle", 0, Unset, Unset)
    BY <1>2, <1>5, CallFailsIs
  <2> QED
    BY <1>1, <1>5, <2>1 DEF LocalsT, CallTo, CallFails
<1>6. ASSUME NEW a \in Apps, BindScan(a) PROVE LocalsT'
  <2>1. \E i \in 0..binds.last : CallTo(a, "store", call[a].o, call[a].fd, i)
    BY <1>2, <1>6, BindScanIs
  <2> QED
    BY <1>1, <1>6, <2>1 DEF LocalsT, CallTo, BindScan
<1>7. ASSUME NEW a \in Apps, BindStore(a) PROVE LocalsT'
  <2>1. CallTo(a, "start", call[a].o, call[a].fd, call[a].i)
    BY <1>2, <1>7, BindStoreIs
  <2> QED
    BY <1>1, <1>7, <2>1 DEF LocalsT, CallTo, BindStore
<1>8. ASSUME NEW a \in Apps, ConnectInsert(a) PROVE LocalsT'
  <2>1. CallTo(a, "start", call[a].o, call[a].fd, Len(conns))
    BY <1>2, <1>8, ConnectInsertIs
  <2> QED
    BY <1>1, <1>8, <2>1 DEF LocalsT, CallTo, ConnectInsert
<1>9. ASSUME NEW a \in Apps, CallStart(a) PROVE LocalsT'
  <2>1. CallTo(a, "idle", 0, Unset, Unset)
    BY <1>2, <1>9, CallStartIs
  <2> QED
    BY <1>1, <1>9, <2>1 DEF LocalsT, CallTo, CallStart
<1>10. ASSUME NEW a \in Apps, CallAborts(a) PROVE LocalsT'
  BY <1>1, <1>10 DEF LocalsT, CallAborts
<1>11. ASSUME NEW t \in Threads, NEW b \in Binds, Accept(t, b) PROVE LocalsT'
  <2>1. call' = call
    BY <1>11 DEF Accept
  <2>2. acc' \in [Threads -> AccRecord]
    BY <1>1, <1>2, <1>11, AcceptIs DEF AccTo
  <2> QED
    BY <1>1, <2>1, <2>2 DEF LocalsT
<1>12. ASSUME NEW t \in Threads, AcceptLocal(t) PROVE LocalsT'
  <2>1. call' = call /\ acc[t].pc # "idle"
    BY <1>12 DEF AcceptLocal
  <2>2. acc' \in [Threads -> AccRecord]
    BY <1>2, <1>12, <2>1, Working, AcceptLocalIs DEF AccTo, AccEnds
  <2> QED
    BY <1>1, <2>1, <2>2 DEF LocalsT
<1>13. ASSUME NEW t \in Threads, AcceptRoot(t) PROVE LocalsT'
  <2>1. call' = call
    BY <1>13 DEF AcceptRoot
  <2>2. acc' \in [Threads -> AccRecord]
    BY <1>2, <1>13, AcceptRootIs DEF AccTo, AccEnds
  <2> QED
    BY <1>1, <2>1, <2>2 DEF LocalsT
<1>14. ASSUME NEW t \in Threads, AcceptChoose(t) PROVE LocalsT'
  <2>1. call' = call
    BY <1>14 DEF AcceptChoose
  <2>2. acc' \in [Threads -> AccRecord]
    BY <1>2, <1>14, AcceptChooseIs DEF AccTo
  <2> QED
    BY <1>1, <2>1, <2>2 DEF LocalsT
<1>15. ASSUME NEW t \in Threads, AcceptStart(t) PROVE LocalsT'
  <2>1. call' = call
    BY <1>15 DEF AcceptStart
  <2>2. acc' \in [Threads -> AccRecord]
    BY <1>2, <1>15, AcceptStartIs DEF AccTo, AccEnds
  <2> QED
    BY <1>1, <2>1, <2>2 DEF LocalsT
<1>16. ASSUME NEW t \in Threads, Run(t) PROVE LocalsT'
  BY <1>1, <1>16 DEF LocalsT, Run
<1>17. ASSUME NEW b \in Binds, PeerConnects(b) PROVE LocalsT'
  BY <1>1, <1>17 DEF LocalsT, PeerConnects
<1>18. CASE StopReading \/ StartReading \/ UNCHANGED vars
  BY <1>1, <1>18 DEF LocalsT, StopReading, StartReading, vars
<1> QED
  BY <1>3, <1>4, <1>5, <1>6, <1>7, <1>8, <1>9, <1>10, <1>11, <1>12, <1>13, <1>14, <1>15, <1>16,
     <1>17, <1>18, StepIs

\* A bind whose call is at work below the store is one of those still to be
\* stored, so the array of binds has room for it.
LEMMA RoomForBind ==
    ASSUME AttachInv, NEW a \in Apps, call[a].pc \in {"scan", "store"}
    PROVE  /\ call[a].o \in Binds /\ call[a].o \in Waiting /\ IsFiniteSet(Waiting)
           /\ Cardinality(Waiting) \in Nat /\ Cardinality(Waiting) >= 1
           /\ binds.last \in Nat /\ binds.last + 1 <= NBinds
<1>1. CallOK(a)
  BY DEF AttachInv, CallsOK
<1>2. call[a].o \in Waiting /\ call[a].o \in Binds
  BY <1>1 DEF CallOK, Waiting
<1>3. IsFiniteSet(Waiting)
  <2>1. IsFiniteSet(Binds)
    BY AttachAssumption, FS_Interval DEF Binds
  <2>2. Waiting \subseteq Binds
    BY DEF Waiting
  <2> QED
    BY <2>1, <2>2, FS_Subset
<1>4. Cardinality(Waiting) \in Nat /\ Cardinality(Waiting) # 0
  BY <1>2, <1>3, FS_CardinalityType, FS_EmptySet
<1>5. binds.last \in 0..NBinds /\ NBinds \in Nat
  BY AttachAssumption DEF AttachInv, Types, ArraysT
<1>6. binds.last + Cardinality(Waiting) <= NBinds
  BY DEF AttachInv, BindsOK
<1>7. PICK c \in Nat : c = Cardinality(Waiting) /\ c >= 1
  BY <1>4
<1> QED
  BY <1>2, <1>3, <1>5, <1>6, <1>7

\* So do the arrays.
LEMMA ArraysStep ==
    ASSUME AttachInv, [Next]_vars
    PROVE  ArraysT'
<1>1. /\ binds \in [elems : [0..NBinds -> Binds \cup {0}], last : 0..NBinds]
      /\ conns \in Seq(Outs \cup Ins) /\ local \in [Binds -> Seq(Ins)]
  BY DEF AttachInv, Types, ArraysT
<1>2. Types
  BY DEF AttachInv
<1>3. CASE UNCHANGED <<binds, conns, local>>
  BY <1>1, <1>3 DEF ArraysT
<1>4. ASSUME NEW a \in Apps, BindStore(a) PROVE ArraysT'
  <2>1. call[a].pc = "store" /\ UNCHANGED <<conns, local>>
    BY <1>4 DEF BindStore
  <2>2. /\ call[a].o \in Binds /\ binds.last \in Nat /\ binds.last + 1 <= NBinds
    BY <2>1, RoomForBind
  <2>3. binds' = [elems |-> [binds.elems EXCEPT ![call[a].i] = call[a].o], last |-> binds.last + 1]
    BY <1>4 DEF BindStore
  <2>4. [binds.elems EXCEPT ![call[a].i] = call[a].o] \in [0..NBinds -> Binds \cup {0}]
    BY <1>1, <2>2
  <2>5. binds.last + 1 \in 0..NBinds
    BY <2>2, AttachAssumption
  <2> QED
    BY <1>1, <2>1, <2>3, <2>4, <2>5 DEF ArraysT
<1>5. ASSUME NEW a \in Apps, ConnectInsert(a) PROVE ArraysT'
  <2>1. call[a].pc = "insert" /\ UNCHANGED <<binds, local>>
    BY <1>5 DEF ConnectInsert
  <2>2. call[a].o \in Outs
    BY <2>1 DEF AttachInv, CallsOK, CallOK
  <2>3. conns' = Append(conns, call[a].o)
    BY <1>5 DEF ConnectInsert
  <2> QED
    BY <1>1, <2>1, <2>2, <2>3 DEF ArraysT
<1>6. ASSUME NEW t \in Threads, AcceptLocal(t) PROVE ArraysT'
  <2>1. acc[t].pc # "idle" /\ UNCHANGED <<binds, conns>>
    BY <1>6 DEF AcceptLocal
  <2>2. acc[t].b \in Binds /\ acc[t].o \in Ins
    BY <2>1, Working
  <2>3. local' = local \/ local' = [local EXCEPT ![acc[t].b] = Append(@, acc[t].o)]
    BY <1>6 DEF AcceptLocal
  <2>4. Append(local[acc[t].b], acc[t].o) \in Seq(Ins)
    BY <1>1, <2>2
  <2> QED
    BY <1>1, <2>1, <2>2, <2>3, <2>4 DEF ArraysT
<1>7. ASSUME NEW t \in Threads, AcceptRoot(t) PROVE ArraysT'
  <2>1. acc[t].pc # "idle" /\ UNCHANGED <<binds, local>>
    BY <1>7 DEF AcceptRoot
  <2>2. acc[t].o \in Ins
    BY <2>1, Working
  <2>3. conns' = conns \/ conns' = Append(conns, acc[t].o)
    BY <1>7 DEF AcceptRoot
  <2>4. Append(conns, acc[t].o) \in Seq(Outs \cup Ins)
    BY <1>1, <2>2
  <2> QED
    BY <1>1, <2>1, <2>3, <2>4 DEF ArraysT
<1>8. ASSUME NEW a \in Apps, NEW S \in {Binds, Outs}, CallBegin(a, S) PROVE ArraysT'
  BY <1>3, <1>8 DEF CallBegin, arrays
<1>9. ASSUME NEW a \in Apps, CallOpen(a) \/ CallFails(a) \/ BindScan(a) \/ CallAborts(a) \/ CallStart(a)
      PROVE  ArraysT'
  BY <1>3, <1>9 DEF CallOpen, CallFails, BindScan, CallAborts, CallStart, arrays
<1>10. ASSUME NEW t \in Threads, NEW b \in Binds, Accept(t, b) PROVE ArraysT'
  BY <1>3, <1>10 DEF Accept, arrays
<1>11. ASSUME NEW t \in Threads, AcceptChoose(t) \/ AcceptStart(t) \/ Run(t) PROVE ArraysT'
  BY <1>3, <1>11 DEF AcceptChoose, AcceptStart, Run, arrays
<1>12. ASSUME NEW b \in Binds, PeerConnects(b) PROVE ArraysT'
  BY <1>3, <1>12 DEF PeerConnects, arrays
<1>13. CASE StopReading \/ StartReading \/ UNCHANGED vars
  BY <1>3, <1>13 DEF StopReading, StartReading, vars, arrays
<1> QED
  BY <1>4, <1>5, <1>6, <1>7, <1>8, <1>9, <1>10, <1>11, <1>12, <1>13, StepIs

\* So do the counters, the descriptors and the flags.
LEMMA OthersStep ==
    ASSUME AttachInv, [Next]_vars
    PROVE  OthersT'
<1>1. /\ thrLastIdx \in Threads /\ reading \in {0, STOP_OP} /\ open \in SUBSET Fds
      /\ backlog \in [Binds -> Nat] /\ arrived \in 0..NIns /\ crashed \in BOOLEAN
      /\ chosen \in [Threads -> Nat] /\ raced \in BOOLEAN /\ failed \in BOOLEAN
      /\ late \in SUBSET (Outs \cup Ins) /\ Types /\ IsFiniteSet(open)
  BY DEF AttachInv, Types, OthersT, FdsOpen
<1>2. thrLastIdx' \in Threads /\ chosen' \in [Threads -> Nat]
  <2>1. ChooseThr \/ UNCHANGED <<thrLastIdx, chosen>>
    BY DEF Next, Environment, Call, Handler, Tasks, Accepts, CallBegin, CallOpen, CallFails,
           BindScan, BindStore, ConnectInsert, CallAborts, CallStart, PeerConnects, Accept,
           AcceptLocal, AcceptRoot, AcceptChoose, AcceptStart, Run, StopReading, StartReading, vars
  <2>2. WrapIdx(thrLastIdx) \in Threads
    BY <1>1, AttachAssumption DEF WrapIdx, Threads
  <2>3. [chosen EXCEPT ![thrLastIdx] = @ + 1] \in [Threads -> Nat]
    BY <1>1
  <2> QED
    BY <1>1, <2>1, <2>2, <2>3 DEF ChooseThr
<1>3. open' \in SUBSET Fds
  <2>1. ASSUME NEW a \in Apps, CallOpen(a) PROVE open' \in SUBSET Fds
    <3>1. \E d \in Fds : open' = open \cup {d}
      BY <1>1, <2>1, CallOpenIs
    <3> QED
      BY <1>1, <3>1
  <2>2. ASSUME NEW a \in Apps, CallFails(a) PROVE open' \in SUBSET Fds
    BY <1>1, <2>2, CallFailsIs
  <2>3. ASSUME NEW t \in Threads, NEW b \in Binds, Accept(t, b) PROVE open' \in SUBSET Fds
    <3>1. \E d \in Fds : open' = open \cup {d}
      BY <1>1, <2>3, AcceptIs
    <3> QED
      BY <1>1, <3>1
  <2>4. \/ open' = open
        \/ \E a \in Apps : CallOpen(a) \/ CallFails(a)
        \/ \E t \in Threads, b \in Binds : Accept(t, b)
    BY DEF Next, Environment, Call, Handler, Tasks, Accepts, CallBegin,
           BindScan, BindStore, ConnectInsert, CallAborts, CallStart, PeerConnects,
           AcceptLocal, AcceptRoot, AcceptChoose, AcceptStart, Run, StopReading, StartReading,
           vars, kernel
  <2> QED
    BY <1>1, <2>1, <2>2, <2>3, <2>4
<1>4. backlog' \in [Binds -> Nat] /\ arrived' \in 0..NIns
  <2>1. \/ UNCHANGED <<backlog, arrived>>
        \/ \E b \in Binds : PeerConnects(b)
        \/ \E t \in Threads, b \in Binds : Accept(t, b)
    BY DEF Next, Environment, Call, Handler, Tasks, Accepts, CallBegin, CallOpen, CallFails,
           BindScan, BindStore, ConnectInsert, CallAborts, CallStart,
           AcceptLocal, AcceptRoot, AcceptChoose, AcceptStart, Run, StopReading, StartReading,
           vars, kernel
  <2>2. ASSUME NEW b \in Binds, PeerConnects(b)
        PROVE  backlog' \in [Binds -> Nat] /\ arrived' \in 0..NIns
    BY <1>1, <2>2, AttachAssumption DEF PeerConnects
  <2>3. ASSUME NEW t \in Threads, NEW b \in Binds, Accept(t, b)
        PROVE  backlog' \in [Binds -> Nat] /\ arrived' \in 0..NIns
    <3>1. backlog[b] - 1 \in Nat /\ backlog' = [backlog EXCEPT ![b] = backlog[b] - 1] /\ arrived' = arrived
      BY <1>1, <2>3 DEF Accept
    <3> QED
      BY <1>1, <3>1
  <2> QED
    BY <1>1, <2>1, <2>2, <2>3
<1>5. crashed' \in BOOLEAN /\ reading' \in {0, STOP_OP}
  <2>1. ASSUME NEW t \in Threads, Run(t) PROVE crashed' \in BOOLEAN /\ reading' = reading
    BY <1>1, <2>1 DEF Run
  <2>2. \/ crashed' = crashed /\ reading' = reading
        \/ crashed' = TRUE /\ reading' = reading
        \/ StopReading \/ StartReading
        \/ \E t \in Threads : Run(t)
    BY DEF Next, Environment, Call, Handler, Tasks, Accepts, CallBegin, CallOpen, CallFails,
           BindScan, BindStore, ConnectInsert, CallAborts, CallStart, Accept, PeerConnects,
           AcceptLocal, AcceptRoot, AcceptChoose, AcceptStart, vars
  <2>3. ASSUME StopReading \/ StartReading
        PROVE  crashed' \in BOOLEAN /\ reading' \in {0, STOP_OP}
    <3>1. reading' \in {0, STOP_OP} /\ \E op, other : Bulk(op, other)
      BY <2>3 DEF StopReading, StartReading
    <3>2. crashed' = TRUE \/ crashed' = crashed
      BY <3>1 DEF Bulk
    <3> QED
      BY <1>1, <3>1, <3>2
  <2> QED
    BY <1>1, <2>1, <2>2, <2>3
<1>6. raced' \in BOOLEAN /\ failed' \in BOOLEAN
  <2>1. raced' = raced \/ \E a \in Apps : BindStore(a)
    BY DEF Next, Environment, Call, Handler, Tasks, Accepts, CallBegin, CallOpen, CallFails,
           BindScan, ConnectInsert, CallAborts, CallStart, Accept, PeerConnects,
           AcceptLocal, AcceptRoot, AcceptChoose, AcceptStart, Run, StopReading, StartReading, vars
  <2>2. ASSUME NEW a \in Apps, BindStore(a) PROVE raced' \in BOOLEAN
    BY <2>2 DEF BindStore
  <2>3. failed' = failed \/ failed' = TRUE
    BY DEF Next, Environment, Call, Handler, Tasks, Accepts, CallBegin, CallOpen, CallFails,
           BindScan, BindStore, ConnectInsert, CallAborts, CallStart, Accept, PeerConnects,
           AcceptLocal, AcceptRoot, AcceptChoose, AcceptStart, Run, StopReading, StartReading, vars
  <2>4. failed' \in BOOLEAN
    BY <1>1, <2>3
  <2> QED
    BY <1>1, <2>1, <2>2, <2>4
<1>7. late' \in SUBSET (Outs \cup Ins)
  <2>1. late' = late \/ late' = {c \in Outs \cup Ins : rio[c] = "uninit"}
    BY DEF Next, Environment, Call, Handler, Tasks, Accepts, CallBegin, CallOpen, CallFails,
           BindScan, BindStore, ConnectInsert, CallAborts, CallStart, Accept, PeerConnects,
           AcceptLocal, AcceptRoot, AcceptChoose, AcceptStart, Run, StopReading, StartReading, vars
  <2> QED
    BY <1>1, <2>1
<1> QED
  BY <1>2, <1>3, <1>4, <1>5, <1>6, <1>7 DEF OthersT

-----------------------------------------------------------------------------
(* What a step leaves alone.                                               *)

\* Pushing a socket's first task.
LEMMA StartTaskDoes ==
    ASSUME QueuesOK(jobs), NEW t \in Threads, NEW o \in Socks, StartTask(t, o)
    PROVE  \E k \in {"BIND", "CONN"} :
              /\ k = "BIND" <=> o \in Binds
              /\ jobs' \in [Threads -> Seq(Task)]
              /\ Elems(jobs'[t]) = Elems(jobs[t]) \cup {<<o, k>>}
              /\ \A u \in Threads : u # t => jobs'[u] = jobs[u]
              /\ <<o, k>> \notin Elems(jobs[t]) => QueuesOK(jobs')
<1>1. jobs \in [Threads -> Seq(Task)] /\ \A u \in Threads : Distinct(jobs[u])
  BY DEF QueuesOK
<1>2. PICK k \in {"BIND", "CONN"} : k = IF o \in Binds THEN "BIND" ELSE "CONN"
  OBVIOUS
<1>3. PICK j \in Task : j = <<o, k>>
  BY DEF Task
<1>4. jobs' = [jobs EXCEPT ![t] = Append(jobs[t], j)]
  BY <1>2, <1>3 DEF StartTask
<1>5. jobs[t] \in Seq(Task)
  BY <1>1
<1>6. /\ Append(jobs[t], j) \in Seq(Task) /\ Elems(Append(jobs[t], j)) = Elems(jobs[t]) \cup {j}
      /\ Distinct(jobs[t]) /\ j \notin Elems(jobs[t]) => Distinct(Append(jobs[t], j))
  BY <1>5, ElemsAppend
<1>7. PICK s \in Seq(Task) : /\ s = Append(jobs[t], j) /\ Elems(s) = Elems(jobs[t]) \cup {j}
                             /\ j \notin Elems(jobs[t]) => Distinct(s)
  BY <1>1, <1>6
<1>8. jobs' \in [Threads -> Seq(Task)] /\ jobs'[t] = s /\ \A u \in Threads : u # t => jobs'[u] = jobs[u]
  BY <1>1, <1>4, <1>7
<1>9. j \notin Elems(jobs[t]) => QueuesOK(jobs')
  <2> SUFFICES ASSUME j \notin Elems(jobs[t]), NEW u \in Threads PROVE Distinct(jobs'[u])
    BY <1>8 DEF QueuesOK
  <2>1. CASE u = t
    BY <1>7, <1>8, <2>1
  <2>2. CASE u # t
    BY <1>1, <1>8, <2>2
  <2> QED
    BY <2>1, <2>2
<1>10. Elems(jobs'[t]) = Elems(jobs[t]) \cup {<<o, k>>}
  BY <1>3, <1>7, <1>8
<1> QED
  BY <1>2, <1>3, <1>8, <1>9, <1>10

\* A thread takes its first task.
LEMMA RunDoes ==
    ASSUME QueuesOK(jobs), NEW t \in Threads, Run(t)
    PROVE  \E o \in Socks, op \in {"BIND", "CONN", "START_READ", "STOP_READ"} :
              /\ <<o, op>> \in Elems(jobs[t]) /\ Elems(jobs'[t]) = Elems(jobs[t]) \ {<<o, op>>}
              /\ \A u \in Threads : u # t => jobs'[u] = jobs[u]
              /\ QueuesOK(jobs')
              /\ op \in ReadOps /\ rio[o] = "uninit" => rio' = rio
              /\ ~(op \in ReadOps /\ rio[o] = "uninit") =>
                    /\ rio' = [rio EXCEPT ![o] = IF op = "STOP_READ" THEN "off" ELSE "on"]
                    /\ crashed' = crashed
<1>1. jobs \in [Threads -> Seq(Task)] /\ \A u \in Threads : Distinct(jobs[u])
  BY DEF QueuesOK
<1>2. jobs[t] \in Seq(Task) /\ jobs[t] # << >> /\ jobs' = [jobs EXCEPT ![t] = Tail(jobs[t])]
  BY <1>1 DEF Run
<1>3. /\ Tail(jobs[t]) \in Seq(Task) /\ Head(jobs[t]) \in Task
      /\ Elems(jobs[t]) = {Head(jobs[t])} \cup Elems(Tail(jobs[t]))
      /\ Distinct(Tail(jobs[t])) /\ Elems(Tail(jobs[t])) = Elems(jobs[t]) \ {Head(jobs[t])}
  <2>1. Distinct(jobs[t])
    BY <1>1
  <2> QED
    BY <1>2, <2>1, ElemsTail
<1>4. PICK o \in Socks, op \in {"BIND", "CONN", "START_READ", "STOP_READ"} :
         Head(jobs[t]) = <<o, op>> /\ Head(jobs[t])[1] = o /\ Head(jobs[t])[2] = op
  BY <1>3 DEF Task
<1>5. PICK s \in Seq(Task) : s = Tail(jobs[t]) /\ Distinct(s) /\ Elems(s) = Elems(jobs[t]) \ {<<o, op>>}
  BY <1>3, <1>4
<1>6. jobs' \in [Threads -> Seq(Task)] /\ jobs'[t] = s /\ \A u \in Threads : u # t => jobs'[u] = jobs[u]
  BY <1>1, <1>2, <1>5
<1>7. QueuesOK(jobs')
  <2> SUFFICES ASSUME NEW u \in Threads PROVE Distinct(jobs'[u])
    BY <1>6 DEF QueuesOK
  <2>1. CASE u = t
    BY <1>5, <1>6, <2>1
  <2>2. CASE u # t
    BY <1>1, <1>6, <2>2
  <2> QED
    BY <2>1, <2>2
<1>8. /\ op \in ReadOps /\ rio[o] = "uninit" => rio' = rio
      /\ ~(op \in ReadOps /\ rio[o] = "uninit") =>
            /\ rio' = [rio EXCEPT ![o] = IF op = "STOP_READ" THEN "off" ELSE "on"]
            /\ crashed' = crashed
  BY <1>4 DEF Run, ReadOps
<1>9. <<o, op>> \in Elems(jobs[t]) /\ Elems(jobs'[t]) = Elems(jobs[t]) \ {<<o, op>>}
  BY <1>3, <1>4, <1>5, <1>6
<1> QED
  BY <1>6, <1>7, <1>8, <1>9

\* The bulk loop: a crash, or each connection's task queued.
LEMMA BulkDoes ==
    ASSUME Types, NEW op \in ReadOps, NEW other \in ReadOps, op # other, Bulk(op, other)
    PROVE  \/ crashed' = TRUE /\ jobs' = jobs
           \/ /\ crashed' = crashed /\ \A c \in Elems(conns) : thr[c] \in Threads
              /\ QueuesOK(jobs')
              /\ \A t \in Threads : \A j \in Elems(jobs'[t]) :
                    j \in Elems(jobs[t]) \/ \E c \in Elems(conns) : thr[c] = t /\ j = <<c, op>>
              /\ \A c \in Elems(conns) : /\ <<c, op>> \in Elems(jobs'[thr[c]])
                                         /\ <<c, other>> \notin Elems(jobs'[thr[c]])
<1>1. CASE \E c \in Elems(conns) : thr[c] = Unset
  BY <1>1 DEF Bulk
<1>2. CASE ~ \E c \in Elems(conns) : thr[c] = Unset
  <2>1. /\ conns \in Seq(Outs \cup Ins) /\ thr \in [Socks -> Threads \cup {Unset}]
        /\ QueuesOK(jobs)
    BY DEF Types, ArraysT, FieldsT
  <2>2. Elems(conns) \subseteq Socks
    BY <2>1, ElemsEmpty, SocksAre
  <2>3. \A c \in Elems(conns) : thr[c] \in Threads
    BY <1>2, <2>1, <2>2
  <2>4. jobs' = Turns(op, other)[Len(conns)] /\ crashed' = crashed
    BY <1>2 DEF Bulk
  <2> QED
    BY <2>1, <2>3, <2>4, TurnsDo
<1> QED
  BY <1>1, <1>2

\* A step changes at most the fields of x, keeps the threads of binds, closes no
\* descriptor, publishes at most x and queues at most x's own task or read tasks.
Kept(o) == /\ thr'[o] = thr[o] /\ fd'[o] = fd[o] /\ idx'[o] = idx[o]
           /\ idxlocal'[o] = idxlocal[o] /\ rio'[o] = rio[o] /\ (o \in made' <=> o \in made)

Queues(x) == \A t \in Threads : \A j \in Elems(jobs'[t]) :
                j \in Elems(jobs[t]) \/ j[1] = x \/ j[2] \in ReadOps

Frame(x) ==
    /\ \A o \in Socks : o # x => Kept(o)
    /\ \A o \in Binds : o \in made => thr'[o] = thr[o] /\ o \in made'
    /\ open \subseteq open'
    /\ conns' = conns \/ (x \in Outs \cup Ins /\ conns' = Append(conns, x))
    /\ Queues(x)

\* Most steps change no socket at all.
LEMMA FrameSame ==
    ASSUME UNCHANGED <<made, thr, fd, idx, idxlocal, rio, conns, jobs>>, open \subseteq open', NEW x
    PROVE  Frame(x)
<1>1. \A o \in Socks : Kept(o)
  BY DEF Kept
<1>2. Queues(x)
  BY DEF Queues
<1> QED
  BY <1>1, <1>2 DEF Frame

\* The steps of the calls.
LEMMA CallFrames ==
    ASSUME AttachInv, NEW a \in Apps
    PROVE  /\ \A S \in {Binds, Outs} : CallBegin(a, S) =>
                 \E o \in S : /\ o \notin made /\ made' = made \cup {o} /\ thr'[o] \in Threads
                              /\ Frame(o) /\ CallTo(a, "open", o, Unset, Unset)
           /\ CallOpen(a) \/ CallFails(a) \/ BindScan(a) \/ BindStore(a) \/ CallAborts(a) => Frame(0)
           /\ ConnectInsert(a) \/ CallStart(a) => Frame(call[a].o)
<1>1. /\ Types /\ IsFiniteSet(open) /\ thrLastIdx \in Threads /\ thr \in [Socks -> Threads \cup {Unset}]
      /\ fd \in [Socks -> Fds \cup {Unset}] /\ idx \in [Socks -> Indices] /\ QueuesOK(jobs)
  BY DEF AttachInv, FdsOpen, Types, OthersT, FieldsT
<1>2. ASSUME NEW S \in {Binds, Outs}, CallBegin(a, S)
      PROVE  \E o \in S : /\ o \notin made /\ made' = made \cup {o} /\ thr'[o] \in Threads
                          /\ Frame(o) /\ CallTo(a, "open", o, Unset, Unset)
  <2>1. PICK o \in S : /\ o \notin made /\ made' = made \cup {o}
                       /\ thr' = [thr EXCEPT ![o] = thrLastIdx]
                       /\ CallTo(a, "open", o, Unset, Unset)
    BY <1>1, <1>2, CallBeginIs
  <2>2. UNCHANGED <<fd, idx, idxlocal, rio, conns, jobs, open>>
    BY <1>2 DEF CallBegin, arrays, kernel
  <2>3. o \in Socks /\ Binds \subseteq Socks
    BY SocksAre
  <2>4. thr'[o] \in Threads
    BY <1>1, <2>1, <2>3
  <2>5. Frame(o)
    <3>1. \A p \in Socks : p # o => Kept(p)
      BY <1>1, <2>1, <2>2, <2>3 DEF Kept
    <3>2. Queues(o)
      BY <2>2 DEF Queues
    <3>3. \A p \in Binds : p \in made => thr'[p] = thr[p] /\ p \in made'
      BY <1>1, <2>1, <2>3
    <3> QED
      BY <2>2, <3>1, <3>2, <3>3 DEF Frame
  <2> QED
    BY <2>1, <2>4, <2>5
<1>3. ASSUME CallOpen(a) \/ CallFails(a) \/ BindScan(a) \/ BindStore(a) \/ CallAborts(a)
      PROVE  Frame(0)
  <2>1. UNCHANGED <<made, thr, fd, idx, idxlocal, rio, conns, jobs>>
    BY <1>3 DEF CallOpen, CallFails, BindScan, BindStore, CallAborts, fields, arrays
  <2>2. open \subseteq open'
    <3>1. CASE CallOpen(a)
      BY <3>1 DEF CallOpen
    <3>2. CASE CallFails(a)
      BY <1>1, <3>2, CallFailsIs
    <3>3. CASE BindScan(a) \/ BindStore(a) \/ CallAborts(a)
      BY <3>3 DEF BindScan, BindStore, CallAborts, kernel
    <3> QED
      BY <1>3, <3>1, <3>2, <3>3
  <2> QED
    BY <2>1, <2>2, FrameSame
<1>4. ASSUME ConnectInsert(a) PROVE Frame(call[a].o)
  <2>1. /\ UNCHANGED <<made, thr, fd, idx, idxlocal, rio, jobs, open>>
        /\ conns' = Append(conns, call[a].o) /\ call[a].pc = "insert"
    BY <1>4 DEF ConnectInsert, fields, kernel
  <2>2. call[a].o \in Outs
    BY <2>1 DEF AttachInv, CallsOK, CallOK
  <2>3. Queues(call[a].o)
    BY <2>1 DEF Queues
  <2> QED
    BY <2>1, <2>2, <2>3 DEF Frame, Kept
<1>5. ASSUME CallStart(a) PROVE Frame(call[a].o)
  <2>1. /\ UNCHANGED <<made, thr, idxlocal, rio, conns, open>>
        /\ StartTask(thr[call[a].o], call[a].o) /\ call[a].pc = "start"
    BY <1>5 DEF CallStart, arrays, kernel
  <2>2. PICK o \in Socks : o = call[a].o /\ thr[o] \in Threads
    BY <2>1, Working, SocksAre
  <2>3. idx' = [idx EXCEPT ![o] = call[a].i] /\ fd' = [fd EXCEPT ![o] = call[a].fd]
    BY <1>1, <1>5, <2>2, CallStartIs
  <2>4. PICK k \in {"BIND", "CONN"} :
           /\ Elems(jobs'[thr[o]]) = Elems(jobs[thr[o]]) \cup {<<o, k>>}
           /\ \A u \in Threads : u # thr[o] => jobs'[u] = jobs[u]
    BY <1>1, <2>1, <2>2, StartTaskDoes
  <2>5. Queues(o)
    BY <2>4 DEF Queues
  <2>6. \A p \in Socks : p # o => Kept(p)
    BY <1>1, <2>1, <2>3 DEF Kept
  <2> QED
    BY <2>1, <2>2, <2>5, <2>6 DEF Frame
<1> QED
  BY <1>2, <1>3, <1>4, <1>5

\* x is not the socket of a call or of an accept handler.
Free(x) == /\ \A a \in Apps : call[a].pc # "idle" => call[a].o # x
           /\ \A t \in Threads : acc[t].pc # "idle" => acc[t].o # x

\* The steps of the accept handlers.
LEMMA AccFrames ==
    ASSUME AttachInv, NEW t \in Threads
    PROVE  /\ \A b \in Binds : Accept(t, b) =>
                 \E d \in Fds :
                    /\ d \notin open /\ open' = open \cup {d} /\ IsFiniteSet(open')
                    /\ \/ made' = made /\ acc' = acc /\ failed' = TRUE /\ Frame(0)
                       \/ \E o \in Ins : /\ o \notin made /\ made' = made \cup {o} /\ failed' = failed
                                         /\ Frame(o) /\ AccTo(t, "local", b, o, d, Unset, Unset)
           /\ AcceptLocal(t) \/ AcceptRoot(t) \/ AcceptChoose(t) \/ AcceptStart(t) => Frame(acc[t].o)
<1>1. /\ Types /\ IsFiniteSet(open) /\ thr \in [Socks -> Threads \cup {Unset}]
      /\ fd \in [Socks -> Fds \cup {Unset}] /\ idx \in [Socks -> Indices]
      /\ idxlocal \in [Socks -> Indices] /\ QueuesOK(jobs)
  BY DEF AttachInv, FdsOpen, Types, OthersT, FieldsT
<1>2. ASSUME NEW b \in Binds, Accept(t, b)
      PROVE  \E d \in Fds :
                /\ d \notin open /\ open' = open \cup {d} /\ IsFiniteSet(open')
                /\ \/ made' = made /\ acc' = acc /\ failed' = TRUE /\ Frame(0)
                   \/ \E o \in Ins : /\ o \notin made /\ made' = made \cup {o} /\ failed' = failed
                                     /\ Frame(o) /\ AccTo(t, "local", b, o, d, Unset, Unset)
  <2>1. PICK d \in Fds :
           /\ d \notin open /\ open' = open \cup {d} /\ IsFiniteSet(open')
           /\ \/ /\ made' = made /\ acc' = acc /\ failed' = TRUE
              \/ \E o \in Ins : /\ o \notin made /\ made' = made \cup {o} /\ failed' = failed
                                /\ AccTo(t, "local", b, o, d, Unset, Unset)
    BY <1>1, <1>2, AcceptIs
  <2>2. UNCHANGED <<thr, fd, idx, idxlocal, rio, conns, jobs>>
    BY <1>2 DEF Accept, fields, arrays
  <2>3. ASSUME made' = made PROVE Frame(0)
    BY <2>1, <2>2, <2>3, FrameSame
  <2>4. ASSUME NEW o \in Ins, o \notin made, made' = made \cup {o} PROVE Frame(o)
    <3>1. \A p \in Socks : p # o => Kept(p)
      BY <2>2, <2>4 DEF Kept
    <3>2. Queues(o)
      BY <2>2 DEF Queues
    <3> QED
      BY <2>1, <2>2, <2>4, <3>1, <3>2 DEF Frame
  <2> QED
    BY <2>1, <2>3, <2>4
<1>3. ASSUME AcceptLocal(t) PROVE Frame(acc[t].o)
  <2>1. UNCHANGED <<thr, fd, idx, idxlocal, rio, conns, jobs, open>> /\ acc[t].pc # "idle"
    BY <1>3 DEF AcceptLocal, fields, kernel
  <2>2. made' = made \/ made' = made \ {acc[t].o}
    BY <1>3 DEF AcceptLocal
  <2>3. acc[t].o \in Ins
    BY <2>1, Working
  <2>4. \A p \in Socks : p # acc[t].o => Kept(p)
    BY <2>1, <2>2 DEF Kept
  <2>5. Queues(acc[t].o)
    BY <2>1 DEF Queues
  <2> QED
    BY <2>1, <2>2, <2>3, <2>4, <2>5, SocksAre DEF Frame
<1>4. ASSUME AcceptRoot(t) PROVE Frame(acc[t].o)
  <2>1. UNCHANGED <<made, thr, fd, idx, idxlocal, rio, jobs, open>> /\ acc[t].pc # "idle"
    BY <1>4 DEF AcceptRoot, fields, kernel
  <2>2. conns' = conns \/ conns' = Append(conns, acc[t].o)
    BY <1>4 DEF AcceptRoot
  <2>3. acc[t].o \in Ins
    BY <2>1, Working
  <2>4. \A p \in Socks : p # acc[t].o => Kept(p)
    BY <2>1 DEF Kept
  <2>5. Queues(acc[t].o)
    BY <2>1 DEF Queues
  <2> QED
    BY <2>1, <2>2, <2>3, <2>4, <2>5 DEF Frame
<1>5. ASSUME AcceptChoose(t) PROVE Frame(acc[t].o)
  <2>1. UNCHANGED <<made, rio, conns, jobs, open>> /\ acc[t].pc # "idle"
    BY <1>5 DEF AcceptChoose, arrays, kernel
  <2>2. PICK o \in Ins : o = acc[t].o
    BY <2>1, Working
  <2>3. /\ thr' = [thr EXCEPT ![o] = thrLastIdx] /\ fd' = [fd EXCEPT ![o] = acc[t].fd]
        /\ idx' = [idx EXCEPT ![o] = acc[t].i] /\ idxlocal' = [idxlocal EXCEPT ![o] = acc[t].il]
    BY <1>1, <1>5, <2>2, AcceptChooseIs
  <2>4. \A p \in Socks : p # o => Kept(p)
    BY <1>1, <2>1, <2>3 DEF Kept
  <2>5. Queues(o)
    BY <2>1 DEF Queues
  <2>6. \A p \in Binds : p # o /\ p \in Socks
    BY <2>2, SocksAre
  <2>7. \A p \in Binds : p \in made => thr'[p] = thr[p] /\ p \in made'
    BY <2>1, <2>4, <2>6 DEF Kept
  <2> QED
    BY <2>1, <2>2, <2>4, <2>5, <2>7 DEF Frame
<1>6. ASSUME AcceptStart(t) PROVE Frame(acc[t].o)
  <2>1. UNCHANGED <<made, thr, fd, idx, idxlocal, rio, conns, open>> /\ acc[t].pc = "start"
    BY <1>6 DEF AcceptStart, fields, arrays, kernel
  <2>2. PICK o \in Ins : o = acc[t].o /\ thr[o] \in Threads /\ o \in Socks
    <3>1. AccOK(t)
      BY DEF AttachInv, AccsOK
    <3> QED
      BY <2>1, <3>1, SocksAre DEF AccOK
  <2>3. StartTask(thr[o], o)
    BY <1>6, <2>2 DEF AcceptStart
  <2>4. PICK k \in {"BIND", "CONN"} :
           /\ Elems(jobs'[thr[o]]) = Elems(jobs[thr[o]]) \cup {<<o, k>>}
           /\ \A u \in Threads : u # thr[o] => jobs'[u] = jobs[u]
    BY <1>1, <2>2, <2>3, StartTaskDoes
  <2>5. Queues(o)
    BY <2>4 DEF Queues
  <2>6. \A p \in Socks : p # o => Kept(p)
    BY <2>1 DEF Kept
  <2> QED
    BY <2>1, <2>2, <2>5, <2>6 DEF Frame
<1> QED
  BY <1>2, <1>3, <1>4, <1>5, <1>6

\* The steps of the threads, the bulk loop and the peers.  A task that changes
\* a watcher is not one of a socket that a call or a handler still works on.
LEMMA OtherFrames ==
    ASSUME AttachInv
    PROVE  /\ \A t \in Threads : Run(t) => \E x : Frame(x) /\ Free(x)
           /\ \A b \in Binds : PeerConnects(b) => Frame(0)
           /\ StopReading \/ StartReading \/ UNCHANGED vars => Frame(0)
<1>1. Types /\ QueuesOK(jobs) /\ rio \in [Socks -> {"uninit", "off", "on"}] /\ TasksOK
  BY DEF AttachInv, Types, FieldsT
<1>2. ASSUME NEW t \in Threads, Run(t) PROVE \E x : Frame(x) /\ Free(x)
  <2>1. UNCHANGED <<made, thr, fd, idx, idxlocal, conns, open>>
    BY <1>2 DEF Run, fields, arrays, kernel
  <2>2. PICK o \in Socks, op \in {"BIND", "CONN", "START_READ", "STOP_READ"} :
              /\ <<o, op>> \in Elems(jobs[t]) /\ Elems(jobs'[t]) = Elems(jobs[t]) \ {<<o, op>>}
              /\ \A u \in Threads : u # t => jobs'[u] = jobs[u]
              /\ QueuesOK(jobs')
              /\ op \in ReadOps /\ rio[o] = "uninit" => rio' = rio
              /\ ~(op \in ReadOps /\ rio[o] = "uninit") =>
                    /\ rio' = [rio EXCEPT ![o] = IF op = "STOP_READ" THEN "off" ELSE "on"]
                    /\ crashed' = crashed
    BY <1>1, <1>2, RunDoes
  <2>3. \A x : Queues(x)
    BY <2>2 DEF Queues
  <2>4. CASE op \in ReadOps /\ rio[o] = "uninit"
    <3>1. \A p \in Socks : Kept(p)
      BY <2>1, <2>2, <2>4 DEF Kept
    <3>2. Frame(0)
      BY <2>1, <2>3, <3>1 DEF Frame
    <3>3. Free(0)
      <4>1. 0 \notin Socks
        BY SocksAre
      <4>2. \A a \in Apps : call[a].pc # "idle" => call[a].o \in Socks
        BY Working, SocksAre
      <4>3. \A u \in Threads : acc[u].pc # "idle" => acc[u].o \in Socks
        BY Working, SocksAre
      <4> QED
        BY <4>1, <4>2, <4>3 DEF Free
    <3> QED
      BY <3>2, <3>3
  <2>5. CASE ~(op \in ReadOps /\ rio[o] = "uninit")
    <3>1. \A p \in Socks : p # o => Kept(p)
      BY <1>1, <2>1, <2>2, <2>5 DEF Kept
    <3>2. Frame(o)
      BY <2>1, <2>3, <3>1 DEF Frame
    <3>3. rio[o] # "uninit" \/ op \in {"BIND", "CONN"}
      BY <2>5 DEF ReadOps
    <3>4. op \in {"BIND", "CONN"} => idx[o] # Unset
      BY <1>1, <2>2 DEF TasksOK, TaskOK
    <3>5. \A a \in Apps : call[a].pc # "idle" => call[a].o # o
      BY <3>3, <3>4, Working
    <3>6. ASSUME NEW u \in Threads, acc[u].pc # "idle", acc[u].o = o PROVE FALSE
      <4>1. rio[o] = "uninit" /\ o \in Ins
        BY <3>6, Working
      <4>2. AccOK(u)
        BY DEF AttachInv, AccsOK
      <4>3. acc[u].pc = "start"
        <5>1. idx[acc[u].o] # Unset /\ acc[u].pc \in {"idle", "local", "root", "choose", "start"}
          BY <1>1, <3>3, <3>4, <3>6, <4>1, AccFields DEF Types, LocalsT
        <5> QED
          BY <3>6, <4>2, <5>1 DEF AccOK
      <4>4. <<o, "CONN">> \notin Elems(jobs[t])
        BY <3>6, <4>2, <4>3 DEF AccOK
      <4>5. op = "BIND"
        BY <2>2, <3>3, <4>1, <4>4
      <4>6. o \in Binds
        BY <1>1, <2>2, <4>5 DEF TasksOK, TaskOK
      <4> QED
        BY <4>1, <4>6, SocksAre
    <3>7. Free(o)
      BY <3>5, <3>6 DEF Free
    <3> QED
      BY <3>2, <3>7
  <2> QED
    BY <2>4, <2>5
<1>3. ASSUME NEW b \in Binds, PeerConnects(b) PROVE Frame(0)
  BY <1>3, FrameSame DEF PeerConnects, fields, arrays
<1>4. ASSUME UNCHANGED vars PROVE Frame(0)
  BY <1>4, FrameSame DEF vars, fields, arrays, kernel
<1>5. ASSUME StopReading \/ StartReading PROVE Frame(0)
  <2>1. UNCHANGED <<made, thr, fd, idx, idxlocal, rio, conns, open>>
    BY <1>5 DEF StopReading, StartReading, fields, arrays, kernel
  <2>2. PICK op \in ReadOps, other \in ReadOps : op # other /\ Bulk(op, other)
    BY <1>5 DEF StopReading, StartReading, ReadOps
  <2>3. Queues(0)
    <3>1. CASE jobs' = jobs
      BY <3>1 DEF Queues
    <3>2. CASE \A t \in Threads : \A j \in Elems(jobs'[t]) :
                  j \in Elems(jobs[t]) \/ \E c \in Elems(conns) : thr[c] = t /\ j = <<c, op>>
      BY <2>2, <3>2 DEF Queues
    <3> QED
      BY <1>1, <2>2, <3>1, <3>2, BulkDoes
  <2> QED
    BY <2>1, <2>3 DEF Frame, Kept
<1> QED
  BY <1>2, <1>3, <1>4, <1>5

\* What was published stays where it is.
LEMMA ConnsGrow ==
    ASSUME AttachInv, NEW x, Frame(x)
    PROVE  /\ conns \in Seq(Outs \cup Ins) /\ conns' \in Seq(Outs \cup Ins)
           /\ Elems(conns) \subseteq Elems(conns') /\ Elems(conns') \subseteq Elems(conns) \cup {x}
           /\ Len(conns) \in Nat /\ Len(conns') \in Nat /\ Len(conns) <= Len(conns')
           /\ \A k \in 1..Len(conns) : conns'[k] = conns[k] /\ k \in 1..Len(conns')
<1>1. conns \in Seq(Outs \cup Ins)
  BY DEF AttachInv, Types, ArraysT
<1>2. CASE conns' = conns
  BY <1>1, <1>2
<1>3. CASE x \in Outs \cup Ins /\ conns' = Append(conns, x)
  <2>1. /\ Append(conns, x) \in Seq(Outs \cup Ins)
        /\ Elems(Append(conns, x)) = Elems(conns) \cup {x}
    BY <1>1, <1>3, ElemsAppend
  <2>2. /\ Len(Append(conns, x)) = Len(conns) + 1 /\ Len(conns) \in Nat
        /\ \A k \in 1..Len(conns) : Append(conns, x)[k] = conns[k]
    BY <1>1, <1>3
  <2> QED
    BY <1>1, <1>3, <2>1, <2>2
<1> QED
  BY <1>2, <1>3 DEF Frame

\* The other sockets keep their condition.
LEMMA SockFrame ==
    ASSUME AttachInv, NEW x, Frame(x), NEW o \in Socks, o # x
    PROVE  FreshOK(o)' /\ StartedOK(o)'
<1>1. FreshOK(o) /\ StartedOK(o)
  BY DEF AttachInv, SocksOK
<1>2. Kept(o) /\ open \subseteq open'
  BY DEF Frame
<1>3. FreshOK(o)'
  BY <1>1, <1>2 DEF FreshOK, Kept
<1>4. StartedOK(o)'
  BY <1>1, <1>2 DEF StartedOK, Kept
<1> QED
  BY <1>3, <1>4

\* A call that is not at work on x keeps its condition.
LEMMA CallFrame ==
    ASSUME AttachInv, NEW x, Frame(x), NEW a \in Apps, call'[a] = call[a],
           call[a].pc = "idle" \/ call[a].o # x
    PROVE  CallOK(a)'
<1>1. PICK c \in CallRecord : c = call[a]
  BY DEF AttachInv, Types, LocalsT
<1>2. CASE c.pc = "idle"
  <2>1. c = NoCall
    BY <1>1, <1>2 DEF AttachInv, CallsOK, CallOK
  <2> QED
    BY <1>1, <2>1 DEF CallOK, NoCall
<1>3. CASE c.pc # "idle"
  <2>1. PICK o \in Binds \cup Outs : o = c.o /\ o # x /\ o \in Socks
    BY <1>1, <1>3, Working, SocksAre
  <2>2. Kept(o)
    BY <2>1 DEF Frame
  <2>3. /\ o \in made /\ thr[o] \in Threads /\ fd[o] = Unset /\ idx[o] = Unset /\ rio[o] = "uninit"
        /\ c.pc \in {"idle", "open"} <=> c.fd = Unset
        /\ c.pc \in {"scan", "store"} => o \in Binds
        /\ c.pc = "insert" => o \in Outs
        /\ c.pc \in {"open", "insert"} => o \notin Elems(conns)
        /\ c.pc = "start" => c.i # Unset
        /\ c.pc = "start" /\ o \in Outs => c.i + 1 \in 1..Len(conns) /\ conns[c.i + 1] = o
    BY <1>1, <1>3, <2>1 DEF AttachInv, CallsOK, CallOK
  <2>4. o \in made' /\ thr'[o] \in Threads /\ fd'[o] = Unset /\ idx'[o] = Unset /\ rio'[o] = "uninit"
    BY <2>2, <2>3 DEF Kept
  <2>5. c.pc \in {"open", "insert"} => o \notin Elems(conns')
    BY <2>1, <2>3, ConnsGrow
  <2>6. c.pc = "start" /\ o \in Outs => c.i + 1 \in 1..Len(conns') /\ conns'[c.i + 1] = o
    BY <2>3, ConnsGrow
  <2> QED
    BY <1>1, <1>3, <2>1, <2>3, <2>4, <2>5, <2>6 DEF CallOK
<1> QED
  BY <1>2, <1>3

\* At most x is added to the conns of binds.
LocalFrame(x) == \A b \in Binds : local'[b] = local[b] \/ (x \in Ins /\ local'[b] = Append(local[b], x))

\* A handler that is not at work on x, and whose bind's conns did not change,
\* keeps its condition.
LEMMA AccFrame ==
    ASSUME AttachInv, NEW x, Frame(x), LocalFrame(x), NEW t \in Threads, acc'[t] = acc[t],
           acc[t].pc = "idle" \/ acc[t].o # x,
           acc[t].pc = "idle" \/ local'[acc[t].b] = local[acc[t].b]
    PROVE  AccOK(t)'
<1>1. PICK h \in AccRecord : h = acc[t]
  BY DEF AttachInv, Types, LocalsT
<1>2. CASE h.pc = "idle"
  <2>1. h = NoAccept
    BY <1>1, <1>2 DEF AttachInv, AccsOK, AccOK
  <2> QED
    BY <1>1, <2>1 DEF AccOK, NoAccept
<1>3. CASE h.pc # "idle"
  <2>1. PICK o \in Ins, b \in Binds : /\ o = h.o /\ o # x /\ o \in Socks /\ b = h.b /\ b \in made
                                      /\ thr[b] = t /\ b \in Socks
    BY <1>1, <1>3, Working, SocksAre
  <2>2. Kept(o) /\ thr'[b] = t /\ b \in made'
    BY <2>1 DEF Frame
  <2>3. /\ o \in made /\ h.fd # Unset /\ rio[o] = "uninit"
        /\ h.pc \in {"local", "root", "choose"} =>
              thr[o] = Unset /\ fd[o] = Unset /\ idx[o] = Unset /\ idxlocal[o] = Unset
        /\ h.pc = "local" => \A d \in Binds : o \notin Elems(local[d])
        /\ h.pc \in {"local", "root"} => o \notin Elems(conns)
        /\ h.pc \in {"root", "choose"} =>
              local[b] # << >> /\ h.il = Len(local[b]) - 1 /\ local[b][Len(local[b])] = o
        /\ h.pc \in {"choose", "start"} => h.i + 1 \in 1..Len(conns) /\ conns[h.i + 1] = o
        /\ h.pc = "start" => /\ idx[o] = h.i /\ thr[o] \in Threads
                             /\ \A u \in Threads : <<o, "CONN">> \notin Elems(jobs[u])
    BY <1>1, <1>3, <2>1 DEF AttachInv, AccsOK, AccOK
  <2>4. /\ o \in made' /\ rio'[o] = "uninit"
        /\ h.pc \in {"local", "root", "choose"} =>
              thr'[o] = Unset /\ fd'[o] = Unset /\ idx'[o] = Unset /\ idxlocal'[o] = Unset
        /\ h.pc = "start" => idx'[o] = h.i /\ thr'[o] \in Threads
    BY <2>2, <2>3 DEF Kept
  <2>5. h.pc = "local" => \A d \in Binds : o \notin Elems(local'[d])
    <3> SUFFICES ASSUME h.pc = "local", NEW d \in Binds PROVE o \notin Elems(local'[d])
      OBVIOUS
    <3>1. o \notin Elems(local[d]) /\ local[d] \in Seq(Ins)
      BY <2>3 DEF AttachInv, Types, ArraysT
    <3>2. ASSUME x \in Ins PROVE Elems(Append(local[d], x)) = Elems(local[d]) \cup {x}
      BY <3>1, <3>2, ElemsAppend
    <3> QED
      BY <2>1, <3>1, <3>2 DEF LocalFrame
  <2>6. h.pc \in {"local", "root"} => o \notin Elems(conns')
    BY <2>1, <2>3, ConnsGrow
  <2>7. local'[b] = local[b]
    BY <1>1, <1>3, <2>1
  <2>8. h.pc \in {"choose", "start"} => h.i + 1 \in 1..Len(conns') /\ conns'[h.i + 1] = o
    BY <2>3, ConnsGrow
  <2>9. h.pc = "start" => \A u \in Threads : <<o, "CONN">> \notin Elems(jobs'[u])
    <3> SUFFICES ASSUME h.pc = "start", NEW u \in Threads, <<o, "CONN">> \in Elems(jobs'[u]) PROVE FALSE
      OBVIOUS
    <3>1. PICK j : j = <<o, "CONN">>
      OBVIOUS
    <3>2. j[1] = o /\ j[2] = "CONN"
      BY <3>1
    <3>3. j \in Elems(jobs[u]) \/ j[1] = x \/ j[2] \in ReadOps
      BY <3>1 DEF Frame, Queues
    <3> QED
      BY <2>1, <2>3, <3>1, <3>2, <3>3 DEF ReadOps
  <2> QED
    BY <1>1, <1>3, <2>1, <2>2, <2>3, <2>4, <2>5, <2>6, <2>7, <2>8, <2>9 DEF AccOK
<1> QED
  BY <1>2, <1>3

\* Sockets that are not in use stay fresh, and started ones complete.
LEMMA SocksStep ==
    ASSUME AttachInv, [Next]_vars
    PROVE  SocksOK'
<1> DEFINE OK(o) == FreshOK(o)' /\ StartedOK(o)'
<1>1. /\ Types /\ IsFiniteSet(open) /\ thrLastIdx \in Threads /\ thr \in [Socks -> Threads \cup {Unset}]
      /\ fd \in [Socks -> Fds \cup {Unset}] /\ idx \in [Socks -> Indices] /\ QueuesOK(jobs)
      /\ idxlocal \in [Socks -> Indices] /\ rio \in [Socks -> {"uninit", "off", "on"}]
      /\ \A o \in Socks : FreshOK(o) /\ StartedOK(o)
  BY DEF AttachInv, FdsOpen, Types, OthersT, FieldsT, SocksOK
<1>2. ASSUME NEW x, Frame(x), x \in Socks => OK(x) PROVE SocksOK'
  <2>1. \A o \in Socks : o # x => OK(o)
    BY <1>2, SockFrame
  <2> HIDE DEF OK
  <2>2. \A o \in Socks : OK(o)
    BY <1>2, <2>1
  <2> USE DEF OK
  <2> QED
    BY <2>2 DEF SocksOK
<1>3. ASSUME Frame(0) PROVE SocksOK'
  <2>1. 0 \notin Socks
    BY SocksAre
  <2> QED
    BY <1>2, <1>3, <2>1
<1>4. ASSUME NEW x, Frame(x), UNCHANGED <<made, thr, fd, idx, idxlocal, rio>> PROVE SocksOK'
  <2>1. open \subseteq open'
    BY <1>4 DEF Frame
  <2>2. \A o \in Socks : FreshOK(o)' /\ StartedOK(o)'
    BY <1>1, <1>4, <2>1 DEF FreshOK, StartedOK
  <2> QED
    BY <2>2 DEF SocksOK
<1>5. ASSUME NEW o \in Socks, o \notin made, made' = made \cup {o}, Frame(o),
             UNCHANGED <<fd, idx, idxlocal, rio>>
      PROVE  SocksOK'
  <2>1. idx'[o] = Unset /\ rio'[o] = "uninit" /\ o \in made'
    BY <1>1, <1>5 DEF FreshOK
  <2>2. OK(o)
    BY <2>1 DEF FreshOK, StartedOK
  <2> QED
    BY <1>2, <1>5, <2>2
<1>6. ASSUME NEW a \in Apps, NEW S \in {Binds, Outs}, CallBegin(a, S) PROVE SocksOK'
  <2>1. PICK o \in S : o \notin made /\ made' = made \cup {o} /\ Frame(o)
    BY <1>6, CallFrames
  <2>2. UNCHANGED <<fd, idx, idxlocal, rio>> /\ o \in Socks
    BY <1>6, SocksAre DEF CallBegin
  <2> QED
    BY <1>5, <2>1, <2>2
<1>7. ASSUME NEW a \in Apps, CallOpen(a) \/ CallFails(a) \/ BindScan(a) \/ BindStore(a) \/ CallAborts(a)
      PROVE  SocksOK'
  BY <1>3, <1>7, CallFrames
<1>8. ASSUME NEW a \in Apps, ConnectInsert(a) PROVE SocksOK'
  <2>1. Frame(call[a].o) /\ UNCHANGED <<made, thr, fd, idx, idxlocal, rio>>
    BY <1>8, CallFrames DEF ConnectInsert, fields
  <2> QED
    BY <1>4, <2>1
<1>9. ASSUME NEW a \in Apps, CallStart(a) PROVE SocksOK'
  <2>1. UNCHANGED <<made, thr, idxlocal, rio, open>> /\ call[a].pc = "start" /\ Frame(call[a].o)
    BY <1>9, CallFrames DEF CallStart, kernel
  <2>2. PICK o \in Socks : /\ o = call[a].o /\ o \in made /\ rio[o] = "uninit" /\ thr[o] \in Threads
    BY <2>1, Working, SocksAre
  <2>3. call[a].fd \in open /\ call[a].i # Unset
    BY <2>1 DEF AttachInv, CallsOK, CallOK, FdsOpen
  <2>4. idx' = [idx EXCEPT ![o] = call[a].i] /\ fd' = [fd EXCEPT ![o] = call[a].fd]
    BY <1>1, <1>9, <2>2, CallStartIs
  <2>5. OK(o)
    BY <1>1, <2>1, <2>2, <2>3, <2>4 DEF FreshOK, StartedOK
  <2> QED
    BY <1>2, <2>1, <2>2, <2>5
<1>10. ASSUME NEW t \in Threads, NEW b \in Binds, Accept(t, b) PROVE SocksOK'
  <2>1. UNCHANGED <<fd, idx, idxlocal, rio>>
    BY <1>10 DEF Accept, fields
  <2>2. Frame(0) \/ \E o \in Ins : o \notin made /\ made' = made \cup {o} /\ Frame(o)
    BY <1>10, AccFrames
  <2> QED
    BY <1>3, <1>5, <2>1, <2>2, SocksAre
<1>11. ASSUME NEW t \in Threads, AcceptLocal(t) PROVE SocksOK'
  <2>1. UNCHANGED <<thr, fd, idx, idxlocal, rio>> /\ acc[t].pc = "local" /\ Frame(acc[t].o)
    BY <1>11, AccFrames DEF AcceptLocal, fields
  <2>2. AccOK(t)
    BY DEF AttachInv, AccsOK
  <2>3. PICK o : o = acc[t].o
    OBVIOUS
  <2>4. OK(o)
    BY <2>1, <2>2, <2>3 DEF AccOK, FreshOK, StartedOK
  <2> QED
    BY <1>2, <2>1, <2>3, <2>4
<1>12. ASSUME NEW t \in Threads, AcceptRoot(t) \/ AcceptStart(t) PROVE SocksOK'
  <2>1. Frame(acc[t].o) /\ UNCHANGED <<made, thr, fd, idx, idxlocal, rio>>
    BY <1>12, AccFrames DEF AcceptRoot, AcceptStart, fields
  <2> QED
    BY <1>4, <2>1
<1>13. ASSUME NEW t \in Threads, AcceptChoose(t) PROVE SocksOK'
  <2>1. UNCHANGED <<made, rio, open>> /\ acc[t].pc = "choose" /\ Frame(acc[t].o)
    BY <1>13, AccFrames DEF AcceptChoose, kernel
  <2>2. PICK o \in Socks : o = acc[t].o /\ o \in made /\ rio[o] = "uninit"
    <3>1. acc[t].o \in Ins /\ acc[t].o \in made /\ rio[acc[t].o] = "uninit"
      BY <2>1, Working
    <3> QED
      BY <3>1, SocksAre
  <2>3. acc[t].fd \in open
    BY <2>1 DEF AttachInv, AccsOK, AccOK, FdsOpen
  <2>4. /\ thr' = [thr EXCEPT ![o] = thrLastIdx] /\ fd' = [fd EXCEPT ![o] = acc[t].fd]
    BY <1>1, <1>13, <2>2, AcceptChooseIs
  <2>5. OK(o)
    BY <1>1, <2>1, <2>2, <2>3, <2>4 DEF FreshOK, StartedOK
  <2> QED
    BY <1>2, <2>1, <2>2, <2>5
<1>14. ASSUME NEW t \in Threads, Run(t) PROVE SocksOK'
  <2>1. UNCHANGED <<made, thr, fd, idx, idxlocal, open>>
    BY <1>14 DEF Run, fields, kernel
  <2>2. PICK o \in Socks, op \in {"BIND", "CONN", "START_READ", "STOP_READ"} :
              /\ <<o, op>> \in Elems(jobs[t]) /\ Elems(jobs'[t]) = Elems(jobs[t]) \ {<<o, op>>}
              /\ \A u \in Threads : u # t => jobs'[u] = jobs[u]
              /\ QueuesOK(jobs')
              /\ op \in ReadOps /\ rio[o] = "uninit" => rio' = rio
              /\ ~(op \in ReadOps /\ rio[o] = "uninit") =>
                    /\ rio' = [rio EXCEPT ![o] = IF op = "STOP_READ" THEN "off" ELSE "on"]
                    /\ crashed' = crashed
    BY <1>1, <1>14, RunDoes
  <2>3. rio' = rio \/ idx[o] # Unset
    <3>1. CASE op \in {"BIND", "CONN"}
      BY <2>2, <3>1 DEF AttachInv, TasksOK, TaskOK
    <3>2. CASE op \in ReadOps
      BY <1>1, <2>2, <3>2 DEF StartedOK
    <3> QED
      BY <3>1, <3>2 DEF ReadOps
  <2>4. \A p \in Socks : p # o => rio'[p] = rio[p]
    BY <1>1, <2>2
  <2>5. ASSUME NEW p \in Socks PROVE FreshOK(p)' /\ StartedOK(p)'
    <3>1. FreshOK(p) /\ StartedOK(p)
      BY <1>1
    <3>2. rio'[p] = rio[p] \/ idx[p] # Unset
      BY <2>3, <2>4
    <3>3. idx[p] # Unset => p \in made
      BY <3>1 DEF FreshOK
    <3> QED
      BY <2>1, <3>1, <3>2, <3>3 DEF FreshOK, StartedOK
  <2> QED
    BY <2>5 DEF SocksOK
<1>15. ASSUME NEW b \in Binds, PeerConnects(b) PROVE SocksOK'
  BY <1>3, <1>15, OtherFrames
<1>16. CASE StopReading \/ StartReading \/ UNCHANGED vars
  BY <1>3, <1>16, OtherFrames
<1> QED
  BY <1>6, <1>7, <1>8, <1>9, <1>10, <1>11, <1>12, <1>13, <1>14, <1>15, <1>16, StepIs

\* Each call's socket is its own, and has what the call did so far.
LEMMA CallsStep ==
    ASSUME AttachInv, [Next]_vars
    PROVE  /\ CallsOK'
           /\ \A a, b \in Apps : call'[a].pc # "idle" /\ call'[a].o = call'[b].o => a = b
<1> DEFINE P == /\ CallsOK'
                /\ \A a, b \in Apps : call'[a].pc # "idle" /\ call'[a].o = call'[b].o => a = b
<1>1. /\ Types /\ IsFiniteSet(open) /\ call \in [Apps -> CallRecord] /\ FdsOpen
      /\ thr \in [Socks -> Threads \cup {Unset}]
      /\ \A a \in Apps : CallOK(a)
      /\ \A a, b \in Apps : call[a].pc # "idle" /\ call[a].o = call[b].o => a = b
      /\ 0 \notin Socks
  BY SocksAre DEF AttachInv, FdsOpen, Types, FieldsT, LocalsT, CallsOK, Apart
<1>2. \A a \in Apps : call[a].pc = "idle" => call[a].o = 0
  BY <1>1 DEF CallOK, NoCall
<1>3. ASSUME NEW x, Frame(x), call' = call, \A a \in Apps : call[a].pc # "idle" => call[a].o # x
      PROVE  P
  <2>1. \A a \in Apps : CallOK(a)'
    BY <1>3, CallFrame
  <2> QED
    BY <1>1, <1>3, <2>1 DEF CallsOK
<1>4. ASSUME NEW a \in Apps, NEW x, Frame(x), CallOK(a)',
             \A b \in Apps : b # a => call'[b] = call[b] /\ (call[b].pc # "idle" => call[b].o # x),
             \/ call'[a].pc = "idle" /\ call'[a].o = 0
             \/ /\ call'[a].o \in Socks
                /\ \A b \in Apps : b # a /\ call[b].pc # "idle" => call[b].o # call'[a].o
      PROVE  P
  <2>1. \A b \in Apps : b # a => CallOK(b)'
    BY <1>4, CallFrame
  <2>2. CallsOK'
    BY <1>4, <2>1 DEF CallsOK
  <2>3. ASSUME NEW b \in Apps, NEW c \in Apps, call'[b].pc # "idle", call'[b].o = call'[c].o PROVE b = c
    <3>1. CASE b # a /\ c # a
      BY <1>1, <1>4, <2>3, <3>1
    <3>2. CASE b = a /\ c # a
      BY <1>1, <1>2, <1>4, <2>3, <3>2
    <3>3. CASE b # a /\ c = a
      <4>1. call[b].pc # "idle" /\ call[b].o \in Socks /\ call[b].o = call'[a].o
        BY <1>4, <2>3, <3>3, Working, SocksAre
      <4> QED
        BY <1>1, <1>4, <3>3, <4>1
    <3> QED
      BY <3>1, <3>2, <3>3
  <2> QED
    BY <2>2, <2>3
<1> HIDE DEF P
<1>5. ASSUME NEW a \in Apps, call[a].pc # "idle"
      PROVE  \A b \in Apps : b # a /\ call[b].pc # "idle" => call[b].o # call[a].o
  BY <1>1, <1>5
<1>6. ASSUME NEW a \in Apps, NEW S \in {Binds, Outs}, CallBegin(a, S) PROVE P
  <2>1. PICK o \in S : /\ o \notin made /\ made' = made \cup {o} /\ thr'[o] \in Threads
                       /\ Frame(o) /\ CallTo(a, "open", o, Unset, Unset)
    BY <1>6, CallFrames
  <2>2. /\ call'[a].pc = "open" /\ call'[a].o = o /\ call'[a].fd = Unset
        /\ \A b \in Apps : b # a => call'[b] = call[b]
    BY <2>1 DEF CallTo, CallIs
  <2>3. o \in Socks /\ o \in Binds \cup Outs /\ UNCHANGED <<fd, idx, rio, conns>>
    BY <1>6, SocksAre DEF CallBegin, arrays
  <2>4. \A b \in Apps : call[b].pc # "idle" => call[b].o # o
    BY <2>1, Working
  <2>5. fd[o] = Unset /\ idx[o] = Unset /\ rio[o] = "uninit" /\ o \notin Elems(conns)
    BY <2>1, <2>3 DEF AttachInv, SocksOK, FreshOK, ArraysOK
  <2>6. CallOK(a)'
    BY <2>1, <2>2, <2>3, <2>5 DEF CallOK
  <2> QED
    BY <1>4, <2>1, <2>2, <2>3, <2>4, <2>6
<1>7. ASSUME NEW a \in Apps, CallOpen(a) PROVE P
  <2>1. PICK d \in Fds, p \in {"scan", "insert"} :
              /\ d \notin open /\ open' = open \cup {d} /\ IsFiniteSet(open')
              /\ p = "scan" <=> call[a].o \in Binds
              /\ CallTo(a, p, call[a].o, d, call[a].i)
    BY <1>1, <1>7, CallOpenIs
  <2>2. /\ call'[a].pc = p /\ call'[a].o = call[a].o /\ call'[a].fd = d
        /\ \A b \in Apps : b # a => call'[b] = call[b]
    BY <2>1 DEF CallTo, CallIs
  <2>3. Frame(0) /\ call[a].pc = "open" /\ UNCHANGED <<made, thr, fd, idx, rio, conns>>
    BY <1>7, CallFrames DEF CallOpen, fields, arrays
  <2>4. CallOK(a)
    BY <1>1
  <2>5. d # Unset
    BY <2>1, SocksAre
  <2>6. CallOK(a)'
    BY <2>1, <2>2, <2>3, <2>4, <2>5 DEF CallOK
  <2>7. call[a].o \in Socks /\ \A b \in Apps : call[b].pc # "idle" => call[b].o # 0
    BY <1>1, <2>3, Working, SocksAre
  <2> QED
    BY <1>4, <1>5, <2>2, <2>3, <2>6, <2>7
<1>8. ASSUME NEW a \in Apps, NEW x, Frame(x), call'[a] = NoCall, CallTo(a, "idle", 0, Unset, Unset),
             \A b \in Apps : b # a /\ call[b].pc # "idle" => call[b].o # x
      PROVE  P
  <2>1. /\ call'[a].pc = "idle" /\ call'[a].o = 0 /\ call'[a].fd = Unset
        /\ \A b \in Apps : b # a => call'[b] = call[b]
    BY <1>8 DEF CallTo, CallIs
  <2>2. CallOK(a)'
    BY <1>8, <2>1 DEF CallOK
  <2>3. \A b \in Apps : b # a => call'[b] = call[b] /\ (call[b].pc # "idle" => call[b].o # x)
    BY <1>8, <2>1
  <2> QED
    BY <1>4, <1>8, <2>1, <2>2, <2>3
<1>9. ASSUME NEW a \in Apps, CallFails(a) PROVE P
  <2>1. Frame(0) /\ call'[a] = NoCall /\ CallTo(a, "idle", 0, Unset, Unset)
    BY <1>1, <1>9, CallFrames, CallFailsIs
  <2>2. \A b \in Apps : call[b].pc # "idle" => call[b].o # 0
    BY <1>1, Working, SocksAre
  <2> QED
    BY <1>8, <2>1, <2>2
<1>10. ASSUME NEW a \in Apps, CallStart(a) PROVE P
  <2>1. call[a].pc # "idle"
    BY <1>10 DEF CallStart
  <2>2. Frame(call[a].o) /\ call'[a] = NoCall /\ CallTo(a, "idle", 0, Unset, Unset)
    BY <1>1, <1>10, CallFrames, CallStartIs
  <2> QED
    BY <1>5, <1>8, <2>1, <2>2
<1>11. ASSUME NEW a \in Apps, BindScan(a) PROVE P
  <2>1. PICK i \in 0..binds.last : CallTo(a, "store", call[a].o, call[a].fd, i)
    BY <1>1, <1>11, BindScanIs
  <2>2. /\ call'[a].pc = "store" /\ call'[a].o = call[a].o /\ call'[a].fd = call[a].fd
        /\ \A b \in Apps : b # a => call'[b] = call[b]
    BY <2>1 DEF CallTo, CallIs
  <2>3. Frame(0) /\ call[a].pc = "scan" /\ UNCHANGED <<made, thr, fd, idx, rio, conns>>
    BY <1>11, CallFrames DEF BindScan, fields, arrays
  <2>4. CallOK(a)
    BY <1>1
  <2>5. CallOK(a)'
    BY <2>2, <2>3, <2>4 DEF CallOK
  <2>6. call[a].o \in Socks /\ \A b \in Apps : call[b].pc # "idle" => call[b].o # 0
    BY <1>1, <2>3, Working, SocksAre
  <2> QED
    BY <1>4, <1>5, <2>2, <2>3, <2>5, <2>6
<1>12. ASSUME NEW a \in Apps, BindStore(a) PROVE P
  <2>1. CallTo(a, "start", call[a].o, call[a].fd, call[a].i)
    BY <1>1, <1>12, BindStoreIs
  <2>2. /\ call'[a].pc = "start" /\ call'[a].o = call[a].o /\ call'[a].fd = call[a].fd
        /\ call'[a].i = call[a].i
        /\ \A b \in Apps : b # a => call'[b] = call[b]
    BY <2>1 DEF CallTo, CallIs
  <2>3. Frame(0) /\ call[a].pc = "store" /\ UNCHANGED <<made, thr, fd, idx, rio, conns>>
    BY <1>12, CallFrames DEF BindStore, fields
  <2>4. CallOK(a)
    BY <1>1
  <2>5. call[a].i # Unset /\ call[a].o \in Binds /\ call[a].o \notin Outs
    <3>1. call[a].i \in 0..binds.last
      BY <2>3 DEF AttachInv, BindsOK
    <3>2. binds.last \in Nat
      BY DEF AttachInv, Types, ArraysT
    <3>3. call[a].i # Unset
      BY <3>1, <3>2 DEF Unset
    <3>4. call[a].o \in Binds
      BY <2>3, <2>4 DEF CallOK
    <3> QED
      BY <3>3, <3>4, SocksAre
  <2>6. CallOK(a)'
    BY <2>2, <2>3, <2>4, <2>5 DEF CallOK
  <2>7. call[a].o \in Socks /\ \A b \in Apps : call[b].pc # "idle" => call[b].o # 0
    BY <1>1, <2>3, Working, SocksAre
  <2> QED
    BY <1>4, <1>5, <2>2, <2>3, <2>6, <2>7
<1>13. ASSUME NEW a \in Apps, ConnectInsert(a) PROVE P
  <2>1. conns' = Append(conns, call[a].o) /\ CallTo(a, "start", call[a].o, call[a].fd, Len(conns))
    BY <1>1, <1>13, ConnectInsertIs
  <2>2. /\ call'[a].pc = "start" /\ call'[a].o = call[a].o /\ call'[a].fd = call[a].fd
        /\ call'[a].i = Len(conns)
        /\ \A b \in Apps : b # a => call'[b] = call[b]
    BY <2>1 DEF CallTo, CallIs
  <2>3. Frame(call[a].o) /\ call[a].pc = "insert" /\ UNCHANGED <<made, thr, fd, idx, rio>>
    BY <1>13, CallFrames DEF ConnectInsert, fields
  <2>4. CallOK(a)
    BY <1>1
  <2>5. /\ Len(conns) # Unset /\ Len(conns) + 1 \in 1..Len(conns')
        /\ conns'[Len(conns) + 1] = call[a].o
    <3>1. conns \in Seq(Outs \cup Ins) /\ call[a].o \in Outs \cup Ins
      BY <2>3, <2>4 DEF CallOK, AttachInv, Types, ArraysT
    <3> QED
      BY <2>1, <3>1 DEF Unset
  <2>6. CallOK(a)'
    BY <2>2, <2>3, <2>4, <2>5 DEF CallOK
  <2>7. call[a].o \in Socks
    BY <2>3, Working, SocksAre
  <2> QED
    BY <1>4, <1>5, <2>2, <2>3, <2>6, <2>7
<1>14. ASSUME Frame(0), call' = call PROVE P
  <2>1. \A a \in Apps : call[a].pc # "idle" => call[a].o # 0
    BY <1>1, Working, SocksAre
  <2> QED
    BY <1>3, <1>14, <2>1
<1>15. ASSUME NEW a \in Apps, CallAborts(a) PROVE P
  BY <1>14, <1>15, CallFrames DEF CallAborts
<1>16. ASSUME NEW t \in Threads, NEW b \in Binds, Accept(t, b) PROVE P
  <2>1. Frame(0) \/ \E o \in Ins : o \notin made /\ Frame(o)
    BY <1>16, AccFrames
  <2>2. call' = call
    BY <1>16 DEF Accept
  <2> QED
    BY <1>3, <1>14, <2>1, <2>2, Working
<1>17. ASSUME NEW t \in Threads,
              AcceptLocal(t) \/ AcceptRoot(t) \/ AcceptChoose(t) \/ AcceptStart(t)
       PROVE  P
  <2>1. Frame(acc[t].o)
    BY <1>17, AccFrames
  <2>2. call' = call /\ acc[t].pc # "idle"
    BY <1>17 DEF AcceptLocal, AcceptRoot, AcceptChoose, AcceptStart
  <2>3. acc[t].o \in Ins
    BY <2>2, Working
  <2>4. \A a \in Apps : call[a].pc # "idle" => call[a].o # acc[t].o
    BY <2>3, Working, SocksAre
  <2> QED
    BY <1>3, <2>1, <2>2, <2>4
<1>18. ASSUME NEW t \in Threads, Run(t) PROVE P
  <2>1. PICK x : Frame(x) /\ Free(x)
    BY <1>18, OtherFrames
  <2>2. call' = call
    BY <1>18 DEF Run
  <2> QED
    BY <1>3, <2>1, <2>2 DEF Free
<1>19. ASSUME NEW b \in Binds, PeerConnects(b) PROVE P
  BY <1>14, <1>19, OtherFrames DEF PeerConnects
<1>20. ASSUME StopReading \/ StartReading \/ UNCHANGED vars PROVE P
  <2>1. call' = call
    BY <1>20 DEF StopReading, StartReading, vars
  <2>2. Frame(0)
    BY <1>20, OtherFrames
  <2> QED
    BY <1>14, <2>1, <2>2
<1>21. ASSUME NEW a \in Apps, CallOpen(a) \/ CallFails(a) \/ BindScan(a) \/ BindStore(a)
                               \/ ConnectInsert(a) \/ CallAborts(a) \/ CallStart(a)
       PROVE  P
  BY <1>7, <1>9, <1>10, <1>11, <1>12, <1>13, <1>15, <1>21
<1>22. P
  BY <1>6, <1>16, <1>17, <1>18, <1>19, <1>20, <1>21, StepIs
<1> QED
  BY <1>22 DEF P

\* Each handler's connection is its own, and has what the handler did so far.
LEMMA AccsStep ==
    ASSUME AttachInv, [Next]_vars
    PROVE  /\ AccsOK'
           /\ \A t, u \in Threads : acc'[t].pc # "idle" /\ acc'[t].o = acc'[u].o => t = u
<1> DEFINE P == /\ AccsOK'
                /\ \A t, u \in Threads : acc'[t].pc # "idle" /\ acc'[t].o = acc'[u].o => t = u
<1>1. /\ Types /\ IsFiniteSet(open) /\ acc \in [Threads -> AccRecord] /\ FdsOpen
      /\ thr \in [Socks -> Threads \cup {Unset}] /\ local \in [Binds -> Seq(Ins)]
      /\ \A t \in Threads : AccOK(t)
      /\ \A t, u \in Threads : acc[t].pc # "idle" /\ acc[t].o = acc[u].o => t = u
  BY DEF AttachInv, FdsOpen, Types, FieldsT, LocalsT, ArraysT, AccsOK, Apart
<1>2. \A t \in Threads : acc[t].pc = "idle" => acc[t].o = 0
  <2>1. NoAccept.o = 0
    BY DEF NoAccept
  <2>2. \A t \in Threads : acc[t].pc = "idle" => acc[t] = NoAccept
    BY <1>1 DEF AccOK
  <2> QED
    BY <2>1, <2>2
<1>3. 0 \notin Socks /\ 0 \notin Ins
  BY SocksAre
<1>4. ASSUME NEW x, Frame(x), acc' = acc, local' = local,
             \A t \in Threads : acc[t].pc # "idle" => acc[t].o # x
      PROVE  P
  <2>1. LocalFrame(x)
    BY <1>4 DEF LocalFrame
  <2>2. \A t \in Threads : AccOK(t)'
    BY <1>4, <2>1, AccFrame
  <2> QED
    BY <1>1, <1>4, <2>2 DEF AccsOK
<1>5. ASSUME NEW t \in Threads, NEW x, Frame(x), LocalFrame(x), AccOK(t)',
             \A u \in Threads : u # t =>
                /\ acc'[u] = acc[u]
                /\ acc[u].pc # "idle" => acc[u].o # x /\ local'[acc[u].b] = local[acc[u].b],
             \/ acc'[t].pc = "idle" /\ acc'[t].o = 0
             \/ /\ acc'[t].o \in Ins
                /\ \A u \in Threads : u # t /\ acc[u].pc # "idle" => acc[u].o # acc'[t].o
      PROVE  P
  <2>1. \A u \in Threads : u # t => AccOK(u)'
    BY <1>5, AccFrame
  <2>2. AccsOK'
    BY <1>5, <2>1 DEF AccsOK
  <2>3. ASSUME NEW u \in Threads, NEW v \in Threads, acc'[u].pc # "idle", acc'[u].o = acc'[v].o
        PROVE  u = v
    <3>1. CASE u # t /\ v # t
      BY <1>1, <1>5, <2>3, <3>1
    <3>2. CASE u = t /\ v # t
      BY <1>2, <1>3, <1>5, <2>3, <3>2
    <3>3. CASE u # t /\ v = t
      <4>1. acc[u].pc # "idle" /\ acc[u].o = acc'[t].o
        BY <1>5, <2>3, <3>3
      <4>2. acc[u].o \in Ins
        BY <4>1, Working
      <4> QED
        BY <1>3, <1>5, <3>3, <4>1, <4>2
    <3> QED
      BY <3>1, <3>2, <3>3
  <2> QED
    BY <2>2, <2>3
<1> HIDE DEF P
<1>6. ASSUME NEW t \in Threads, acc[t].pc # "idle"
      PROVE  \A u \in Threads : u # t /\ acc[u].pc # "idle" =>
                acc[u].o # acc[t].o /\ acc[u].b # acc[t].b /\ acc[u].b \in Binds
  BY <1>1, <1>6, Working
<1>7. ASSUME NEW t \in Threads, NEW b \in Binds, Accept(t, b) PROVE P
  <2>1. PICK d \in Fds :
           /\ d \notin open /\ open' = open \cup {d} /\ IsFiniteSet(open')
           /\ \/ made' = made /\ acc' = acc /\ failed' = TRUE /\ Frame(0)
              \/ \E o \in Ins : /\ o \notin made /\ made' = made \cup {o} /\ failed' = failed
                                /\ Frame(o) /\ AccTo(t, "local", b, o, d, Unset, Unset)
    BY <1>7, AccFrames
  <2>2. /\ UNCHANGED <<local, conns, thr, fd, idx, idxlocal, rio, jobs>> /\ rio[b] = "on" /\ thr[b] = t
    BY <1>7 DEF Accept, arrays, fields
  <2>3. ASSUME acc' = acc, Frame(0) PROVE P
    <3>1. \A u \in Threads : acc[u].pc # "idle" => acc[u].o # 0
      BY <1>3, Working
    <3> QED
      BY <1>4, <2>2, <2>3, <3>1
  <2>4. ASSUME NEW o \in Ins, o \notin made, made' = made \cup {o}, Frame(o),
               AccTo(t, "local", b, o, d, Unset, Unset)
        PROVE  P
    <3>1. /\ acc'[t].pc = "local" /\ acc'[t].b = b /\ acc'[t].o = o /\ acc'[t].fd = d
          /\ \A u \in Threads : u # t => acc'[u] = acc[u]
      BY <2>4 DEF AccTo, AccIs
    <3>2. b \in made /\ o \in Socks
      BY <2>2, SocksAre DEF AttachInv, SocksOK, FreshOK
    <3>3. /\ thr[o] = Unset /\ fd[o] = Unset /\ idx[o] = Unset /\ idxlocal[o] = Unset
          /\ rio[o] = "uninit"
      BY <2>4, <3>2 DEF AttachInv, SocksOK, FreshOK
    <3>4. o \notin Elems(conns) /\ \A c \in Binds : o \notin Elems(local[c])
      BY <2>4 DEF AttachInv, ArraysOK
    <3>5. AccOK(t)'
      BY <2>1, <2>2, <2>4, <3>1, <3>2, <3>3, <3>4, SocksAre DEF AccOK
    <3>6. \A u \in Threads : acc[u].pc # "idle" => acc[u].o # o
      BY <2>4, Working
    <3>7. LocalFrame(o)
      BY <2>2 DEF LocalFrame
    <3> QED
      BY <1>5, <2>2, <2>4, <3>1, <3>5, <3>6, <3>7
  <2> QED
    BY <2>1, <2>3, <2>4
<1>8. ASSUME NEW t \in Threads, acc[t].pc # "idle", Frame(acc[t].o), AccEnds(t), local' = local PROVE P
  <2>1. /\ acc'[t].pc = "idle" /\ acc'[t].o = 0 /\ acc'[t] = NoAccept
        /\ \A u \in Threads : u # t => acc'[u] = acc[u]
    BY <1>8 DEF AccEnds, AccTo, AccIs
  <2>2. AccOK(t)'
    BY <2>1 DEF AccOK
  <2>3. PICK o : o = acc[t].o
    OBVIOUS
  <2>4. LocalFrame(o) /\ Frame(o)
    BY <1>8, <2>3 DEF LocalFrame
  <2>5. \A u \in Threads : u # t =>
           /\ acc'[u] = acc[u]
           /\ acc[u].pc # "idle" => acc[u].o # o /\ local'[acc[u].b] = local[acc[u].b]
    BY <1>6, <1>8, <2>1, <2>3
  <2> QED
    BY <1>5, <2>1, <2>2, <2>4, <2>5
<1>9. ASSUME NEW t \in Threads, NEW o \in Ins, o = acc[t].o, acc[t].pc # "idle", Frame(o), LocalFrame(o),
             \A c \in Binds : c # acc[t].b => local'[c] = local[c],
             AccOK(t)', acc'[t].o = o, \A u \in Threads : u # t => acc'[u] = acc[u]
      PROVE  P
  <2>1. \A u \in Threads : u # t =>
           /\ acc'[u] = acc[u]
           /\ acc[u].pc # "idle" => acc[u].o # o /\ local'[acc[u].b] = local[acc[u].b]
    BY <1>6, <1>9
  <2> QED
    BY <1>5, <1>9, <2>1
<1>10. ASSUME NEW t \in Threads, AcceptLocal(t) PROVE P
  <2>1. /\ acc[t].pc = "local" /\ Frame(acc[t].o)
        /\ UNCHANGED <<conns, thr, fd, idx, idxlocal, rio, jobs>>
    BY <1>10, AccFrames DEF AcceptLocal, fields
  <2>2. PICK o \in Ins, b \in Binds : o = acc[t].o /\ b = acc[t].b
    BY <2>1, Working
  <2>3. CASE local' = local /\ AccEnds(t)
    BY <1>8, <2>1, <2>3
  <2>4. CASE /\ local' = [local EXCEPT ![acc[t].b] = Append(@, acc[t].o)] /\ made' = made
             /\ AccTo(t, "root", acc[t].b, acc[t].o, acc[t].fd, acc[t].i, Len(local[acc[t].b]))
    <3>1. PICK s : s = local[b] /\ s \in Seq(Ins)
      BY <1>1
    <3>2. /\ local'[b] = Append(s, o) /\ \A c \in Binds : c # b => local'[c] = local[c]
      BY <1>1, <2>2, <2>4, <3>1
    <3>3. /\ acc'[t].pc = "root" /\ acc'[t].b = b /\ acc'[t].o = o /\ acc'[t].fd = acc[t].fd
          /\ acc'[t].il = Len(s) /\ \A u \in Threads : u # t => acc'[u] = acc[u]
      BY <2>2, <2>4, <3>1 DEF AccTo, AccIs
    <3>4. /\ Append(s, o) # << >> /\ Len(s) = Len(Append(s, o)) - 1
          /\ Append(s, o)[Len(Append(s, o))] = o
      BY <3>1
    <3>5. AccOK(t)
      BY <1>1
    <3>6. AccOK(t)'
      BY <2>1, <2>2, <2>4, <3>2, <3>3, <3>4, <3>5 DEF AccOK
    <3>7. LocalFrame(o)
      BY <3>1, <3>2 DEF LocalFrame
    <3> QED
      BY <1>9, <2>1, <2>2, <3>2, <3>3, <3>6, <3>7
  <2> QED
    BY <1>1, <1>10, <2>2, <2>3, <2>4, AcceptLocalIs
<1>11. ASSUME NEW t \in Threads, AcceptRoot(t) PROVE P
  <2>1. /\ acc[t].pc = "root" /\ Frame(acc[t].o)
        /\ UNCHANGED <<made, local, thr, fd, idx, idxlocal, rio, jobs>>
    BY <1>11, AccFrames DEF AcceptRoot, fields
  <2>2. PICK o \in Ins, b \in Binds : o = acc[t].o /\ b = acc[t].b
    BY <2>1, Working
  <2>3. CASE AccEnds(t)
    BY <1>8, <2>1, <2>3
  <2>4. CASE /\ conns' = Append(conns, acc[t].o)
             /\ AccTo(t, "choose", acc[t].b, acc[t].o, acc[t].fd, Len(conns), acc[t].il)
    <3>1. PICK s \in Seq(Outs \cup Ins) : s = conns
      BY DEF AttachInv, Types, ArraysT
    <3>2. /\ acc'[t].pc = "choose" /\ acc'[t].b = b /\ acc'[t].o = o /\ acc'[t].fd = acc[t].fd
          /\ acc'[t].i = Len(s) /\ acc'[t].il = acc[t].il
          /\ \A u \in Threads : u # t => acc'[u] = acc[u]
      BY <2>2, <2>4, <3>1 DEF AccTo, AccIs
    <3>3. Len(s) + 1 \in 1..Len(conns') /\ conns'[Len(s) + 1] = o
      BY <2>2, <2>4, <3>1
    <3>4. AccOK(t)
      BY <1>1
    <3>5. AccOK(t)'
      BY <2>1, <2>2, <3>2, <3>3, <3>4 DEF AccOK
    <3>6. LocalFrame(o)
      BY <2>1 DEF LocalFrame
    <3> QED
      BY <1>9, <2>1, <2>2, <3>2, <3>5, <3>6
  <2> QED
    BY <1>1, <1>11, <2>3, <2>4, AcceptRootIs
<1>12. ASSUME NEW t \in Threads, AcceptChoose(t) PROVE P
  <2>1. acc[t].pc = "choose" /\ Frame(acc[t].o) /\ UNCHANGED <<made, conns, local, rio, jobs>>
    BY <1>12, AccFrames DEF AcceptChoose, arrays
  <2>2. PICK o \in Ins, b \in Binds : o = acc[t].o /\ b = acc[t].b /\ o \in Socks /\ b \in made
    BY <2>1, Working, SocksAre
  <2>3. /\ thr' = [thr EXCEPT ![o] = thrLastIdx] /\ idx' = [idx EXCEPT ![o] = acc[t].i]
        /\ AccTo(t, "start", b, o, acc[t].fd, acc[t].i, acc[t].il)
    BY <1>1, <1>12, <2>2, AcceptChooseIs
  <2>4. thr'[o] \in Threads /\ idx'[o] = acc[t].i /\ thr'[b] = thr[b]
    BY <1>1, <2>1, <2>2, <2>3 DEF Types, FieldsT, OthersT, Frame
  <2>5. /\ acc'[t].pc = "start" /\ acc'[t].b = b /\ acc'[t].o = o /\ acc'[t].fd = acc[t].fd
        /\ acc'[t].i = acc[t].i /\ \A u \in Threads : u # t => acc'[u] = acc[u]
    BY <2>3 DEF AccTo, AccIs
  <2>6. AccOK(t)
    BY <1>1
  <2>7. \A u \in Threads : <<o, "CONN">> \notin Elems(jobs[u])
    <3>1. idx[o] = Unset
      BY <2>1, <2>2, <2>6 DEF AccOK
    <3>2. PICK j : j = <<o, "CONN">>
      OBVIOUS
    <3>3. j[1] = o /\ j[2] = "CONN"
      BY <3>2
    <3> QED
      BY <3>1, <3>2, <3>3 DEF AttachInv, TasksOK, TaskOK
  <2>8. AccOK(t)'
    BY <2>1, <2>2, <2>4, <2>5, <2>6, <2>7 DEF AccOK
  <2>9. LocalFrame(o)
    BY <2>1 DEF LocalFrame
  <2> QED
    BY <1>9, <2>1, <2>2, <2>5, <2>8, <2>9
<1>13. ASSUME NEW t \in Threads, AcceptStart(t) PROVE P
  <2>1. acc[t].pc # "idle" /\ local' = local
    BY <1>13 DEF AcceptStart, arrays
  <2>2. Frame(acc[t].o) /\ AccEnds(t)
    BY <1>1, <1>13, AccFrames, AcceptStartIs
  <2> QED
    BY <1>8, <2>1, <2>2
<1>14. ASSUME NEW x, x \notin Ins, Frame(x), acc' = acc, local' = local PROVE P
  <2>1. \A t \in Threads : acc[t].pc # "idle" => acc[t].o # x
    BY <1>14, Working
  <2> QED
    BY <1>4, <1>14, <2>1
<1>15. ASSUME NEW a \in Apps, NEW S \in {Binds, Outs}, CallBegin(a, S) PROVE P
  <2>1. PICK o \in S : o \notin made /\ Frame(o)
    BY <1>15, CallFrames
  <2>2. acc' = acc /\ local' = local
    BY <1>15 DEF CallBegin, arrays
  <2>3. \A t \in Threads : acc[t].pc # "idle" => acc[t].o # o
    BY <2>1, Working
  <2> QED
    BY <1>4, <2>1, <2>2, <2>3
<1>16. ASSUME NEW a \in Apps, CallOpen(a) \/ CallFails(a) \/ BindScan(a) \/ BindStore(a) \/ CallAborts(a)
       PROVE  P
  <2>1. acc' = acc /\ local' = local
    BY <1>16 DEF CallOpen, CallFails, BindScan, BindStore, CallAborts, arrays
  <2>2. Frame(0)
    BY <1>16, CallFrames
  <2> QED
    BY <1>3, <1>14, <2>1, <2>2
<1>17. ASSUME NEW a \in Apps, ConnectInsert(a) \/ CallStart(a) PROVE P
  <2>1. acc' = acc /\ local' = local /\ call[a].pc # "idle"
    BY <1>17 DEF ConnectInsert, CallStart, arrays
  <2>2. Frame(call[a].o)
    BY <1>17, CallFrames
  <2>3. call[a].o \notin Ins
    BY <2>1, Working, SocksAre
  <2> QED
    BY <1>14, <2>1, <2>2, <2>3
<1>18. ASSUME NEW t \in Threads, Run(t) PROVE P
  <2>1. PICK x : Frame(x) /\ Free(x)
    BY <1>18, OtherFrames
  <2>2. acc' = acc /\ local' = local
    BY <1>18 DEF Run, arrays
  <2> QED
    BY <1>4, <2>1, <2>2 DEF Free
<1>19. ASSUME NEW b \in Binds, PeerConnects(b) PROVE P
  <2>1. Frame(0) /\ acc' = acc /\ local' = local
    BY <1>19, OtherFrames DEF PeerConnects, arrays
  <2> QED
    BY <1>3, <1>14, <2>1
<1>20. ASSUME StopReading \/ StartReading \/ UNCHANGED vars PROVE P
  <2>1. acc' = acc /\ local' = local
    BY <1>20 DEF StopReading, StartReading, vars, arrays
  <2>2. Frame(0)
    BY <1>20, OtherFrames
  <2> QED
    BY <1>3, <1>14, <2>1, <2>2
<1>21. P
  BY <1>7, <1>10, <1>11, <1>12, <1>13, <1>15, <1>16, <1>17, <1>18, <1>19, <1>20, StepIs
<1> QED
  BY <1>21 DEF P

\* A task that stays queued stays right, unless its socket is the one the step
\* works on.
LEMMA TaskStays ==
    ASSUME AttachInv, NEW x, Frame(x), NEW t \in Threads, NEW j \in Elems(jobs[t]),
           \/ j[1] # x
           \/ /\ thr'[j[1]] = thr[j[1]] /\ rio'[j[1]] = rio[j[1]]
              /\ idx[j[1]] # Unset => idx'[j[1]] # Unset
    PROVE  TaskOK(t, j)'
<1>1. TaskOK(t, j)
  BY DEF AttachInv, TasksOK
<1>2. j[1] \in Socks
  <2>1. jobs[t] \in Seq(Task)
    BY DEF AttachInv, Types, QueuesOK
  <2>2. j \in Task
    BY <2>1, ElemsEmpty
  <2> QED
    BY <2>2 DEF Task
<1>3. PICK o \in Socks : o = j[1]
  BY <1>2
<1>4. thr'[o] = thr[o] /\ rio'[o] = rio[o] /\ (idx[o] # Unset => idx'[o] # Unset)
  BY <1>3 DEF Frame, Kept
<1> QED
  BY <1>1, <1>3, <1>4, ConnsGrow DEF TaskOK

\* The queues stay right: the thread, the kind and what the task will find.
LEMMA TasksStep ==
    ASSUME AttachInv, [Next]_vars
    PROVE  TasksOK' /\ QueuesOK(jobs)'
<1> DEFINE P == TasksOK' /\ QueuesOK(jobs)'
<1>1. /\ Types /\ QueuesOK(jobs) /\ thr \in [Socks -> Threads \cup {Unset}] /\ idx \in [Socks -> Indices]
      /\ rio \in [Socks -> {"uninit", "off", "on"}] /\ \A t \in Threads : \A j \in Elems(jobs[t]) : TaskOK(t, j)
      /\ \A t \in Threads : jobs[t] \in Seq(Task)
  BY DEF AttachInv, Types, FieldsT, TasksOK, QueuesOK
<1>2. \A t \in Threads : \A j \in Elems(jobs[t]) : j \in Task /\ j[1] \in Socks
  <2> SUFFICES ASSUME NEW t \in Threads, NEW j \in Elems(jobs[t]) PROVE j \in Task /\ j[1] \in Socks
    OBVIOUS
  <2>1. j \in Task
    BY <1>1, ElemsEmpty
  <2> QED
    BY <2>1 DEF Task
<1>3. ASSUME NEW x, Frame(x), jobs' = jobs,
             \/ thr[x] \notin Threads
             \/ thr' = thr /\ rio' = rio /\ idx' = idx
      PROVE  P
  <2>1. \A t \in Threads : \A j \in Elems(jobs[t]) : TaskOK(t, j)'
    <3> SUFFICES ASSUME NEW t \in Threads, NEW j \in Elems(jobs[t]) PROVE TaskOK(t, j)'
      OBVIOUS
    <3>1. \/ j[1] # x
          \/ /\ thr'[j[1]] = thr[j[1]] /\ rio'[j[1]] = rio[j[1]]
             /\ idx[j[1]] # Unset => idx'[j[1]] # Unset
      BY <1>1, <1>3 DEF TaskOK
    <3> QED
      BY <1>3, <3>1, TaskStays
  <2> QED
    BY <1>1, <1>3, <2>1 DEF TasksOK, QueuesOK
<1>4. ASSUME NEW o \in Socks, Frame(o), thr[o] \in Threads, StartTask(thr[o], o), rio[o] = "uninit",
             \A k \in {"BIND", "CONN"} : (k = "BIND" <=> o \in Binds) => <<o, k>> \notin Elems(jobs[thr[o]]),
             idx'[o] # Unset, thr' = thr, rio' = rio
      PROVE  P
  <2>1. PICK k \in {"BIND", "CONN"} :
              /\ k = "BIND" <=> o \in Binds
              /\ jobs' \in [Threads -> Seq(Task)]
              /\ Elems(jobs'[thr[o]]) = Elems(jobs[thr[o]]) \cup {<<o, k>>}
              /\ \A u \in Threads : u # thr[o] => jobs'[u] = jobs[u]
              /\ <<o, k>> \notin Elems(jobs[thr[o]]) => QueuesOK(jobs')
    BY <1>1, <1>4, StartTaskDoes
  <2>2. QueuesOK(jobs')
    BY <1>4, <2>1
  <2>3. ASSUME NEW t \in Threads, NEW j \in Elems(jobs'[t]) PROVE TaskOK(t, j)'
    <3>1. CASE j \in Elems(jobs[t])
      BY <1>4, <3>1, TaskStays
    <3>2. CASE t = thr[o] /\ j = <<o, k>>
      <4>1. j[1] = o /\ j[2] = k
        BY <3>2
      <4> QED
        BY <1>4, <2>1, <3>2, <4>1 DEF TaskOK, ReadOps
    <3> QED
      BY <2>1, <3>1, <3>2
  <2> QED
    BY <2>2, <2>3 DEF TasksOK
<1> HIDE DEF P
<1>5. ASSUME Frame(0), jobs' = jobs, UNCHANGED <<thr, rio, idx>> PROVE P
  BY <1>3, <1>5
<1>6. ASSUME NEW o \in Socks, o \notin made PROVE thr[o] \notin Threads
  <2>1. thr[o] = Unset
    BY <1>6 DEF AttachInv, SocksOK, FreshOK
  <2> QED
    BY <2>1, SocksAre
<1>7. ASSUME NEW a \in Apps, NEW S \in {Binds, Outs}, CallBegin(a, S) PROVE P
  <2>1. PICK o \in S : o \notin made /\ Frame(o) /\ o \in Socks
    BY <1>7, CallFrames, SocksAre
  <2>2. jobs' = jobs
    BY <1>7 DEF CallBegin
  <2> QED
    BY <1>3, <1>6, <2>1, <2>2
<1>8. ASSUME NEW a \in Apps, CallOpen(a) \/ CallFails(a) \/ BindScan(a) \/ BindStore(a) \/ CallAborts(a)
      PROVE  P
  <2>1. UNCHANGED <<jobs, thr, rio, idx>>
    BY <1>8 DEF CallOpen, CallFails, BindScan, BindStore, CallAborts, fields
  <2>2. Frame(0)
    BY <1>8, CallFrames
  <2> QED
    BY <1>5, <2>1, <2>2
<1>9. ASSUME NEW a \in Apps, ConnectInsert(a) PROVE P
  <2>1. UNCHANGED <<jobs, thr, rio, idx>> /\ Frame(call[a].o)
    BY <1>9, CallFrames DEF ConnectInsert, fields
  <2> QED
    BY <1>3, <2>1
<1>10. ASSUME NEW a \in Apps, CallStart(a) PROVE P
  <2>1. UNCHANGED <<thr, rio>> /\ Frame(call[a].o) /\ call[a].pc = "start"
    BY <1>10, CallFrames DEF CallStart
  <2>2. PICK o \in Socks : o = call[a].o /\ thr[o] \in Threads /\ rio[o] = "uninit" /\ idx[o] = Unset
    BY <2>1, Working, SocksAre
  <2>3. StartTask(thr[o], o) /\ idx' = [idx EXCEPT ![o] = call[a].i] /\ call[a].i # Unset
    BY <1>10, <2>1, <2>2 DEF CallStart, AttachInv, CallsOK, CallOK
  <2>4. idx'[o] # Unset
    BY <1>1, <2>3
  <2>5. \A k \in {"BIND", "CONN"} : <<o, k>> \notin Elems(jobs[thr[o]])
    <3> SUFFICES ASSUME NEW k \in {"BIND", "CONN"}, <<o, k>> \in Elems(jobs[thr[o]]) PROVE FALSE
      OBVIOUS
    <3>1. TaskOK(thr[o], <<o, k>>)
      BY <1>1, <2>2
    <3> QED
      BY <2>2, <3>1 DEF TaskOK
  <2> QED
    BY <1>4, <2>1, <2>2, <2>3, <2>4, <2>5
<1>11. ASSUME NEW t \in Threads, NEW b \in Binds, Accept(t, b) PROVE P
  <2>1. UNCHANGED <<jobs, thr, rio, idx>>
    BY <1>11 DEF Accept, fields
  <2>2. Frame(0) \/ \E o \in Ins : Frame(o)
    BY <1>11, AccFrames
  <2> QED
    BY <1>3, <1>5, <2>1, <2>2
<1>12. ASSUME NEW t \in Threads, AcceptLocal(t) \/ AcceptRoot(t) PROVE P
  <2>1. UNCHANGED <<jobs, thr, rio, idx>> /\ Frame(acc[t].o)
    BY <1>12, AccFrames DEF AcceptLocal, AcceptRoot, fields
  <2> QED
    BY <1>3, <2>1
<1>13. ASSUME NEW t \in Threads, AcceptChoose(t) PROVE P
  <2>1. jobs' = jobs /\ Frame(acc[t].o) /\ acc[t].pc = "choose"
    BY <1>13, AccFrames DEF AcceptChoose
  <2>2. thr[acc[t].o] = Unset
    BY <2>1 DEF AttachInv, AccsOK, AccOK
  <2> QED
    BY <1>3, <2>1, <2>2, SocksAre
<1>14. ASSUME NEW t \in Threads, AcceptStart(t) PROVE P
  <2>1. UNCHANGED <<thr, rio, idx>> /\ Frame(acc[t].o) /\ acc[t].pc = "start"
    BY <1>14, AccFrames DEF AcceptStart, fields
  <2>2. PICK o \in Socks : o = acc[t].o /\ rio[o] = "uninit" /\ o \notin Binds
    <3>1. acc[t].o \in Ins /\ rio[acc[t].o] = "uninit"
      BY <2>1, Working
    <3> QED
      BY <3>1, SocksAre
  <2>3. AccOK(t)
    BY DEF AttachInv, AccsOK
  <2>4. thr[o] \in Threads /\ idx[o] = acc[t].i /\ <<o, "CONN">> \notin Elems(jobs[thr[o]])
    BY <2>1, <2>2, <2>3 DEF AccOK
  <2>5. acc[t].i # Unset
    <3>1. acc[t].i + 1 \in 1..Len(conns) /\ acc[t].i \in Indices
      BY <1>1, <2>1, <2>3, AccFields DEF AccOK, Types, LocalsT
    <3> QED
      BY <3>1 DEF Unset
  <2>6. StartTask(thr[o], o)
    BY <1>14, <2>2 DEF AcceptStart
  <2> QED
    BY <1>4, <2>1, <2>2, <2>4, <2>5, <2>6
<1>15. ASSUME NEW t \in Threads, Run(t) PROVE P
  <2>1. UNCHANGED <<thr, idx, conns>>
    BY <1>15 DEF Run, fields, arrays
  <2>2. PICK o \in Socks, op \in {"BIND", "CONN", "START_READ", "STOP_READ"} :
              /\ <<o, op>> \in Elems(jobs[t]) /\ Elems(jobs'[t]) = Elems(jobs[t]) \ {<<o, op>>}
              /\ \A u \in Threads : u # t => jobs'[u] = jobs[u]
              /\ QueuesOK(jobs')
              /\ op \in ReadOps /\ rio[o] = "uninit" => rio' = rio
              /\ ~(op \in ReadOps /\ rio[o] = "uninit") =>
                    /\ rio' = [rio EXCEPT ![o] = IF op = "STOP_READ" THEN "off" ELSE "on"]
                    /\ crashed' = crashed
    BY <1>1, <1>15, RunDoes
  <2>3. ASSUME NEW u \in Threads, NEW j \in Elems(jobs'[u]) PROVE TaskOK(u, j)'
    <3>1. j \in Elems(jobs[u]) /\ TaskOK(u, j) /\ j \in Task /\ j[1] \in Socks
      BY <1>1, <1>2, <2>2, <2>3
    <3>2. CASE rio'[j[1]] = rio[j[1]] \/ j[2] \notin {"BIND", "CONN"}
      BY <2>1, <3>1, <3>2 DEF TaskOK
    <3>3. CASE rio'[j[1]] # rio[j[1]] /\ j[2] \in {"BIND", "CONN"}
      <4>1. j[1] = o /\ rio[o] = "uninit" /\ op \in {"BIND", "CONN"}
        BY <1>1, <2>2, <3>1, <3>3 DEF TaskOK, ReadOps
      <4>2. TaskOK(t, <<o, op>>)
        BY <1>1, <2>2
      <4>3. u = t /\ j[2] = op
        BY <3>1, <3>3, <4>1, <4>2 DEF TaskOK
      <4>4. j = <<o, op>>
        BY <3>1, <4>1, <4>3 DEF Task
      <4> QED
        BY <2>2, <2>3, <4>3, <4>4
    <3> QED
      BY <3>2, <3>3
  <2> QED
    BY <2>2, <2>3 DEF P, TasksOK
<1>16. ASSUME NEW b \in Binds, PeerConnects(b) PROVE P
  <2>1. UNCHANGED <<jobs, thr, rio, idx>> /\ Frame(0)
    BY <1>16, OtherFrames DEF PeerConnects, fields
  <2> QED
    BY <1>5, <2>1
<1>17. ASSUME UNCHANGED vars PROVE P
  <2>1. UNCHANGED <<jobs, thr, rio, idx>> /\ Frame(0)
    BY <1>17, OtherFrames DEF vars, fields
  <2> QED
    BY <1>5, <2>1
<1>18. ASSUME StopReading \/ StartReading PROVE P
  <2>1. Frame(0) /\ UNCHANGED <<thr, idx, rio, conns>>
    BY <1>18, OtherFrames DEF StopReading, StartReading, fields, arrays
  <2>2. PICK op \in ReadOps, other \in ReadOps : op # other /\ Bulk(op, other)
    BY <1>18 DEF StopReading, StartReading, ReadOps
  <2>3. CASE jobs' = jobs
    BY <1>5, <2>1, <2>3
  <2>4. CASE /\ QueuesOK(jobs')
             /\ \A t \in Threads : \A j \in Elems(jobs'[t]) :
                   j \in Elems(jobs[t]) \/ \E c \in Elems(conns) : thr[c] = t /\ j = <<c, op>>
    <3>1. ASSUME NEW t \in Threads, NEW j \in Elems(jobs'[t]) PROVE TaskOK(t, j)'
      <4>1. CASE j \in Elems(jobs[t])
        BY <2>1, <4>1, TaskStays
      <4>2. ASSUME NEW c \in Elems(conns), thr[c] = t, j = <<c, op>> PROVE TaskOK(t, j)'
        <5>1. j[1] = c /\ j[2] = op
          BY <4>2
        <5> QED
          BY <2>1, <4>2, <5>1 DEF TaskOK, ReadOps
      <4> QED
        BY <2>4, <4>1, <4>2
    <3> QED
      BY <2>4, <3>1 DEF P, TasksOK
  <2> QED
    BY <1>1, <2>2, <2>3, <2>4, BulkDoes
<1>19. P
  BY <1>7, <1>8, <1>9, <1>10, <1>11, <1>12, <1>13, <1>14, <1>15, <1>16, <1>17, <1>18, StepIs
<1> QED
  BY <1>19 DEF P

-----------------------------------------------------------------------------
(* The arrays and the indices.                                             *)

\* Three steps add to the arrays of connections, two set indices, and a handler
\* in front of its insert in root->conns stays there until it makes it.
LEMMA Moves ==
    ASSUME AttachInv, [Next]_vars
    PROVE  /\ \/ UNCHANGED <<conns, local>> /\ made \subseteq made'
              \/ \E a \in Apps : ConnectInsert(a)
              \/ \E t \in Threads : AcceptLocal(t) \/ AcceptRoot(t)
           /\ \/ UNCHANGED <<idx, idxlocal>>
              \/ \E a \in Apps : CallStart(a)
              \/ \E t \in Threads : AcceptChoose(t)
           /\ failed' = failed \/ failed' = TRUE
<1>1. \/ UNCHANGED <<conns, local>> /\ made \subseteq made'
      \/ \E a \in Apps : ConnectInsert(a)
      \/ \E t \in Threads : AcceptLocal(t) \/ AcceptRoot(t)
  BY DEF Next, Environment, Call, Handler, Tasks, Accepts, CallBegin, CallOpen, CallFails, BindScan,
         BindStore, CallAborts, CallStart, PeerConnects, Accept, AcceptChoose, AcceptStart, Run,
         StopReading, StartReading, vars, arrays
<1>2. \/ UNCHANGED <<idx, idxlocal>>
      \/ \E a \in Apps : CallStart(a)
      \/ \E t \in Threads : AcceptChoose(t)
  BY DEF Next, Environment, Call, Handler, Tasks, Accepts, CallBegin, CallOpen, CallFails, BindScan,
         BindStore, ConnectInsert, CallAborts, PeerConnects, Accept, AcceptLocal, AcceptRoot, AcceptStart,
         Run, StopReading, StartReading, vars, fields
<1>3. failed' = failed \/ failed' = TRUE
  BY DEF Next, Environment, Call, Handler, Tasks, Accepts, CallBegin, CallOpen, CallFails, BindScan,
         BindStore, ConnectInsert, CallAborts, CallStart, PeerConnects, Accept, AcceptLocal, AcceptRoot,
         AcceptChoose, AcceptStart, Run, StopReading, StartReading, vars
<1> QED
  BY <1>1, <1>2, <1>3

\* The insert in a bind's conns.
LEMMA LocalInsert ==
    ASSUME AttachInv, NEW t \in Threads, AcceptLocal(t)
    PROVE  \E o \in Ins, b \in Binds :
              /\ o = acc[t].o /\ b = acc[t].b /\ thr[b] = t /\ acc[t].pc = "local" /\ conns' = conns
              /\ o \in made /\ o \notin Elems(conns) /\ \A d \in Binds : o \notin Elems(local[d])
              /\ idxlocal[o] = Unset /\ UNCHANGED <<idx, idxlocal, thr>>
              /\ \/ /\ made' = made /\ failed' = failed /\ local[b] \in Seq(Ins)
                    /\ local'[b] = Append(local[b], o) /\ \A d \in Binds : d # b => local'[d] = local[d]
                    /\ acc'[t].pc = "root" /\ acc'[t].o = o
                    /\ \A u \in Threads : u # t => acc'[u] = acc[u]
                 \/ /\ made' = made \ {o} /\ failed' = TRUE /\ local' = local
                    /\ \A u \in Threads : u # t => acc'[u] = acc[u]
<1>1. acc[t].pc = "local" /\ UNCHANGED <<conns, idx, idxlocal, thr>>
  BY DEF AcceptLocal, fields
<1>2. PICK o \in Ins, b \in Binds : o = acc[t].o /\ b = acc[t].b /\ thr[b] = t /\ o \in made
  BY <1>1, Working
<1>3. o \notin Elems(conns) /\ (\A d \in Binds : o \notin Elems(local[d])) /\ idxlocal[o] = Unset
  BY <1>1, <1>2 DEF AttachInv, AccsOK, AccOK
<1>4. local \in [Binds -> Seq(Ins)] /\ Types
  BY DEF AttachInv, Types, ArraysT
<1>5. \/ /\ local' = [local EXCEPT ![b] = Append(local[b], o)] /\ made' = made /\ failed' = failed
         /\ AccTo(t, "root", b, o, acc[t].fd, acc[t].i, Len(local[b]))
      \/ /\ failed' = TRUE /\ made' = made \ {o} /\ local' = local /\ AccEnds(t)
  BY <1>2, <1>4, AcceptLocalIs
<1>6. CASE /\ local' = [local EXCEPT ![b] = Append(local[b], o)] /\ made' = made /\ failed' = failed
           /\ AccTo(t, "root", b, o, acc[t].fd, acc[t].i, Len(local[b]))
  <2>1. /\ local[b] \in Seq(Ins)
        /\ local'[b] = Append(local[b], o) /\ \A d \in Binds : d # b => local'[d] = local[d]
    BY <1>4, <1>6
  <2>2. acc'[t].pc = "root" /\ acc'[t].o = o /\ \A u \in Threads : u # t => acc'[u] = acc[u]
    BY <1>6 DEF AccTo, AccIs
  <2> QED
    BY <1>1, <1>2, <1>3, <1>6, <2>1, <2>2
<1>7. CASE /\ failed' = TRUE /\ made' = made \ {o} /\ local' = local /\ AccEnds(t)
  <2>1. \A u \in Threads : u # t => acc'[u] = acc[u]
    BY <1>7 DEF AccEnds, AccTo
  <2> QED
    BY <1>1, <1>2, <1>3, <1>7, <2>1
<1> QED
  BY <1>5, <1>6, <1>7

\* The insert in root->conns.
LEMMA RootInsert ==
    ASSUME AttachInv, NEW t \in Threads, AcceptRoot(t)
    PROVE  \E o \in Ins, b \in Binds :
              /\ o = acc[t].o /\ b = acc[t].b /\ acc[t].pc = "root" /\ UNCHANGED <<local, made>>
              /\ o \in made /\ o \notin Elems(conns) /\ local[b] \in Seq(Ins) /\ local[b] # << >>
              /\ local[b][Len(local[b])] = o /\ UNCHANGED <<idx, idxlocal, thr>>
              /\ \A u \in Threads : u # t => acc'[u] = acc[u]
              /\ \/ /\ conns' = Append(conns, o) /\ failed' = failed
                    /\ acc'[t].pc = "choose" /\ acc'[t].o = o
                 \/ conns' = conns /\ failed' = TRUE
<1>1. acc[t].pc = "root" /\ UNCHANGED <<local, made, idx, idxlocal, thr>>
  BY DEF AcceptRoot, fields
<1>2. PICK o \in Ins, b \in Binds : o = acc[t].o /\ b = acc[t].b /\ o \in made
  BY <1>1, Working
<1>3. o \notin Elems(conns) /\ local[b] # << >> /\ local[b][Len(local[b])] = o
  BY <1>1, <1>2 DEF AttachInv, AccsOK, AccOK
<1>4. local[b] \in Seq(Ins) /\ Types
  BY DEF AttachInv, Types, ArraysT
<1>5. \/ /\ conns' = Append(conns, o) /\ failed' = failed
         /\ AccTo(t, "choose", b, o, acc[t].fd, Len(conns), acc[t].il)
      \/ failed' = TRUE /\ conns' = conns /\ AccEnds(t)
  BY <1>2, <1>4, AcceptRootIs
<1>6. CASE /\ conns' = Append(conns, o) /\ failed' = failed
           /\ AccTo(t, "choose", b, o, acc[t].fd, Len(conns), acc[t].il)
  <2>1. acc'[t].pc = "choose" /\ acc'[t].o = o /\ \A u \in Threads : u # t => acc'[u] = acc[u]
    BY <1>6 DEF AccTo, AccIs
  <2> QED
    BY <1>1, <1>2, <1>3, <1>4, <1>6, <2>1
<1>7. CASE failed' = TRUE /\ conns' = conns /\ AccEnds(t)
  <2>1. \A u \in Threads : u # t => acc'[u] = acc[u]
    BY <1>7 DEF AccEnds, AccTo
  <2> QED
    BY <1>1, <1>2, <1>3, <1>4, <1>7, <2>1
<1> QED
  BY <1>5, <1>6, <1>7

\* The insert of fsock_connect.
LEMMA OutInsert ==
    ASSUME AttachInv, NEW a \in Apps, ConnectInsert(a)
    PROVE  \E o \in Outs : /\ o = call[a].o /\ o \in made /\ o \notin Elems(conns) /\ thr[o] \in Threads
                           /\ conns' = Append(conns, o) /\ UNCHANGED <<local, made, acc, failed, thr>>
<1>1. call[a].pc = "insert" /\ conns' = Append(conns, call[a].o) /\ UNCHANGED <<local, made, acc, failed, thr>>
  BY DEF ConnectInsert, fields
<1>2. CallOK(a)
  BY DEF AttachInv, CallsOK
<1> QED
  BY <1>1, <1>2 DEF CallOK

\* Positions in an array with one more element.
LEMMA AppendAt ==
    ASSUME NEW S, NEW s \in Seq(S), NEW x \in S
    PROVE  /\ Len(s) \in Nat /\ Len(Append(s, x)) = Len(s) + 1 /\ Append(s, x)[Len(s) + 1] = x
           /\ \A k \in 1..Len(s) : Append(s, x)[k] = s[k]
           /\ \A k \in 1..Len(Append(s, x)) : k \in 1..Len(s) \/ k = Len(s) + 1
  OBVIOUS

\* What stands in the arrays is in use, and stands in a bind's own array once.
LEMMA ArraysKeep ==
    ASSUME AttachInv, [Next]_vars
    PROVE  /\ Elems(conns') \subseteq made'
           /\ \A b \in Binds : Elems(local'[b]) \subseteq made'
           /\ \A b, d \in Binds : \A k \in 1..Len(local'[b]) : \A m \in 1..Len(local'[d]) :
                 local'[b][k] = local'[d][m] => b = d /\ k = m
<1> DEFINE P == /\ Elems(conns') \subseteq made'
                /\ \A b \in Binds : Elems(local'[b]) \subseteq made'
           Q == \A b, d \in Binds : \A k \in 1..Len(local'[b]) : \A m \in 1..Len(local'[d]) :
                   local'[b][k] = local'[d][m] => b = d /\ k = m
<1>1. /\ Elems(conns) \subseteq made /\ \A b \in Binds : Elems(local[b]) \subseteq made
      /\ \A b, d \in Binds : \A k \in 1..Len(local[b]) : \A m \in 1..Len(local[d]) :
            local[b][k] = local[d][m] => b = d /\ k = m
      /\ conns \in Seq(Outs \cup Ins) /\ \A b \in Binds : local[b] \in Seq(Ins)
  BY DEF AttachInv, ArraysOK, Types, ArraysT
<1>2. CASE UNCHANGED <<conns, local>> /\ made \subseteq made'
  <2>1. P
    BY <1>1, <1>2
  <2>2. Q
    BY <1>1, <1>2
  <2> QED
    BY <2>1, <2>2
<1>3. ASSUME NEW a \in Apps, ConnectInsert(a) PROVE P /\ Q
  <2>1. PICK o \in Outs : /\ o \in made /\ conns' = Append(conns, o) /\ UNCHANGED <<local, made>>
    BY <1>3, OutInsert
  <2>2. Elems(conns') = Elems(conns) \cup {o}
    BY <1>1, <2>1, ElemsAppend
  <2>3. P
    BY <1>1, <2>1, <2>2
  <2>4. Q
    BY <1>1, <2>1
  <2> QED
    BY <2>3, <2>4
<1>4. ASSUME NEW t \in Threads, AcceptRoot(t) PROVE P /\ Q
  <2>1. PICK o \in Ins : /\ o \in made /\ UNCHANGED <<local, made>>
                         /\ conns' = Append(conns, o) \/ conns' = conns
    BY <1>4, RootInsert
  <2>2. Elems(conns') \subseteq Elems(conns) \cup {o}
    <3>1. Elems(Append(conns, o)) = Elems(conns) \cup {o}
      BY <1>1, ElemsAppend
    <3> QED
      BY <2>1, <3>1
  <2>3. P
    BY <1>1, <2>1, <2>2
  <2>4. Q
    BY <1>1, <2>1
  <2> QED
    BY <2>3, <2>4
<1>5. ASSUME NEW t \in Threads, AcceptLocal(t) PROVE P /\ Q
  <2>1. PICK o \in Ins, b \in Binds :
              /\ o = acc[t].o /\ b = acc[t].b /\ thr[b] = t /\ acc[t].pc = "local" /\ conns' = conns
              /\ o \in made /\ o \notin Elems(conns) /\ \A d \in Binds : o \notin Elems(local[d])
              /\ idxlocal[o] = Unset /\ UNCHANGED <<idx, idxlocal, thr>>
              /\ \/ /\ made' = made /\ failed' = failed /\ local[b] \in Seq(Ins)
                    /\ local'[b] = Append(local[b], o) /\ \A d \in Binds : d # b => local'[d] = local[d]
                    /\ acc'[t].pc = "root" /\ acc'[t].o = o
                    /\ \A u \in Threads : u # t => acc'[u] = acc[u]
                 \/ /\ made' = made \ {o} /\ failed' = TRUE /\ local' = local
                    /\ \A u \in Threads : u # t => acc'[u] = acc[u]
    BY <1>5, LocalInsert
  <2>2. CASE made' = made \ {o} /\ local' = local
    <3>1. P
      BY <1>1, <2>1, <2>2
    <3>2. Q
      BY <1>1, <2>2
    <3> QED
      BY <3>1, <3>2
  <2>3. CASE /\ made' = made /\ local'[b] = Append(local[b], o)
             /\ \A d \in Binds : d # b => local'[d] = local[d]
    <3>1. PICK s \in Seq(Ins) : s = local[b]
      BY <1>1
    <3>2. Elems(local'[b]) = Elems(local[b]) \cup {o}
      BY <2>3, <3>1, ElemsAppend
    <3>3. P
      BY <1>1, <2>1, <2>3, <3>2
    <3>4. \A d \in Binds : \A k \in 1..Len(local'[d]) :
             \/ k \in 1..Len(local[d]) /\ local'[d][k] = local[d][k] /\ local'[d][k] # o
             \/ d = b /\ k = Len(s) + 1 /\ local'[d][k] = o
      <4> SUFFICES ASSUME NEW d \in Binds, NEW k \in 1..Len(local'[d])
                   PROVE  \/ k \in 1..Len(local[d]) /\ local'[d][k] = local[d][k] /\ local'[d][k] # o
                          \/ d = b /\ k = Len(s) + 1 /\ local'[d][k] = o
        OBVIOUS
      <4>1. \A m \in 1..Len(local[d]) : local[d][m] # o
        BY <2>1 DEF Elems
      <4>2. CASE d # b
        BY <2>3, <4>1, <4>2
      <4>3. CASE d = b
        BY <2>3, <3>1, <4>1, <4>3, AppendAt
      <4> QED
        BY <4>2, <4>3
    <3>5. Q
      <4> SUFFICES ASSUME NEW c \in Binds, NEW d \in Binds, NEW k \in 1..Len(local'[c]),
                          NEW m \in 1..Len(local'[d]), local'[c][k] = local'[d][m]
                   PROVE  c = d /\ k = m
        OBVIOUS
      <4> QED
        BY <1>1, <3>4
    <3> QED
      BY <3>3, <3>5
  <2> QED
    BY <2>1, <2>2, <2>3
<1> QED
  BY <1>2, <1>3, <1>4, <1>5, Moves

\* Every step has a frame.
LEMMA StepFrame ==
    ASSUME AttachInv, [Next]_vars
    PROVE  \E x : Frame(x)
<1>1. ASSUME NEW a \in Apps, NEW S \in {Binds, Outs}, CallBegin(a, S) PROVE \E x : Frame(x)
  BY <1>1, CallFrames
<1>2. ASSUME NEW a \in Apps, CallOpen(a) \/ CallFails(a) \/ BindScan(a) \/ BindStore(a)
                             \/ ConnectInsert(a) \/ CallAborts(a) \/ CallStart(a)
      PROVE  \E x : Frame(x)
  BY <1>2, CallFrames
<1>3. ASSUME NEW t \in Threads, NEW b \in Binds, Accept(t, b) PROVE \E x : Frame(x)
  BY <1>3, AccFrames
<1>4. ASSUME NEW t \in Threads, AcceptLocal(t) \/ AcceptRoot(t) \/ AcceptChoose(t) \/ AcceptStart(t) \/ Run(t)
      PROVE  \E x : Frame(x)
  BY <1>4, AccFrames, OtherFrames
<1>5. ASSUME NEW b \in Binds, PeerConnects(b) PROVE \E x : Frame(x)
  BY <1>5, OtherFrames
<1>6. CASE StopReading \/ StartReading \/ UNCHANGED vars
  BY <1>6, OtherFrames
<1> QED
  BY <1>1, <1>2, <1>3, <1>4, <1>5, <1>6, StepIs

\* The index of a connection names it in root->conns.
LEMMA IdxKeeps ==
    ASSUME AttachInv, [Next]_vars
    PROVE  \A o \in Outs \cup Ins : idx'[o] # Unset =>
              idx'[o] + 1 \in 1..Len(conns') /\ conns'[idx'[o] + 1] = o
<1> DEFINE P == \A o \in Outs \cup Ins : idx'[o] # Unset =>
                   idx'[o] + 1 \in 1..Len(conns') /\ conns'[idx'[o] + 1] = o
<1>1. /\ \A o \in Outs \cup Ins : idx[o] # Unset => idx[o] + 1 \in 1..Len(conns) /\ conns[idx[o] + 1] = o
      /\ idx \in [Socks -> Indices] /\ Types
  BY DEF AttachInv, ArraysOK, IndicesName, Types, FieldsT
<1>2. PICK x : Frame(x)
  BY StepFrame
<1>3. \A k \in 1..Len(conns) : conns'[k] = conns[k] /\ k \in 1..Len(conns')
  BY <1>2, ConnsGrow
<1>4. CASE idx' = idx
  BY <1>1, <1>3, <1>4
<1>5. ASSUME NEW o \in Socks, NEW i, idx' = [idx EXCEPT ![o] = i],
             o \in Outs \cup Ins => i + 1 \in 1..Len(conns) /\ conns[i + 1] = o
      PROVE  P
  <2> SUFFICES ASSUME NEW p \in Outs \cup Ins, idx'[p] # Unset
               PROVE  idx'[p] + 1 \in 1..Len(conns') /\ conns'[idx'[p] + 1] = p
    OBVIOUS
  <2>1. p \in Socks
    BY SocksAre
  <2>2. CASE p = o
    BY <1>1, <1>3, <1>5, <2>2
  <2>3. CASE p # o
    BY <1>1, <1>3, <1>5, <2>1, <2>3
  <2> QED
    BY <2>2, <2>3
<1> HIDE DEF P
<1>6. ASSUME NEW a \in Apps, CallStart(a) PROVE P
  <2>1. call[a].pc = "start" /\ idx' = [idx EXCEPT ![call[a].o] = call[a].i]
    BY <1>6 DEF CallStart
  <2>2. PICK o \in Socks : o = call[a].o /\ o \in Binds \cup Outs
    BY <2>1, Working, SocksAre
  <2>3. o \in Outs => call[a].i + 1 \in 1..Len(conns) /\ conns[call[a].i + 1] = o
    BY <2>1, <2>2 DEF AttachInv, CallsOK, CallOK
  <2>4. o \notin Ins
    BY <2>2, SocksAre
  <2> QED
    BY <1>5, <2>1, <2>2, <2>3, <2>4
<1>7. ASSUME NEW t \in Threads, AcceptChoose(t) PROVE P
  <2>1. acc[t].pc = "choose" /\ idx' = [idx EXCEPT ![acc[t].o] = acc[t].i]
    BY <1>7 DEF AcceptChoose, SetIndices
  <2>2. acc[t].o \in Socks
    BY <2>1, Working, SocksAre
  <2>3. acc[t].i + 1 \in 1..Len(conns) /\ conns[acc[t].i + 1] = acc[t].o
    BY <2>1 DEF AttachInv, AccsOK, AccOK
  <2> QED
    BY <1>5, <2>1, <2>2, <2>3
<1>8. P
  BY <1>4, <1>6, <1>7, Moves DEF P
<1> QED
  BY <1>8 DEF P

\* The local index of a connection is its place in its bind's conns.
LEMMA IdxLocalKeeps ==
    ASSUME AttachInv, [Next]_vars
    PROVE  \A b \in Binds : \A k \in 1..Len(local'[b]) : idxlocal'[local'[b][k]] \in {Unset, k - 1}
<1> DEFINE P == \A b \in Binds : \A k \in 1..Len(local'[b]) : idxlocal'[local'[b][k]] \in {Unset, k - 1}
<1>1. /\ \A b \in Binds : \A k \in 1..Len(local[b]) : idxlocal[local[b][k]] \in {Unset, k - 1}
      /\ \A b, d \in Binds : \A k \in 1..Len(local[b]) : \A m \in 1..Len(local[d]) :
            local[b][k] = local[d][m] => b = d /\ k = m
      /\ idxlocal \in [Socks -> Indices] /\ \A b \in Binds : local[b] \in Seq(Ins)
  BY DEF AttachInv, ArraysOK, IndicesName, Types, FieldsT, ArraysT
<1>2. CASE UNCHANGED <<local, idxlocal>>
  BY <1>1, <1>2
<1>3. ASSUME NEW t \in Threads, AcceptLocal(t) PROVE P
  <2>1. PICK o \in Ins, b \in Binds :
              /\ o = acc[t].o /\ b = acc[t].b /\ thr[b] = t /\ acc[t].pc = "local" /\ conns' = conns
              /\ o \in made /\ o \notin Elems(conns) /\ \A d \in Binds : o \notin Elems(local[d])
              /\ idxlocal[o] = Unset /\ UNCHANGED <<idx, idxlocal, thr>>
              /\ \/ /\ made' = made /\ failed' = failed /\ local[b] \in Seq(Ins)
                    /\ local'[b] = Append(local[b], o) /\ \A d \in Binds : d # b => local'[d] = local[d]
                    /\ acc'[t].pc = "root" /\ acc'[t].o = o
                    /\ \A u \in Threads : u # t => acc'[u] = acc[u]
                 \/ /\ made' = made \ {o} /\ failed' = TRUE /\ local' = local
                    /\ \A u \in Threads : u # t => acc'[u] = acc[u]
    BY <1>3, LocalInsert
  <2>2. CASE local' = local
    BY <1>2, <2>1, <2>2
  <2>3. CASE local'[b] = Append(local[b], o) /\ \A d \in Binds : d # b => local'[d] = local[d]
    <3> SUFFICES ASSUME NEW d \in Binds, NEW k \in 1..Len(local'[d])
                 PROVE  idxlocal'[local'[d][k]] \in {Unset, k - 1}
      OBVIOUS
    <3>1. CASE d # b
      BY <1>1, <2>1, <2>3, <3>1
    <3>2. CASE d = b
      <4>1. \/ k \in 1..Len(local[d]) /\ local'[d][k] = local[d][k]
            \/ local'[d][k] = o
        BY <1>1, <2>3, <3>2, AppendAt
      <4> QED
        BY <1>1, <2>1, <4>1
    <3> QED
      BY <3>1, <3>2
  <2> QED
    BY <2>1, <2>2, <2>3
<1>4. ASSUME NEW t \in Threads, AcceptChoose(t) PROVE P
  <2>1. acc[t].pc = "choose" /\ idxlocal' = [idxlocal EXCEPT ![acc[t].o] = acc[t].il] /\ local' = local
    BY <1>4 DEF AcceptChoose, SetIndices, arrays
  <2>2. PICK o \in Ins, b \in Binds : o = acc[t].o /\ b = acc[t].b
    BY <2>1, Working
  <2>3. acc[t].il = Len(local[b]) - 1 /\ local[b][Len(local[b])] = o /\ local[b] # << >>
    BY <2>1, <2>2 DEF AttachInv, AccsOK, AccOK
  <2>4. PICK n \in Nat : n = Len(local[b]) /\ n \in 1..Len(local[b])
    BY <1>1, <2>3
  <2> SUFFICES ASSUME NEW d \in Binds, NEW k \in 1..Len(local[d])
               PROVE  idxlocal'[local[d][k]] \in {Unset, k - 1}
    BY <2>1
  <2>5. local[d][k] \in Socks
    BY <1>1, SocksAre
  <2>6. CASE local[d][k] = o
    <3>1. k = n /\ o \in Socks
      BY <1>1, <2>3, <2>4, <2>5, <2>6
    <3> QED
      BY <1>1, <2>1, <2>2, <2>3, <2>4, <2>6, <3>1
  <2>7. CASE local[d][k] # o
    BY <1>1, <2>1, <2>2, <2>5, <2>7
  <2> QED
    BY <2>6, <2>7
<1>5. ASSUME NEW a \in Apps, ConnectInsert(a) \/ CallStart(a) PROVE P
  BY <1>2, <1>5 DEF ConnectInsert, CallStart, arrays, fields
<1>6. ASSUME NEW t \in Threads, AcceptRoot(t) PROVE P
  BY <1>2, <1>6 DEF AcceptRoot, fields
<1> QED
  BY <1>2, <1>3, <1>4, <1>5, <1>6, Moves

\* The sockets of s that stand in c stand there in the order of s.
Ordered(s, c) ==
    \A k \in 1..Len(s) : \A i \in 1..(k - 1) : \A p, q \in 1..Len(c) :
       c[p] = s[i] /\ c[q] = s[k] => p < q

\* Appending o to c keeps the order when o is the last of s or none of it.
LEMMA OrderedAppend ==
    ASSUME NEW S, NEW s \in Seq(S), NEW c \in Seq(S), NEW o \in S, NEW r, r = Append(c, o),
           Ordered(s, c), \A k \in 1..Len(s) : s[k] = o => k = Len(s)
    PROVE  Ordered(s, r)
<1> SUFFICES ASSUME NEW k \in 1..Len(s), NEW i \in 1..(k - 1), NEW p \in 1..Len(r), NEW q \in 1..Len(r),
                    r[p] = s[i], r[q] = s[k]
             PROVE  p < q
  BY DEF Ordered
<1>1. PICK n \in Nat, m \in Nat : n = Len(c) /\ m = Len(s)
  OBVIOUS
<1>2. /\ Len(r) = n + 1 /\ r[n + 1] = o
      /\ \A j \in 1..n : r[j] = c[j]
  BY <1>1, AppendAt
<1>3. i \in 1..m /\ i # m
  BY <1>1
<1>4. s[i] # o
  BY <1>1, <1>3
<1>5. p \in 1..n
  BY <1>2, <1>4
<1>6. CASE q = n + 1
  BY <1>5, <1>6
<1>7. CASE q \in 1..n
  <2>1. p \in 1..Len(c) /\ q \in 1..Len(c) /\ c[p] = s[i] /\ c[q] = s[k]
    BY <1>1, <1>2, <1>5, <1>7
  <2> QED
    BY <2>1 DEF Ordered
<1> QED
  BY <1>2, <1>6, <1>7

\* Appending o to s keeps it when o is not in c.
LEMMA OrderedLonger ==
    ASSUME NEW S, NEW s \in Seq(S), NEW c, NEW o \in S, NEW r, r = Append(s, o),
           Ordered(s, c), o \notin Elems(c)
    PROVE  Ordered(r, c)
<1> SUFFICES ASSUME NEW k \in 1..Len(r), NEW i \in 1..(k - 1), NEW p \in 1..Len(c), NEW q \in 1..Len(c),
                    c[p] = r[i], c[q] = r[k]
             PROVE  p < q
  BY DEF Ordered
<1>1. PICK n \in Nat : n = Len(s)
  OBVIOUS
<1>2. /\ Len(r) = n + 1 /\ r[n + 1] = o
      /\ \A j \in 1..n : r[j] = s[j]
  BY <1>1, AppendAt
<1>3. c[q] # o
  BY DEF Elems
<1>4. k \in 1..n
  BY <1>2, <1>3
<1>5. i \in 1..n
  BY <1>4
<1>6. k \in 1..Len(s) /\ c[p] = s[i] /\ c[q] = s[k]
  BY <1>1, <1>2, <1>4, <1>5
<1> QED
  BY <1>6 DEF Ordered

\* The connections of a bind follow one another in both arrays in one order.
LEMMA OrderKeeps ==
    ASSUME AttachInv, [Next]_vars
    PROVE  \A b \in Binds : Ordered(local'[b], conns')
<1> DEFINE P == \A b \in Binds : Ordered(local'[b], conns')
<1>1. /\ \A b \in Binds : Ordered(local[b], conns)
      /\ conns \in Seq(Outs \cup Ins) /\ \A b \in Binds : local[b] \in Seq(Outs \cup Ins)
  <2>1. \A b \in Binds : Ordered(local[b], conns)
    BY DEF AttachInv, IndicesName, Ordered
  <2>2. conns \in Seq(Outs \cup Ins) /\ \A b \in Binds : local[b] \in Seq(Ins)
    BY DEF AttachInv, Types, ArraysT
  <2>3. \A s \in Seq(Ins) : s \in Seq(Outs \cup Ins)
    OBVIOUS
  <2> QED
    BY <2>1, <2>2, <2>3
<1>2. \A b, d \in Binds : \A k \in 1..Len(local[b]) : \A m \in 1..Len(local[d]) :
         local[b][k] = local[d][m] => b = d /\ k = m
  BY DEF AttachInv, ArraysOK
<1>3. CASE UNCHANGED <<conns, local>>
  BY <1>1, <1>3
<1>4. ASSUME NEW o \in Outs \cup Ins, conns' = Append(conns, o), local' = local,
             \A b \in Binds : \A k \in 1..Len(local[b]) : local[b][k] = o => k = Len(local[b])
      PROVE  P
  <2> SUFFICES ASSUME NEW b \in Binds PROVE Ordered(local'[b], conns')
    OBVIOUS
  <2>1. PICK s \in Seq(Outs \cup Ins), c \in Seq(Outs \cup Ins), r \in {conns'} :
           s = local[b] /\ c = conns /\ r = Append(c, o) /\ s = local'[b] /\ r = conns'
    BY <1>1, <1>4
  <2>2. Ordered(s, c) /\ \A k \in 1..Len(s) : s[k] = o => k = Len(s)
    BY <1>1, <1>4, <2>1
  <2>3. Ordered(s, r)
    BY <2>1, <2>2, OrderedAppend
  <2> QED
    BY <2>1, <2>3
<1> HIDE DEF P
<1>5. ASSUME NEW a \in Apps, ConnectInsert(a) PROVE P
  <2>1. PICK o \in Outs : conns' = Append(conns, o) /\ local' = local
    BY <1>5, OutInsert
  <2>2. \A b \in Binds : local[b] \in Seq(Ins)
    BY DEF AttachInv, Types, ArraysT
  <2>3. \A b \in Binds : \A k \in 1..Len(local[b]) : local[b][k] # o
    BY <2>2, SocksAre
  <2> QED
    BY <1>4, <2>1, <2>3
<1>6. ASSUME NEW t \in Threads, AcceptRoot(t) PROVE P
  <2>1. PICK o \in Ins, b \in Binds :
              /\ o = acc[t].o /\ b = acc[t].b /\ acc[t].pc = "root" /\ UNCHANGED <<local, made>>
              /\ o \in made /\ o \notin Elems(conns) /\ local[b] \in Seq(Ins) /\ local[b] # << >>
              /\ local[b][Len(local[b])] = o /\ UNCHANGED <<idx, idxlocal, thr>>
              /\ \A u \in Threads : u # t => acc'[u] = acc[u]
              /\ \/ /\ conns' = Append(conns, o) /\ failed' = failed
                    /\ acc'[t].pc = "choose" /\ acc'[t].o = o
                 \/ conns' = conns /\ failed' = TRUE
    BY <1>6, RootInsert
  <2>2. Len(local[b]) \in 1..Len(local[b])
    BY <2>1
  <2>3. ASSUME NEW d \in Binds, NEW k \in 1..Len(local[d]), local[d][k] = o PROVE k = Len(local[d])
    <3>1. d = b /\ k = Len(local[b])
      BY <1>2, <2>1, <2>2, <2>3
    <3> QED
      BY <3>1
  <2>4. CASE conns' = conns
    BY <1>1, <2>1, <2>4 DEF P
  <2>5. CASE conns' = Append(conns, o)
    BY <1>4, <2>1, <2>3, <2>5
  <2> QED
    BY <2>1, <2>4, <2>5
<1>7. ASSUME NEW t \in Threads, AcceptLocal(t) PROVE P
  <2>1. PICK o \in Ins, b \in Binds :
              /\ o = acc[t].o /\ b = acc[t].b /\ thr[b] = t /\ acc[t].pc = "local" /\ conns' = conns
              /\ o \in made /\ o \notin Elems(conns) /\ \A d \in Binds : o \notin Elems(local[d])
              /\ idxlocal[o] = Unset /\ UNCHANGED <<idx, idxlocal, thr>>
              /\ \/ /\ made' = made /\ failed' = failed /\ local[b] \in Seq(Ins)
                    /\ local'[b] = Append(local[b], o) /\ \A d \in Binds : d # b => local'[d] = local[d]
                    /\ acc'[t].pc = "root" /\ acc'[t].o = o
                    /\ \A u \in Threads : u # t => acc'[u] = acc[u]
                 \/ /\ made' = made \ {o} /\ failed' = TRUE /\ local' = local
                    /\ \A u \in Threads : u # t => acc'[u] = acc[u]
    BY <1>7, LocalInsert
  <2>2. CASE local' = local
    BY <1>1, <2>1, <2>2 DEF P
  <2>3. CASE local'[b] = Append(local[b], o) /\ \A d \in Binds : d # b => local'[d] = local[d]
    <3>1. PICK s \in Seq(Outs \cup Ins), r \in {local'[b]} : s = local[b] /\ r = Append(s, o) /\ r = local'[b]
      BY <1>1, <2>3
    <3>2. Ordered(s, conns) /\ o \in Outs \cup Ins
      BY <1>1, <3>1
    <3>3. Ordered(r, conns)
      BY <2>1, <3>1, <3>2, OrderedLonger
    <3> QED
      BY <1>1, <2>1, <2>3, <3>1, <3>3 DEF P
  <2> QED
    BY <2>1, <2>2, <2>3
<1>8. P
  BY <1>3, <1>5, <1>6, <1>7, Moves DEF P
<1> QED
  BY <1>8 DEF P

\* A handler in front of its insert in root->conns, or of its choice of a
\* thread, moves only by making it.
LEMMA HandlersStay ==
    ASSUME AttachInv, [Next]_vars, NEW t \in Threads,
           \/ acc[t].pc = "root" /\ ~AcceptRoot(t)
           \/ acc[t].pc = "choose" /\ ~AcceptChoose(t)
    PROVE  acc'[t] = acc[t]
<1>1. Types /\ IsFiniteSet(open) /\ acc[t].pc \in {"root", "choose"}
  BY DEF AttachInv, FdsOpen
<1>2. ASSUME NEW u \in Threads, NEW b \in Binds, Accept(u, b) PROVE acc'[t] = acc[t]
  <2>1. u # t
    BY <1>1, <1>2 DEF Accept, Idle
  <2> QED
    BY <1>1, <1>2, <2>1, AcceptIs DEF AccTo
<1>3. ASSUME NEW u \in Threads, AcceptLocal(u) PROVE acc'[t] = acc[t]
  <2>1. u # t /\ acc[u].pc # "idle"
    BY <1>1, <1>3 DEF AcceptLocal
  <2> QED
    BY <1>1, <1>3, <2>1, Working, AcceptLocalIs DEF AccTo, AccEnds
<1>4. ASSUME NEW u \in Threads, AcceptRoot(u) PROVE acc'[t] = acc[t]
  <2>1. u # t
    BY <1>1, <1>4 DEF AcceptRoot
  <2> QED
    BY <1>1, <1>4, <2>1, AcceptRootIs DEF AccTo, AccEnds
<1>5. ASSUME NEW u \in Threads, AcceptChoose(u) PROVE acc'[t] = acc[t]
  <2>1. u # t
    BY <1>1, <1>5 DEF AcceptChoose
  <2> QED
    BY <1>1, <1>5, <2>1, AcceptChooseIs DEF AccTo
<1>6. ASSUME NEW u \in Threads, AcceptStart(u) PROVE acc'[t] = acc[t]
  <2>1. u # t
    BY <1>1, <1>6 DEF AcceptStart
  <2> QED
    BY <1>1, <1>6, <2>1, AcceptStartIs DEF AccTo, AccEnds
<1>7. ASSUME NEW u \in Threads, Run(u) PROVE acc'[t] = acc[t]
  BY <1>7 DEF Run
<1>8. ASSUME NEW a \in Apps, NEW S \in {Binds, Outs}, CallBegin(a, S) PROVE acc'[t] = acc[t]
  BY <1>8 DEF CallBegin
<1>9. ASSUME NEW a \in Apps, CallOpen(a) \/ CallFails(a) \/ BindScan(a) \/ BindStore(a)
                             \/ ConnectInsert(a) \/ CallAborts(a) \/ CallStart(a)
      PROVE  acc'[t] = acc[t]
  BY <1>9 DEF CallOpen, CallFails, BindScan, BindStore, ConnectInsert, CallAborts, CallStart
<1>10. ASSUME NEW b \in Binds, PeerConnects(b) PROVE acc'[t] = acc[t]
  BY <1>10 DEF PeerConnects
<1>11. CASE StopReading \/ StartReading \/ UNCHANGED vars
  BY <1>11 DEF StopReading, StartReading, vars
<1> QED
  BY <1>2, <1>3, <1>4, <1>5, <1>6, <1>7, <1>8, <1>9, <1>10, <1>11, StepIs

\* Unless something ran out, only the connection being accepted is missing in
\* root->conns.
LEMMA MissingKeeps ==
    ASSUME AttachInv, [Next]_vars
    PROVE  ~failed' => \A b \in Binds : \A k \in 1..Len(local'[b]) :
              \/ local'[b][k] \in Elems(conns')
              \/ /\ k = Len(local'[b])
                 /\ \E t \in Threads : acc'[t].o = local'[b][k] /\ acc'[t].pc = "root"
<1> SUFFICES ASSUME ~failed', NEW b \in Binds, NEW k \in 1..Len(local'[b])
             PROVE  \/ local'[b][k] \in Elems(conns')
                    \/ /\ k = Len(local'[b])
                       /\ \E t \in Threads : acc'[t].o = local'[b][k] /\ acc'[t].pc = "root"
  OBVIOUS
<1>1. /\ failed \in BOOLEAN /\ \A d \in Binds : local[d] \in Seq(Ins)
      /\ \A d, e \in Binds : \A m \in 1..Len(local[d]) : \A n \in 1..Len(local[e]) :
            local[d][m] = local[e][n] => d = e /\ m = n
      /\ conns \in Seq(Outs \cup Ins)
  BY DEF AttachInv, Types, ArraysT, OthersT, ArraysOK
<1>2. ~failed
  BY <1>1, Moves
<1>3. \A d \in Binds : \A m \in 1..Len(local[d]) :
         \/ local[d][m] \in Elems(conns)
         \/ /\ m = Len(local[d])
            /\ \E t \in Threads : acc[t].o = local[d][m] /\ acc[t].pc = "root"
  BY <1>2 DEF AttachInv, IndicesName
<1>4. Elems(conns) \subseteq Elems(conns')
  BY StepFrame, ConnsGrow
<1>5. ASSUME local' = local, \A t \in Threads : ~AcceptRoot(t)
      PROVE  \/ local'[b][k] \in Elems(conns')
             \/ /\ k = Len(local'[b])
                /\ \E t \in Threads : acc'[t].o = local'[b][k] /\ acc'[t].pc = "root"
  <2>1. CASE local[b][k] \in Elems(conns)
    BY <1>4, <1>5, <2>1
  <2>2. CASE local[b][k] \notin Elems(conns)
    <3>1. k = Len(local[b]) /\ \E t \in Threads : acc[t].o = local[b][k] /\ acc[t].pc = "root"
      BY <1>3, <1>5, <2>2
    <3>2. \A t \in Threads : acc[t].pc = "root" => acc'[t] = acc[t]
      BY <1>5, HandlersStay
    <3> QED
      BY <1>5, <3>1, <3>2
  <2> QED
    BY <2>1, <2>2
<1>6. ASSUME NEW t \in Threads, AcceptRoot(t)
      PROVE  \/ local'[b][k] \in Elems(conns')
             \/ /\ k = Len(local'[b])
                /\ \E u \in Threads : acc'[u].o = local'[b][k] /\ acc'[u].pc = "root"
  <2>1. PICK o \in Ins, c \in Binds :
              /\ o = acc[t].o /\ c = acc[t].b /\ acc[t].pc = "root" /\ UNCHANGED <<local, made>>
              /\ o \in made /\ o \notin Elems(conns) /\ local[c] \in Seq(Ins) /\ local[c] # << >>
              /\ local[c][Len(local[c])] = o /\ UNCHANGED <<idx, idxlocal, thr>>
              /\ \A u \in Threads : u # t => acc'[u] = acc[u]
              /\ \/ /\ conns' = Append(conns, o) /\ failed' = failed
                    /\ acc'[t].pc = "choose" /\ acc'[t].o = o
                 \/ conns' = conns /\ failed' = TRUE
    BY <1>6, RootInsert
  <2>2. o \in Elems(conns')
    <3>1. Elems(Append(conns, o)) = Elems(conns) \cup {o}
      BY <1>1, ElemsAppend
    <3> QED
      BY <2>1, <3>1
  <2>3. CASE local[b][k] \in Elems(conns)
    BY <1>4, <2>1, <2>3
  <2>4. CASE local[b][k] \notin Elems(conns)
    <3>1. PICK u \in Threads : k = Len(local[b]) /\ acc[u].o = local[b][k] /\ acc[u].pc = "root"
      BY <1>3, <2>1, <2>4
    <3>2. CASE u = t
      BY <2>1, <2>2, <3>1, <3>2
    <3>3. CASE u # t
      BY <2>1, <3>1, <3>3
    <3> QED
      BY <3>2, <3>3
  <2> QED
    BY <2>3, <2>4
<1>7. ASSUME NEW t \in Threads, AcceptLocal(t)
      PROVE  \/ local'[b][k] \in Elems(conns')
             \/ /\ k = Len(local'[b])
                /\ \E u \in Threads : acc'[u].o = local'[b][k] /\ acc'[u].pc = "root"
  <2>1. PICK o \in Ins, c \in Binds :
              /\ o = acc[t].o /\ c = acc[t].b /\ thr[c] = t /\ acc[t].pc = "local" /\ conns' = conns
              /\ o \in made /\ o \notin Elems(conns) /\ \A d \in Binds : o \notin Elems(local[d])
              /\ idxlocal[o] = Unset /\ UNCHANGED <<idx, idxlocal, thr>>
              /\ \/ /\ made' = made /\ failed' = failed /\ local[c] \in Seq(Ins)
                    /\ local'[c] = Append(local[c], o) /\ \A d \in Binds : d # c => local'[d] = local[d]
                    /\ acc'[t].pc = "root" /\ acc'[t].o = o
                    /\ \A u \in Threads : u # t => acc'[u] = acc[u]
                 \/ /\ made' = made \ {o} /\ failed' = TRUE /\ local' = local
                    /\ \A u \in Threads : u # t => acc'[u] = acc[u]
    BY <1>7, LocalInsert
  <2>2. \A u \in Threads : acc[u].pc = "root" => u # t /\ acc'[u] = acc[u]
    BY <2>1
  <2>3. CASE b # c
    <3>1. local'[b] = local[b]
      BY <2>1, <2>3
    <3> QED
      BY <1>3, <2>1, <2>2, <3>1
  <2>4. CASE b = c
    <3>1. PICK s \in Seq(Ins), n \in Nat : s = local[b] /\ n = Len(s)
      BY <1>1
    <3>2. local'[b] = Append(s, o) /\ acc'[t].pc = "root" /\ acc'[t].o = o
      BY <2>1, <2>4, <3>1
    <3>3. Len(local'[b]) = n + 1 /\ local'[b][n + 1] = o /\ \A m \in 1..n : local'[b][m] = s[m]
      BY <3>1, <3>2, AppendAt
    <3>4. CASE k = n + 1
      BY <3>2, <3>3, <3>4
    <3>5. CASE k \in 1..n
      <4>1. local'[b][k] = local[b][k] /\ k \in 1..Len(local[b])
        BY <3>1, <3>3, <3>5
      <4>2. ASSUME NEW u \in Threads, acc[u].o = local[b][k], acc[u].pc = "root" PROVE FALSE
        <5>1. PICK d \in Binds : /\ d = acc[u].b /\ thr[d] = u /\ local[d] # << >>
                                 /\ local[d][Len(local[d])] = acc[u].o
          <6>1. AccOK(u)
            BY DEF AttachInv, AccsOK
          <6> QED
            BY <4>2, <6>1 DEF AccOK
        <5>2. Len(local[d]) \in 1..Len(local[d])
          BY <1>1, <5>1
        <5>3. d = b
          BY <1>1, <4>1, <4>2, <5>1, <5>2
        <5> QED
          BY <2>1, <2>2, <2>4, <4>2, <5>1, <5>3
      <4>3. local[b][k] \in Elems(conns)
        BY <1>3, <4>1, <4>2
      <4> QED
        BY <2>1, <4>1, <4>3
    <3> QED
      BY <3>3, <3>4, <3>5
  <2> QED
    BY <2>3, <2>4
<1>8. local' = local \/ \E t \in Threads : AcceptLocal(t) \/ AcceptRoot(t)
  BY Moves, OutInsert
<1> QED
  BY <1>5, <1>6, <1>7, <1>8

\* A published connection without a thread is in the window of its handler.
LEMMA ThreadlessKeeps ==
    ASSUME AttachInv, [Next]_vars
    PROVE  ThreadlessOnlyInAccept'
<1> SUFFICES ASSUME NEW c \in Elems(conns'), thr'[c] = Unset
             PROVE  \E t \in Threads : acc'[t].o = c /\ acc'[t].pc = "choose"
  BY DEF ThreadlessOnlyInAccept
<1>1. /\ Elems(conns) \subseteq made /\ conns \in Seq(Outs \cup Ins) /\ Types
      /\ thr \in [Socks -> Threads \cup {Unset}] /\ thrLastIdx \in Threads /\ Unset \notin Threads
  BY SocksAre DEF AttachInv, ArraysOK, Types, ArraysT, FieldsT, OthersT
<1>2. \A d \in Elems(conns) : thr[d] = Unset => \E t \in Threads : acc[t].o = d /\ acc[t].pc = "choose"
  BY DEF AttachInv, ThreadlessOnlyInAccept
<1>3. ASSUME c \in Elems(conns), thr[c] = Unset, \A t \in Threads : AcceptChoose(t) => acc[t].o # c
      PROVE  \E t \in Threads : acc'[t].o = c /\ acc'[t].pc = "choose"
  <2>1. PICK t \in Threads : acc[t].o = c /\ acc[t].pc = "choose"
    BY <1>2, <1>3
  <2>2. acc'[t] = acc[t]
    BY <1>3, <2>1, HandlersStay
  <2> QED
    BY <2>1, <2>2
<1>4. ASSUME NEW t \in Threads, AcceptRoot(t)
      PROVE  \E u \in Threads : acc'[u].o = c /\ acc'[u].pc = "choose"
  <2>1. PICK o \in Ins, b \in Binds :
              /\ o = acc[t].o /\ b = acc[t].b /\ acc[t].pc = "root" /\ UNCHANGED <<local, made>>
              /\ o \in made /\ o \notin Elems(conns) /\ local[b] \in Seq(Ins) /\ local[b] # << >>
              /\ local[b][Len(local[b])] = o /\ UNCHANGED <<idx, idxlocal, thr>>
              /\ \A u \in Threads : u # t => acc'[u] = acc[u]
              /\ \/ /\ conns' = Append(conns, o) /\ failed' = failed
                    /\ acc'[t].pc = "choose" /\ acc'[t].o = o
                 \/ conns' = conns /\ failed' = TRUE
    BY <1>4, RootInsert
  <2>2. c \in Elems(conns) \/ (c = o /\ acc'[t].pc = "choose" /\ acc'[t].o = o)
    <3>1. Elems(Append(conns, o)) = Elems(conns) \cup {o}
      BY <1>1, ElemsAppend
    <3>2. CASE conns' = conns
      BY <3>2
    <3>3. CASE conns' = Append(conns, o) /\ acc'[t].pc = "choose" /\ acc'[t].o = o
      BY <3>1, <3>3
    <3> QED
      BY <2>1, <3>2, <3>3
  <2>3. CASE c \in Elems(conns)
    <3>1. PICK u \in Threads : acc[u].o = c /\ acc[u].pc = "choose"
      BY <1>2, <2>1, <2>3
    <3> QED
      BY <2>1, <3>1
  <2> QED
    BY <2>2, <2>3
<1>5. ASSUME NEW a \in Apps, ConnectInsert(a)
      PROVE  \E u \in Threads : acc'[u].o = c /\ acc'[u].pc = "choose"
  <2>1. PICK o \in Outs : /\ o = call[a].o /\ o \in made /\ o \notin Elems(conns) /\ thr[o] \in Threads
                          /\ conns' = Append(conns, o) /\ UNCHANGED <<local, made, acc, failed, thr>>
    BY <1>5, OutInsert
  <2>2. Elems(conns') = Elems(conns) \cup {o}
    BY <1>1, <2>1, ElemsAppend
  <2>3. c \in Elems(conns) /\ thr[c] = Unset
    BY <1>1, <2>1, <2>2
  <2> QED
    BY <1>2, <2>1, <2>3
<1>6. ASSUME NEW t \in Threads, AcceptChoose(t)
      PROVE  \E u \in Threads : acc'[u].o = c /\ acc'[u].pc = "choose"
  <2>1. conns' = conns /\ acc[t].pc = "choose" /\ thr' = [thr EXCEPT ![acc[t].o] = thrLastIdx]
    BY <1>6 DEF AcceptChoose, arrays
  <2>2. PICK o \in Socks : o = acc[t].o
    BY <2>1, Working, SocksAre
  <2>3. c # o /\ c \in Socks
    <3>1. c \in Socks
      BY <1>1, <2>1, ElemsEmpty, SocksAre
    <3> QED
      BY <1>1, <2>1, <2>2, <3>1
  <2>4. thr[c] = Unset
    BY <1>1, <2>1, <2>2, <2>3
  <2>5. PICK u \in Threads : acc[u].o = c /\ acc[u].pc = "choose"
    BY <1>2, <2>1, <2>4
  <2>6. acc'[u] = acc[u]
    <3>1. u # t
      BY <2>2, <2>3, <2>5
    <3>2. \A v \in Threads : v # t => acc'[v] = acc[v]
      BY <1>1, <1>6, AcceptChooseIs DEF AccTo
    <3> QED
      BY <3>1, <3>2
  <2> QED
    BY <2>5, <2>6
<1>7. ASSUME NEW a \in Apps, NEW S \in {Binds, Outs}, CallBegin(a, S)
      PROVE  \E u \in Threads : acc'[u].o = c /\ acc'[u].pc = "choose"
  <2>1. conns' = conns /\ acc' = acc
    BY <1>7 DEF CallBegin, arrays
  <2>2. PICK o \in S : o \notin made /\ Frame(o)
    BY <1>7, CallFrames
  <2>3. c \in Elems(conns) /\ c # o /\ c \in Socks
    <3>1. c \in Socks
      BY <1>1, <2>1, ElemsEmpty, SocksAre
    <3> QED
      BY <1>1, <2>1, <2>2, <3>1
  <2>4. thr[c] = Unset
    BY <2>2, <2>3 DEF Frame, Kept
  <2> QED
    BY <1>2, <2>1, <2>3, <2>4
<1>8. ASSUME conns' = conns, thr' = thr, \A t \in Threads : ~AcceptChoose(t)
      PROVE  \E u \in Threads : acc'[u].o = c /\ acc'[u].pc = "choose"
  BY <1>3, <1>8
<1>9. \/ conns' = conns /\ thr' = thr
      \/ \E a \in Apps, S \in {Binds, Outs} : CallBegin(a, S)
      \/ \E a \in Apps : ConnectInsert(a)
      \/ \E t \in Threads : AcceptRoot(t) \/ AcceptChoose(t)
  BY DEF Next, Environment, Call, Handler, Tasks, Accepts, CallOpen, CallFails, BindScan,
         BindStore, CallAborts, CallStart, PeerConnects, Accept, AcceptLocal, AcceptStart, Run,
         StopReading, StartReading, vars, arrays, fields
<1> QED
  BY <1>4, <1>5, <1>6, <1>7, <1>8, <1>9

\* So indices and arrays stay in agreement.
LEMMA ArraysNamed ==
    ASSUME AttachInv, [Next]_vars
    PROVE  ArraysOK' /\ IndicesName'
  BY ArraysKeep, IdxKeeps, IdxLocalKeeps, OrderKeeps, MissingKeeps DEF ArraysOK, IndicesName, Ordered

-----------------------------------------------------------------------------
(* The unlocked array of binds.                                            *)

\* The sockets are those still to be stored, or fewer.
LEMMA WaitingShrinks ==
    ASSUME AttachInv, Waiting' \subseteq Waiting
    PROVE  /\ IsFiniteSet(Waiting) /\ Cardinality(Waiting) \in Nat
           /\ Cardinality(Waiting') \in Nat /\ Cardinality(Waiting') <= Cardinality(Waiting)
<1>1. IsFiniteSet(Waiting)
  <2>1. IsFiniteSet(Binds)
    BY AttachAssumption, FS_Interval DEF Binds
  <2>2. Waiting \subseteq Binds
    BY DEF Waiting
  <2> QED
    BY <2>1, <2>2, FS_Subset
<1> QED
  BY <1>1, FS_Subset, FS_CardinalityType

\* What call[a] becomes when its step does not touch the array of binds.
OffArray(a) ==
    \/ call'[a] = call[a]
    \/ /\ call'[a].pc # "store"
       /\ call'[a].o \in Binds =>
             /\ call'[a].pc # "start"
             /\ call'[a].o \in made => call[a].o = call'[a].o /\ call[a].pc # "start"

\* Most steps leave the array and the indices of binds alone.
LEMMA BindsQuiet ==
    ASSUME AttachInv, binds' = binds, raced' = raced,
           \A b \in Binds : idx'[b] = idx[b] /\ (b \in made => b \in made'),
           \A a \in Apps : OffArray(a)
    PROVE  BindsOK' /\ BindIndexNames'
<1>1. Waiting' \subseteq Waiting
  <2> SUFFICES ASSUME NEW b \in Binds, b \notin made' \/ \E a \in Apps : call'[a].o = b /\ call'[a].pc # "start"
               PROVE  b \notin made \/ \E a \in Apps : call[a].o = b /\ call[a].pc # "start"
    BY DEF Waiting
  <2> QED
    BY DEF OffArray
<1>2. binds.last + Cardinality(Waiting') <= NBinds
  <2>1. PICK m \in Nat, n \in Nat : m = Cardinality(Waiting) /\ n = Cardinality(Waiting') /\ n <= m
    BY <1>1, WaitingShrinks
  <2>2. binds.last \in Nat /\ NBinds \in Nat /\ binds.last + m <= NBinds
    BY <2>1, AttachAssumption DEF AttachInv, BindsOK, Types, ArraysT
  <2> QED
    BY <2>1, <2>2
<1>3. \A a \in Apps :
          /\ call'[a].pc = "store" =>
                call'[a].i \in 0..binds.last /\ (~raced => binds.elems[call'[a].i] = 0)
          /\ call'[a].pc = "start" /\ call'[a].o \in Binds /\ ~raced =>
                call'[a].i \in 0..NBinds /\ binds.elems[call'[a].i] = call'[a].o
  BY DEF OffArray, AttachInv, BindsOK
<1>4. BindsOK'
  BY <1>2, <1>3 DEF AttachInv, BindsOK
<1>5. BindIndexNames'
  BY DEF AttachInv, BindIndexNames
<1> QED
  BY <1>4, <1>5

\* The array of binds and the indices of binds.
LEMMA BindsStep ==
    ASSUME AttachInv, [Next]_vars
    PROVE  BindsOK' /\ BindIndexNames'
<1> DEFINE P == BindsOK' /\ BindIndexNames'
<1>1. /\ Types /\ IsFiniteSet(open) /\ idx \in [Socks -> Indices] /\ raced \in BOOLEAN
      /\ binds.last \in Nat /\ binds.last <= NBinds /\ NBinds \in Nat
      /\ binds.elems \in [0..NBinds -> Binds \cup {0}]
      /\ binds.last + Cardinality(Waiting) <= NBinds
      /\ \A k \in 0..NBinds : k >= binds.last => binds.elems[k] = 0
      /\ \A a \in Apps :
            /\ call[a].pc = "store" =>
                  call[a].i \in 0..binds.last /\ (~raced => binds.elems[call[a].i] = 0)
            /\ call[a].pc = "start" /\ call[a].o \in Binds /\ ~raced =>
                  call[a].i \in 0..NBinds /\ binds.elems[call[a].i] = call[a].o
      /\ ~raced => \A b \in Binds : idx[b] # Unset => idx[b] \in 0..NBinds /\ binds.elems[idx[b]] = b
  BY AttachAssumption DEF AttachInv, FdsOpen, Types, FieldsT, ArraysT, OthersT, BindsOK, BindIndexNames
<1>2. /\ Binds \subseteq Socks /\ 0 \notin Binds /\ Binds \cap Ins = {} /\ Binds \cap Outs = {}
  BY SocksAre
<1>3. ASSUME NEW x, Frame(x), x \notin Binds, binds' = binds, raced' = raced, \A a \in Apps : OffArray(a)
      PROVE  P
  <2>1. \A b \in Binds : idx'[b] = idx[b] /\ (b \in made => b \in made')
    BY <1>2, <1>3 DEF Frame, Kept
  <2> QED
    BY <1>3, <2>1, BindsQuiet
<1> HIDE DEF P
<1>4. ASSUME NEW x, Frame(x), x \notin Binds, binds' = binds, raced' = raced, call' = call PROVE P
  BY <1>3, <1>4 DEF OffArray
<1>5. ASSUME NEW a \in Apps, NEW S \in {Binds, Outs}, CallBegin(a, S) PROVE P
  <2>1. PICK o \in S : /\ o \notin made /\ made' = made \cup {o} /\ CallTo(a, "open", o, Unset, Unset)
    BY <1>5, CallFrames
  <2>2. UNCHANGED <<binds, raced, idx>>
    BY <1>5 DEF CallBegin, arrays
  <2>3. call'[a].pc = "open" /\ call'[a].o = o /\ \A b \in Apps : b # a => call'[b] = call[b]
    BY <2>1 DEF CallTo, CallIs
  <2>4. \A b \in Apps : OffArray(b)
    BY <2>1, <2>3 DEF OffArray
  <2>5. \A b \in Binds : idx'[b] = idx[b] /\ (b \in made => b \in made')
    BY <2>1, <2>2
  <2>6. BindsOK' /\ BindIndexNames'
    BY <2>2, <2>4, <2>5, BindsQuiet
  <2> QED
    BY <2>6 DEF P
<1>6. ASSUME NEW a \in Apps, CallOpen(a) PROVE P
  <2>1. PICK d \in Fds, p \in {"scan", "insert"} :
              /\ d \notin open /\ open' = open \cup {d} /\ IsFiniteSet(open')
              /\ p = "scan" <=> call[a].o \in Binds
              /\ CallTo(a, p, call[a].o, d, call[a].i)
    BY <1>1, <1>6, CallOpenIs
  <2>2. call'[a].pc = p /\ call'[a].o = call[a].o /\ \A b \in Apps : b # a => call'[b] = call[b]
    BY <2>1 DEF CallTo, CallIs
  <2>3. UNCHANGED <<binds, raced>> /\ Frame(0) /\ call[a].pc = "open"
    BY <1>6, CallFrames DEF CallOpen, arrays
  <2>4. \A b \in Apps : OffArray(b)
    BY <2>2, <2>3 DEF OffArray
  <2> QED
    BY <1>2, <1>3, <2>3, <2>4
<1>7. ASSUME NEW a \in Apps, CallFails(a) PROVE P
  <2>1. CallTo(a, "idle", 0, Unset, Unset)
    BY <1>1, <1>7, CallFailsIs
  <2>2. call'[a].pc = "idle" /\ call'[a].o = 0 /\ \A b \in Apps : b # a => call'[b] = call[b]
    BY <2>1 DEF CallTo, CallIs
  <2>3. UNCHANGED <<binds, raced>> /\ Frame(0)
    BY <1>7, CallFrames DEF CallFails, arrays
  <2>4. \A b \in Apps : OffArray(b)
    BY <1>2, <2>2 DEF OffArray
  <2> QED
    BY <1>2, <1>3, <2>3, <2>4
<1>8. ASSUME NEW a \in Apps, ConnectInsert(a) PROVE P
  <2>1. CallTo(a, "start", call[a].o, call[a].fd, Len(conns))
    BY <1>1, <1>8, ConnectInsertIs
  <2>2. call'[a].pc = "start" /\ call'[a].o = call[a].o /\ \A b \in Apps : b # a => call'[b] = call[b]
    BY <2>1 DEF CallTo, CallIs
  <2>3. UNCHANGED <<binds, raced>> /\ Frame(call[a].o) /\ call[a].pc = "insert"
    BY <1>8, CallFrames DEF ConnectInsert
  <2>4. call[a].o \in Outs
    BY <2>3 DEF AttachInv, CallsOK, CallOK
  <2>5. call[a].o \notin Binds
    BY <1>2, <2>4
  <2>6. \A b \in Apps : OffArray(b)
    BY <2>2, <2>5 DEF OffArray
  <2> QED
    BY <1>3, <2>3, <2>5, <2>6
<1>9. ASSUME NEW a \in Apps, BindScan(a) PROVE P
  <2>1. PICK i \in 0..binds.last : /\ i = binds.last \/ binds.elems[i] = 0
                                   /\ CallTo(a, "store", call[a].o, call[a].fd, i)
    BY <1>1, <1>9, BindScanIs
  <2>2. /\ call'[a].pc = "store" /\ call'[a].o = call[a].o /\ call'[a].i = i
        /\ \A b \in Apps : b # a => call'[b] = call[b]
    BY <2>1 DEF CallTo, CallIs
  <2>3. UNCHANGED <<made, binds, raced, idx>> /\ call[a].pc = "scan"
    BY <1>9 DEF BindScan, arrays, fields
  <2>4. binds.elems[i] = 0
    BY <1>1, <2>1
  <2>5. Waiting' \subseteq Waiting
    <3> SUFFICES ASSUME NEW b \in Binds, b \notin made' \/ \E c \in Apps : call'[c].o = b /\ call'[c].pc # "start"
                 PROVE  b \notin made \/ \E c \in Apps : call[c].o = b /\ call[c].pc # "start"
      BY DEF Waiting
    <3> QED
      BY <2>2, <2>3
  <2>6. binds.last + Cardinality(Waiting') <= NBinds
    <3>1. PICK m \in Nat, n \in Nat : m = Cardinality(Waiting) /\ n = Cardinality(Waiting') /\ n <= m
      BY <2>5, WaitingShrinks
    <3> QED
      BY <1>1, <3>1
  <2>7. \A c \in Apps :
            /\ call'[c].pc = "store" =>
                  call'[c].i \in 0..binds.last /\ (~raced => binds.elems[call'[c].i] = 0)
            /\ call'[c].pc = "start" /\ call'[c].o \in Binds /\ ~raced =>
                  call'[c].i \in 0..NBinds /\ binds.elems[call'[c].i] = call'[c].o
    BY <1>1, <2>2, <2>4
  <2> QED
    BY <1>1, <2>3, <2>6, <2>7 DEF P, BindsOK, BindIndexNames
<1>10. ASSUME NEW a \in Apps, CallStart(a) PROVE P
  <2>1. /\ idx' = [idx EXCEPT ![call[a].o] = call[a].i] /\ CallTo(a, "idle", 0, Unset, Unset)
    BY <1>1, <1>10, CallStartIs
  <2>2. call'[a].pc = "idle" /\ call'[a].o = 0 /\ \A b \in Apps : b # a => call'[b] = call[b]
    BY <2>1 DEF CallTo, CallIs
  <2>3. UNCHANGED <<made, binds, raced>> /\ call[a].pc = "start"
    BY <1>10 DEF CallStart, arrays
  <2>4. PICK o \in Socks : o = call[a].o
    BY <2>3, Working, SocksAre
  <2>5. Waiting' \subseteq Waiting
    <3> SUFFICES ASSUME NEW b \in Binds, b \notin made' \/ \E c \in Apps : call'[c].o = b /\ call'[c].pc # "start"
                 PROVE  b \notin made \/ \E c \in Apps : call[c].o = b /\ call[c].pc # "start"
      BY DEF Waiting
    <3> QED
      BY <1>2, <2>2, <2>3
  <2>6. binds.last + Cardinality(Waiting') <= NBinds
    <3>1. PICK m \in Nat, n \in Nat : m = Cardinality(Waiting) /\ n = Cardinality(Waiting') /\ n <= m
      BY <2>5, WaitingShrinks
    <3> QED
      BY <1>1, <3>1
  <2>7. \A c \in Apps :
            /\ call'[c].pc = "store" =>
                  call'[c].i \in 0..binds.last /\ (~raced => binds.elems[call'[c].i] = 0)
            /\ call'[c].pc = "start" /\ call'[c].o \in Binds /\ ~raced =>
                  call'[c].i \in 0..NBinds /\ binds.elems[call'[c].i] = call'[c].o
    BY <1>1, <2>2
  <2>8. ASSUME ~raced, NEW b \in Binds, idx'[b] # Unset
        PROVE  idx'[b] \in 0..NBinds /\ binds.elems[idx'[b]] = b
    <3>1. CASE b = o
      BY <1>1, <2>1, <2>3, <2>4, <2>8, <3>1
    <3>2. CASE b # o
      BY <1>1, <1>2, <2>1, <2>4, <2>8, <3>2
    <3> QED
      BY <3>1, <3>2
  <2> QED
    BY <1>1, <2>3, <2>6, <2>7, <2>8 DEF P, BindsOK, BindIndexNames
<1>11. ASSUME NEW a \in Apps, BindStore(a) PROVE P
  <2>1. /\ binds'.last = binds.last + 1
        /\ binds'.elems = [binds.elems EXCEPT ![call[a].i] = call[a].o]
        /\ CallTo(a, "start", call[a].o, call[a].fd, call[a].i)
    BY <1>1, <1>11, BindStoreIs
  <2>2. /\ call'[a].pc = "start" /\ call'[a].o = call[a].o /\ call'[a].i = call[a].i
        /\ \A b \in Apps : b # a => call'[b] = call[b]
    BY <2>1 DEF CallTo, CallIs
  <2>3. UNCHANGED <<made, idx>> /\ call[a].pc = "store"
    BY <1>11 DEF BindStore, fields
  <2>4. raced' <=> raced \/ \E b \in Apps \ {a} : call[b].pc = "store"
    BY <1>11 DEF BindStore
  <2>5. /\ call[a].o \in Binds /\ call[a].o \in Waiting /\ IsFiniteSet(Waiting)
        /\ Cardinality(Waiting) \in Nat /\ Cardinality(Waiting) >= 1 /\ binds.last + 1 <= NBinds
    BY <2>3, RoomForBind
  <2>6. PICK o \in Binds, i \in 0..binds.last : o = call[a].o /\ i = call[a].i /\ o \in made
    BY <1>1, <2>3, <2>5, Working
  <2>7. \A b \in Apps : b # a => call[b].o # o
    BY <2>3, <2>6 DEF AttachInv, Apart
  <2>8. Waiting' \subseteq Waiting \ {o}
    <3>1. ASSUME NEW b \in Binds, b \notin made' \/ \E c \in Apps : call'[c].o = b /\ call'[c].pc # "start"
          PROVE  b # o /\ (b \notin made \/ \E c \in Apps : call[c].o = b /\ call[c].pc # "start")
      BY <2>2, <2>3, <2>6, <2>7, <3>1
    <3> QED
      BY <3>1 DEF Waiting
  <2>9. binds.last + 1 + Cardinality(Waiting') <= NBinds
    <3>1. /\ IsFiniteSet(Waiting \ {o}) /\ Cardinality(Waiting \ {o}) = Cardinality(Waiting) - 1
      BY <2>5, <2>6, FS_RemoveElement
    <3>2. Cardinality(Waiting') \in Nat /\ Cardinality(Waiting') <= Cardinality(Waiting \ {o})
      BY <2>8, <3>1, FS_Subset, FS_CardinalityType
    <3>3. PICK m \in Nat, n \in Nat : m = Cardinality(Waiting) /\ n = Cardinality(Waiting') /\ n <= m - 1
      BY <2>5, <3>1, <3>2
    <3> QED
      BY <1>1, <3>3
  <2>10. PICK e : e = binds'.elems /\ e[i] = o /\ \A k \in 0..NBinds : k # i => e[k] = binds.elems[k]
    BY <1>1, <2>1, <2>6
  <2>11. \A k \in 0..NBinds : k >= binds.last + 1 => e[k] = 0
    BY <1>1, <2>10
  <2>12. ~raced' => ~raced /\ binds.elems[i] = 0
    BY <1>1, <2>3, <2>4, <2>6
  <2>13. ASSUME NEW c \in Apps
         PROVE  /\ call'[c].pc = "store" =>
                      call'[c].i \in 0..(binds.last + 1) /\ (~raced' => e[call'[c].i] = 0)
                /\ call'[c].pc = "start" /\ call'[c].o \in Binds /\ ~raced' =>
                      call'[c].i \in 0..NBinds /\ e[call'[c].i] = call'[c].o
    <3>1. CASE c = a
      BY <1>1, <2>2, <2>6, <2>10, <3>1
    <3>2. CASE c # a
      <4>1. call'[c] = call[c]
        BY <2>2, <3>2
      <4>2. call[c].pc = "store" => call[c].i \in 0..(binds.last + 1) /\ raced'
        <5>1. call[c].pc = "store" => raced'
          BY <2>4, <3>2
        <5>2. call[c].pc = "store" => call[c].i \in 0..(binds.last + 1)
          BY <1>1
        <5> QED
          BY <5>1, <5>2
      <4>3. ASSUME call[c].pc = "start", call[c].o \in Binds, ~raced'
            PROVE  call[c].i \in 0..NBinds /\ e[call[c].i] = call[c].o
        BY <1>1, <1>2, <2>10, <2>12, <4>3
      <4> QED
        BY <4>1, <4>2, <4>3
    <3> QED
      BY <3>1, <3>2
  <2>14. ASSUME ~raced', NEW b \in Binds, idx[b] # Unset
         PROVE  idx[b] \in 0..NBinds /\ e[idx[b]] = b
    BY <1>1, <1>2, <2>10, <2>12, <2>14
  <2>15. BindsOK'
    BY <2>1, <2>3, <2>9, <2>10, <2>11, <2>13, <2>14 DEF BindsOK
  <2>16. BindIndexNames'
    BY <2>3, <2>10, <2>14 DEF BindIndexNames
  <2> QED
    BY <2>15, <2>16 DEF P
<1>12. ASSUME NEW a \in Apps, CallAborts(a) PROVE P
  <2>1. UNCHANGED <<binds, raced, call>> /\ Frame(0)
    BY <1>12, CallFrames DEF CallAborts, arrays
  <2> QED
    BY <1>2, <1>4, <2>1
<1>13. ASSUME NEW t \in Threads, NEW b \in Binds, Accept(t, b) PROVE P
  <2>1. UNCHANGED <<binds, raced, call>>
    BY <1>13 DEF Accept, arrays
  <2>2. Frame(0) \/ \E o \in Ins : Frame(o)
    BY <1>13, AccFrames
  <2> QED
    BY <1>2, <1>4, <2>1, <2>2
<1>14. ASSUME NEW t \in Threads, AcceptLocal(t) \/ AcceptRoot(t) \/ AcceptChoose(t) \/ AcceptStart(t) PROVE P
  <2>1. UNCHANGED <<binds, raced, call>> /\ acc[t].pc # "idle"
    BY <1>14 DEF AcceptLocal, AcceptRoot, AcceptChoose, AcceptStart, arrays
  <2>2. Frame(acc[t].o) /\ acc[t].o \in Ins
    BY <1>14, <2>1, AccFrames, Working
  <2> QED
    BY <1>2, <1>4, <2>1, <2>2
<1>15. ASSUME NEW t \in Threads, Run(t) PROVE P
  <2>1. UNCHANGED <<made, binds, raced, call, idx>>
    BY <1>15 DEF Run, arrays, fields
  <2>2. BindsOK' /\ BindIndexNames'
    BY <2>1, BindsQuiet DEF OffArray
  <2> QED
    BY <2>2 DEF P
<1>16. ASSUME NEW b \in Binds, PeerConnects(b) PROVE P
  <2>1. UNCHANGED <<binds, raced, call>> /\ Frame(0)
    BY <1>16, OtherFrames DEF PeerConnects, arrays
  <2> QED
    BY <1>2, <1>4, <2>1
<1>17. ASSUME StopReading \/ StartReading \/ UNCHANGED vars PROVE P
  <2>1. UNCHANGED <<binds, raced, call>>
    BY <1>17 DEF StopReading, StartReading, vars, arrays
  <2>2. Frame(0)
    BY <1>17, OtherFrames
  <2> QED
    BY <1>2, <1>4, <2>1, <2>2
<1>18. P
  BY <1>5, <1>6, <1>7, <1>8, <1>9, <1>10, <1>11, <1>12, <1>13, <1>14, <1>15, <1>16, <1>17, StepIs
<1> QED
  BY <1>18 DEF P

-----------------------------------------------------------------------------
(* The descriptors.                                                        *)

\* The handler on t has descriptor d and has not handed it on.
Carries(t, d) == acc[t].fd = d /\ acc[t].pc # "start"

\* Who is among the holders of d, before a step and after it.
LEMMA HoldersAre ==
    ASSUME NEW d
    PROVE  /\ \A z \in Holders(d) : \/ \E o \in Socks : fd[o] = d /\ z = <<"sock", o>>
                                    \/ \E a \in Apps : call[a].fd = d /\ z = <<"call", a>>
                                    \/ \E t \in Threads : Carries(t, d) /\ z = <<"accept", t>>
           /\ \A o \in Socks : fd[o] = d => <<"sock", o>> \in Holders(d)
           /\ \A a \in Apps : call[a].fd = d => <<"call", a>> \in Holders(d)
           /\ \A t \in Threads : Carries(t, d) => <<"accept", t>> \in Holders(d)
  BY DEF Holders, Carries

\* The same after a step.
LEMMA HoldersNext ==
    ASSUME NEW d
    PROVE  /\ \A z \in Holders(d)' : \/ \E o \in Socks : fd'[o] = d /\ z = <<"sock", o>>
                                     \/ \E a \in Apps : call'[a].fd = d /\ z = <<"call", a>>
                                     \/ \E t \in Threads : Carries(t, d)' /\ z = <<"accept", t>>
           /\ \A o \in Socks : fd'[o] = d => <<"sock", o>> \in Holders(d)'
           /\ \A a \in Apps : call'[a].fd = d => <<"call", a>> \in Holders(d)'
           /\ \A t \in Threads : Carries(t, d)' => <<"accept", t>> \in Holders(d)'
  BY DEF Holders, Carries

\* What is not open has no holder.
LEMMA ClosedUnowned ==
    ASSUME AttachInv, NEW d \in Fds, d \notin open
    PROVE  /\ \A o \in Socks : fd[o] # d
           /\ \A a \in Apps : call[a].fd # d
           /\ \A t \in Threads : acc[t].fd # d
           /\ Holders(d) = {}
<1>1. /\ \A o \in Socks : fd[o] # d
      /\ \A a \in Apps : call[a].fd # d
      /\ \A t \in Threads : acc[t].fd # d
  BY SocksAre DEF AttachInv, FdsOpen
<1>2. \A z \in Holders(d) : FALSE
  BY <1>1, HoldersAre DEF Carries
<1> QED
  BY <1>1, <1>2

\* A step that gives nobody a descriptor; only one that reports a failure may
\* take one away or open one for nobody.
LEMMA HoldersFewer ==
    ASSUME AttachInv, open \subseteq open', open' \in SUBSET Fds, IsFiniteSet(open'), fd' = fd,
           \A a \in Apps : call'[a].fd = call[a].fd \/ call'[a].fd = Unset,
           \A t \in Threads : acc'[t].fd = acc[t].fd \/ acc'[t].fd = Unset,
           \A t \in Threads : \A d \in Fds : Carries(t, d)' => Carries(t, d),
           \/ failed' = TRUE
           \/ /\ failed' = failed /\ open' = open /\ \A a \in Apps : call'[a].fd = call[a].fd
              /\ \A t \in Threads : \A d \in Fds : Carries(t, d) => Carries(t, d)'
    PROVE  FdsOpen' /\ FdsOwned'
<1>1. FdsOpen'
  BY DEF AttachInv, FdsOpen
<1>2. ASSUME NEW d \in open', NEW z \in Holders(d)' PROVE z \in Holders(d)
  <2>1. d \in Fds /\ d # Unset
    BY SocksAre
  <2> QED
    BY <1>2, <2>1, HoldersAre, HoldersNext
<1>3. ASSUME NEW d \in open', NEW x \in Holders(d)', NEW y \in Holders(d)' PROVE x = y
  <2>1. x \in Holders(d) /\ y \in Holders(d)
    BY <1>2
  <2>2. d \in open
    BY <2>1, ClosedUnowned
  <2> QED
    BY <2>1, <2>2 DEF AttachInv, FdsOwned
<1>4. ASSUME NEW d \in open', ~failed' PROVE Holders(d)' # {}
  <2>1. d \in Fds /\ d \in open /\ ~failed
    BY <1>4
  <2>2. PICK z : z \in Holders(d)
    BY <2>1 DEF AttachInv, FdsOwned
  <2>3. \A a \in Apps : call'[a].fd = call[a].fd
    BY <1>4
  <2>4. \A t \in Threads : Carries(t, d) => Carries(t, d)'
    BY <1>4, <2>1
  <2>5. \/ \E o \in Socks : fd[o] = d /\ z = <<"sock", o>>
        \/ \E a \in Apps : call[a].fd = d /\ z = <<"call", a>>
        \/ \E t \in Threads : Carries(t, d) /\ z = <<"accept", t>>
    BY <2>2, HoldersAre
  <2>6. z \in Holders(d)'
    BY <2>3, <2>4, <2>5, HoldersNext
  <2> QED
    BY <2>6
<1> QED
  BY <1>1, <1>3, <1>4 DEF FdsOwned

\* A step that opens d for one new holder x.
LEMMA HolderNew ==
    ASSUME AttachInv, NEW d \in Fds, d \notin open, open' = open \cup {d}, IsFiniteSet(open'),
           failed' = failed, NEW x, x \in Holders(d)', \A z \in Holders(d)' : z = x,
           \A e \in open : Holders(e)' = Holders(e)
    PROVE  FdsOwned'
  BY DEF AttachInv, FdsOwned

\* A step in which y takes d over from x.
LEMMA HolderChanges ==
    ASSUME AttachInv, open' = open, failed' = failed, NEW d, NEW x, NEW y,
           d \in open, x \in Holders(d), y \in Holders(d)',
           \A z \in Holders(d)' : z = y \/ (z \in Holders(d) /\ z # x),
           \A e \in open : e # d => Holders(e)' = Holders(e)
    PROVE  FdsOwned'
<1>1. \A z \in Holders(d) : z = x
  BY DEF AttachInv, FdsOwned
<1>2. \A z \in Holders(d)' : z = y
  BY <1>1
<1> QED
  BY <1>1, <1>2 DEF AttachInv, FdsOwned

\* fsock_bind or fsock_connect opens its descriptor.
LEMMA OpenOwned ==
    ASSUME AttachInv, NEW a \in Apps, CallOpen(a)
    PROVE  FdsOpen' /\ FdsOwned'
<1>1. Types /\ IsFiniteSet(open) /\ open \subseteq Fds
  BY DEF AttachInv, FdsOpen, Types, OthersT
<1>2. fd' = fd /\ acc' = acc /\ failed' = failed
  BY DEF CallOpen, fields
<1>3. \E d \in Fds, p \in {"scan", "insert"} :
         /\ d \notin open /\ open' = open \cup {d} /\ IsFiniteSet(open')
         /\ p = "scan" <=> call[a].o \in Binds
         /\ CallTo(a, p, call[a].o, d, call[a].i)
  BY <1>1, CallOpenIs
<1>4. \E d \in Fds : /\ d \notin open /\ open' = open \cup {d} /\ IsFiniteSet(open')
                     /\ call'[a].fd = d /\ \A b \in Apps : b # a => call'[b].fd = call[b].fd
  BY <1>3 DEF CallTo, CallIs
<1>5. PICK d \in Fds : /\ d \notin open /\ open' = open \cup {d} /\ IsFiniteSet(open')
                       /\ call'[a].fd = d /\ \A b \in Apps : b # a => call'[b].fd = call[b].fd
  BY <1>4
<1>6. call[a].fd = Unset
  BY DEF CallOpen, AttachInv, CallsOK, CallOK
<1>7. FdsOpen'
  BY <1>2, <1>5 DEF AttachInv, FdsOpen
<1>8. <<"call", a>> \in Holders(d)'
  BY <1>5, HoldersNext
<1>9. ASSUME NEW z \in Holders(d)' PROVE z = <<"call", a>>
  <2>1. /\ \A o \in Socks : fd[o] # d
        /\ \A b \in Apps : call[b].fd # d
        /\ \A t \in Threads : acc[t].fd # d
    BY <1>5, ClosedUnowned
  <2>2. \A t \in Threads : ~Carries(t, d)'
    BY <1>2, <2>1 DEF Carries
  <2> QED
    BY <1>2, <1>5, <2>1, <2>2, HoldersNext
<1>10. ASSUME NEW e \in open PROVE Holders(e)' = Holders(e)
  <2>1. e # d /\ e # Unset
    BY <1>1, <1>5, SocksAre
  <2>2. \A t \in Threads : Carries(t, e)' <=> Carries(t, e)
    BY <1>2 DEF Carries
  <2>3. \A b \in Apps : call'[b].fd = e <=> call[b].fd = e
    BY <1>5, <1>6, <2>1
  <2>4. \A z \in Holders(e) : z \in Holders(e)'
    BY <1>2, <2>2, <2>3, HoldersAre, HoldersNext
  <2>5. \A z \in Holders(e)' : z \in Holders(e)
    BY <1>2, <2>2, <2>3, HoldersAre, HoldersNext
  <2> QED
    BY <2>4, <2>5
<1>11. PICK x : x = <<"call", a>>
  OBVIOUS
<1>12. FdsOwned'
  BY <1>2, <1>5, <1>8, <1>9, <1>10, <1>11, HolderNew
<1> QED
  BY <1>7, <1>12

\* The accept handler gets one, and may fail to keep it.
LEMMA AcceptOwned ==
    ASSUME AttachInv, NEW t \in Threads, NEW b \in Binds, Accept(t, b)
    PROVE  FdsOpen' /\ FdsOwned'
<1>1. Types /\ IsFiniteSet(open) /\ open \subseteq Fds
  BY DEF AttachInv, FdsOpen, Types, OthersT
<1>2. fd' = fd /\ call' = call
  BY DEF Accept, fields
<1>3. PICK d \in Fds :
         /\ d \notin open /\ open' = open \cup {d} /\ IsFiniteSet(open')
         /\ \/ /\ made' = made /\ acc' = acc /\ failed' = TRUE
            \/ \E o \in Ins : /\ o \notin made /\ made' = made \cup {o} /\ failed' = failed
                              /\ AccTo(t, "local", b, o, d, Unset, Unset)
  BY <1>1, AcceptIs
<1>4. CASE acc' = acc /\ failed' = TRUE
  <2>1. \A u \in Threads : \A e \in Fds : Carries(u, e)' => Carries(u, e)
    BY <1>4 DEF Carries
  <2>2. open \subseteq open' /\ open' \in SUBSET Fds /\ IsFiniteSet(open')
    BY <1>1, <1>3
  <2> QED
    BY <1>2, <1>4, <2>1, <2>2, HoldersFewer
<1>5. CASE \E o \in Ins : failed' = failed /\ AccTo(t, "local", b, o, d, Unset, Unset)
  <2>1. /\ failed' = failed /\ acc'[t].fd = d /\ acc'[t].pc = "local"
        /\ \A u \in Threads : u # t => acc'[u] = acc[u]
    BY <1>5 DEF AccTo, AccIs
  <2>2. acc[t].fd = Unset
    <3>1. acc[t].pc = "idle"
      BY DEF Accept, Idle
    <3>2. acc[t] = NoAccept
      BY <3>1 DEF AttachInv, AccsOK, AccOK
    <3> QED
      BY <3>2 DEF NoAccept
  <2>3. FdsOpen'
    <3>1. \A u \in Threads : acc'[u].fd # Unset => acc'[u].fd \in open'
      BY <1>3, <2>1 DEF AttachInv, FdsOpen
    <3> QED
      BY <1>2, <1>3, <3>1 DEF AttachInv, FdsOpen
  <2>4. <<"accept", t>> \in Holders(d)'
    <3>1. Carries(t, d)'
      BY <2>1 DEF Carries
    <3> QED
      BY <3>1, HoldersNext
  <2>5. ASSUME NEW z \in Holders(d)' PROVE z = <<"accept", t>>
    <3>1. /\ \A o \in Socks : fd[o] # d
          /\ \A a \in Apps : call[a].fd # d
          /\ \A u \in Threads : acc[u].fd # d
      BY <1>3, ClosedUnowned
    <3>2. \A u \in Threads : u # t => ~Carries(u, d)'
      BY <2>1, <3>1 DEF Carries
    <3> QED
      BY <1>2, <3>1, <3>2, HoldersNext
  <2>6. ASSUME NEW e \in open PROVE Holders(e)' = Holders(e)
    <3>1. e # d /\ e # Unset
      BY <1>1, <1>3, SocksAre
    <3>2. \A u \in Threads : Carries(u, e)' <=> Carries(u, e)
      BY <2>1, <2>2, <3>1 DEF Carries
    <3>3. \A z \in Holders(e) : z \in Holders(e)'
      BY <1>2, <3>2, HoldersAre, HoldersNext
    <3>4. \A z \in Holders(e)' : z \in Holders(e)
      BY <1>2, <3>2, HoldersAre, HoldersNext
    <3> QED
      BY <3>3, <3>4
  <2>7. PICK x : x = <<"accept", t>>
    OBVIOUS
  <2>8. FdsOwned'
    BY <1>3, <2>1, <2>4, <2>5, <2>6, <2>7, HolderNew
  <2> QED
    BY <2>3, <2>8
<1> QED
  BY <1>3, <1>4, <1>5

\* A call hands its descriptor over to its socket.
LEMMA StartOwned ==
    ASSUME AttachInv, NEW a \in Apps, CallStart(a)
    PROVE  FdsOpen' /\ FdsOwned'
<1>1. Types /\ open \subseteq Fds
  BY DEF AttachInv, Types, OthersT
<1>2. acc' = acc /\ failed' = failed /\ open' = open
  BY DEF CallStart, kernel
<1>3. PICK o : o = call[a].o
  OBVIOUS
<1>4. PICK d : d = call[a].fd
  OBVIOUS
<1>5. /\ o \in Socks /\ fd[o] = Unset /\ d # Unset /\ d \in open
  <2>1. call[a].pc = "start"
    BY DEF CallStart
  <2> QED
    BY <1>3, <1>4, <2>1, SocksAre, Working DEF AttachInv, CallsOK, CallOK, FdsOpen
<1>6. fd' = [fd EXCEPT ![o] = d]
  BY <1>1, <1>3, <1>4, CallStartIs
<1>7. call'[a].fd = Unset /\ \A b \in Apps : b # a => call'[b] = call[b]
  BY <1>1, CallStartIs DEF CallTo, CallIs
<1>8. fd'[o] = d /\ \A p \in Socks : p # o => fd'[p] = fd[p]
  BY <1>1, <1>5, <1>6 DEF Types, FieldsT
<1>9. FdsOpen'
  BY <1>2, <1>5, <1>7, <1>8 DEF AttachInv, FdsOpen
<1>10. \A t \in Threads : \A e \in open : Carries(t, e)' <=> Carries(t, e)
  BY <1>2 DEF Carries
<1>11. <<"call", a>> \in Holders(d) /\ <<"sock", o>> \in Holders(d)'
  BY <1>4, <1>5, <1>8, HoldersAre, HoldersNext
<1>12. ASSUME NEW z \in Holders(d)' PROVE z = <<"sock", o>> \/ (z \in Holders(d) /\ z # <<"call", a>>)
  <2>1. CASE \E p \in Socks : fd'[p] = d /\ z = <<"sock", p>>
    BY <1>8, <2>1, HoldersAre
  <2>2. CASE \E b \in Apps : call'[b].fd = d /\ z = <<"call", b>>
    <3>1. PICK b \in Apps : call'[b].fd = d /\ z = <<"call", b>>
      BY <2>2
    <3>2. b # a
      BY <1>5, <1>7, <3>1
    <3>3. z # <<"call", a>>
      BY <3>1, <3>2
    <3> QED
      BY <1>7, <3>1, <3>2, <3>3, HoldersAre
  <2>3. CASE \E t \in Threads : Carries(t, d)' /\ z = <<"accept", t>>
    BY <1>5, <1>10, <2>3, HoldersAre
  <2> QED
    BY <2>1, <2>2, <2>3, HoldersNext
<1>13. ASSUME NEW e \in open, e # d PROVE Holders(e)' = Holders(e)
  <2>1. e # Unset
    BY <1>1, SocksAre
  <2>2. \A p \in Socks : fd'[p] = e <=> fd[p] = e
    BY <1>5, <1>8, <1>13, <2>1
  <2>3. \A b \in Apps : call'[b].fd = e <=> call[b].fd = e
    BY <1>4, <1>7, <1>13, <2>1
  <2>4. \A z \in Holders(e) : z \in Holders(e)'
    BY <1>10, <2>2, <2>3, HoldersAre, HoldersNext
  <2>5. \A z \in Holders(e)' : z \in Holders(e)
    BY <1>10, <2>2, <2>3, HoldersAre, HoldersNext
  <2> QED
    BY <2>4, <2>5
<1>14. PICK x, y : x = <<"call", a>> /\ y = <<"sock", o>>
  OBVIOUS
<1>15. FdsOwned'
  BY <1>2, <1>5, <1>11, <1>12, <1>13, <1>14, HolderChanges
<1> QED
  BY <1>9, <1>15

\* So does an accept handler.
LEMMA ChooseOwned ==
    ASSUME AttachInv, NEW t \in Threads, AcceptChoose(t)
    PROVE  FdsOpen' /\ FdsOwned'
<1>1. Types /\ open \subseteq Fds
  BY DEF AttachInv, Types, OthersT
<1>2. call' = call /\ failed' = failed /\ open' = open
  BY DEF AcceptChoose, kernel
<1>3. PICK o : o = acc[t].o
  OBVIOUS
<1>4. PICK d : d = acc[t].fd
  OBVIOUS
<1>5. acc[t].pc = "choose"
  BY DEF AcceptChoose
<1>6. /\ o \in Socks /\ fd[o] = Unset /\ d # Unset /\ d \in open
  BY <1>3, <1>4, <1>5, SocksAre, Working DEF AttachInv, AccsOK, AccOK, FdsOpen
<1>7. fd' = [fd EXCEPT ![o] = d]
  BY <1>1, <1>3, <1>4, AcceptChooseIs
<1>8. acc'[t].fd = d /\ acc'[t].pc = "start" /\ \A u \in Threads : u # t => acc'[u] = acc[u]
  BY <1>1, <1>4, AcceptChooseIs DEF AccTo, AccIs
<1>9. fd'[o] = d /\ \A p \in Socks : p # o => fd'[p] = fd[p]
  BY <1>1, <1>6, <1>7 DEF Types, FieldsT
<1>10. FdsOpen'
  <2>1. \A p \in Socks : fd'[p] # Unset => fd'[p] \in open'
    BY <1>2, <1>6, <1>9 DEF AttachInv, FdsOpen
  <2>2. \A u \in Threads : acc'[u].fd # Unset => acc'[u].fd \in open'
    BY <1>2, <1>6, <1>8 DEF AttachInv, FdsOpen
  <2> QED
    BY <1>2, <2>1, <2>2 DEF AttachInv, FdsOpen
<1>11. /\ \A u \in Threads : \A e \in open : u # t => (Carries(u, e)' <=> Carries(u, e))
       /\ \A e \in open : ~Carries(t, e)' /\ (Carries(t, e) => e = d)
       /\ Carries(t, d)
  BY <1>4, <1>5, <1>8 DEF Carries
<1>12. <<"accept", t>> \in Holders(d) /\ <<"sock", o>> \in Holders(d)'
  BY <1>6, <1>9, <1>11, HoldersAre, HoldersNext
<1>13. ASSUME NEW z \in Holders(d)' PROVE z = <<"sock", o>> \/ (z \in Holders(d) /\ z # <<"accept", t>>)
  <2>1. CASE \E p \in Socks : fd'[p] = d /\ z = <<"sock", p>>
    BY <1>9, <2>1, HoldersAre
  <2>2. CASE \E b \in Apps : call'[b].fd = d /\ z = <<"call", b>>
    BY <1>2, <2>2, HoldersAre
  <2>3. CASE \E u \in Threads : Carries(u, d)' /\ z = <<"accept", u>>
    <3>1. PICK u \in Threads : Carries(u, d)' /\ z = <<"accept", u>>
      BY <2>3
    <3>2. u # t
      BY <1>6, <1>11, <3>1
    <3>3. z # <<"accept", t>>
      BY <3>1, <3>2
    <3> QED
      BY <1>6, <1>11, <3>1, <3>2, <3>3, HoldersAre
  <2> QED
    BY <2>1, <2>2, <2>3, HoldersNext
<1>14. ASSUME NEW e \in open, e # d PROVE Holders(e)' = Holders(e)
  <2>1. e # Unset
    BY <1>1, SocksAre
  <2>2. \A p \in Socks : fd'[p] = e <=> fd[p] = e
    BY <1>6, <1>9, <1>14, <2>1
  <2>3. \A u \in Threads : Carries(u, e)' <=> Carries(u, e)
    BY <1>11, <1>14
  <2>4. \A z \in Holders(e) : z \in Holders(e)'
    BY <1>2, <2>2, <2>3, HoldersAre, HoldersNext
  <2>5. \A z \in Holders(e)' : z \in Holders(e)
    BY <1>2, <2>2, <2>3, HoldersAre, HoldersNext
  <2> QED
    BY <2>4, <2>5
<1>15. PICK x, y : x = <<"accept", t>> /\ y = <<"sock", o>>
  OBVIOUS
<1>16. FdsOwned'
  BY <1>2, <1>6, <1>12, <1>13, <1>14, <1>15, HolderChanges
<1> QED
  BY <1>10, <1>16

\* Every step: FdsOpen and FdsOwned hold after it.
LEMMA FdsStep ==
    ASSUME AttachInv, [Next]_vars
    PROVE  FdsOpen' /\ FdsOwned'
<1>1. Types /\ IsFiniteSet(open) /\ open \in SUBSET Fds /\ open \subseteq open
  BY DEF AttachInv, FdsOpen, Types, OthersT
<1>2. ASSUME NEW a \in Apps, CallFails(a) PROVE FdsOpen' /\ FdsOwned'
  <2>1. fd' = fd /\ acc' = acc /\ failed' = TRUE
    BY <1>2 DEF CallFails, fields
  <2>2. open \subseteq open' /\ open' \in SUBSET Fds /\ IsFiniteSet(open')
    BY <1>1, <1>2, CallFailsIs
  <2>3. \A b \in Apps : call'[b].fd = call[b].fd \/ call'[b].fd = Unset
    BY <1>1, <1>2, CallFailsIs DEF CallTo, CallIs
  <2>4. \A t \in Threads : \A d \in Fds : Carries(t, d)' => Carries(t, d)
    BY <2>1 DEF Carries
  <2> QED
    BY <2>1, <2>2, <2>3, <2>4, HoldersFewer
<1>3. ASSUME fd' = fd, open' = open, acc' = acc, failed' = failed \/ failed' = TRUE,
             \A a \in Apps : call'[a].fd = call[a].fd
      PROVE  FdsOpen' /\ FdsOwned'
  <2>1. \A t \in Threads : \A d \in Fds : Carries(t, d)' <=> Carries(t, d)
    BY <1>3 DEF Carries
  <2> QED
    BY <1>1, <1>3, <2>1, HoldersFewer
<1>4. ASSUME NEW a \in Apps, NEW p, NEW o, NEW i, CallTo(a, p, o, call[a].fd, i)
      PROVE  \A b \in Apps : call'[b].fd = call[b].fd
  BY <1>4 DEF CallTo, CallIs
<1>5. ASSUME NEW a \in Apps, NEW S \in {Binds, Outs}, CallBegin(a, S) PROVE FdsOpen' /\ FdsOwned'
  <2>1. fd' = fd /\ open' = open /\ acc' = acc /\ failed' = failed /\ call[a].pc = "idle"
    BY <1>5 DEF CallBegin, kernel
  <2>2. call[a].fd = Unset
    <3>1. call[a] = NoCall
      BY <2>1 DEF AttachInv, CallsOK, CallOK
    <3> QED
      BY <3>1 DEF NoCall
  <2>3. \E o \in S : CallTo(a, "open", o, Unset, Unset)
    BY <1>1, <1>5, CallBeginIs
  <2> QED
    BY <1>3, <1>4, <2>1, <2>2, <2>3
<1>6. ASSUME NEW a \in Apps, BindScan(a) \/ BindStore(a) \/ ConnectInsert(a) \/ CallAborts(a)
      PROVE  FdsOpen' /\ FdsOwned'
  <2>1. fd' = fd /\ open' = open /\ acc' = acc /\ (failed' = failed \/ failed' = TRUE)
    BY <1>6 DEF BindScan, BindStore, ConnectInsert, CallAborts, fields, kernel
  <2>2. \A b \in Apps : call'[b].fd = call[b].fd
    <3>1. CASE BindScan(a)
      <4>1. \E i \in 0..binds.last : CallTo(a, "store", call[a].o, call[a].fd, i)
        BY <1>1, <3>1, BindScanIs
      <4> QED
        BY <1>4, <4>1
    <3>2. CASE BindStore(a)
      BY <1>1, <1>4, <3>2, BindStoreIs
    <3>3. CASE ConnectInsert(a)
      BY <1>1, <1>4, <3>3, ConnectInsertIs
    <3>4. CASE CallAborts(a)
      BY <3>4 DEF CallAborts
    <3> QED
      BY <1>6, <3>1, <3>2, <3>3, <3>4
  <2> QED
    BY <1>3, <2>1, <2>2
<1>7. ASSUME NEW t \in Threads, fd' = fd, open' = open, call' = call,
             \A u \in Threads : u # t => acc'[u] = acc[u],
             \/ failed' = failed /\ acc'[t].fd = acc[t].fd /\ acc'[t].pc # "start" /\ acc[t].pc # "start"
             \/ failed' = failed /\ acc'[t].fd = Unset /\ acc[t].pc = "start"
             \/ failed' = TRUE /\ acc'[t].fd = Unset
      PROVE  FdsOpen' /\ FdsOwned'
  <2>1. \A u \in Threads : acc'[u].fd = acc[u].fd \/ acc'[u].fd = Unset
    BY <1>7
  <2>2. \A d \in Fds : d # Unset
    BY SocksAre
  <2>3. ASSUME NEW u \in Threads, NEW d \in Fds PROVE Carries(u, d)' => Carries(u, d)
    <3>1. CASE u # t
      BY <1>7, <3>1 DEF Carries
    <3>2. CASE u = t
      BY <1>7, <2>2, <3>2 DEF Carries
    <3> QED
      BY <3>1, <3>2
  <2>4. ASSUME failed' # TRUE, NEW u \in Threads, NEW d \in Fds PROVE Carries(u, d) => Carries(u, d)'
    <3>1. CASE u # t
      BY <1>7, <3>1 DEF Carries
    <3>2. CASE u = t
      BY <1>7, <2>2, <2>4, <3>2 DEF Carries
    <3> QED
      BY <3>1, <3>2
  <2>5. \/ failed' = TRUE
        \/ /\ failed' = failed /\ open' = open /\ \A a \in Apps : call'[a].fd = call[a].fd
           /\ \A u \in Threads : \A d \in Fds : Carries(u, d) => Carries(u, d)'
    BY <1>7, <2>4
  <2>6. \A a \in Apps : call'[a].fd = call[a].fd \/ call'[a].fd = Unset
    BY <1>7
  <2>7. open \subseteq open' /\ open' \in SUBSET Fds /\ IsFiniteSet(open')
    BY <1>1, <1>7
  <2> QED
    BY <1>7, <2>1, <2>3, <2>5, <2>6, <2>7, HoldersFewer
<1>8. ASSUME NEW t \in Threads, AccEnds(t)
      PROVE  acc'[t].fd = Unset /\ \A u \in Threads : u # t => acc'[u] = acc[u]
  BY <1>8 DEF AccEnds, AccTo, AccIs
<1>9. ASSUME NEW t \in Threads, NEW p, p # "start", NEW b, NEW o, NEW i, NEW il,
             AccTo(t, p, b, o, acc[t].fd, i, il)
      PROVE  /\ acc'[t].fd = acc[t].fd /\ acc'[t].pc # "start"
             /\ \A u \in Threads : u # t => acc'[u] = acc[u]
  BY <1>9 DEF AccTo, AccIs
<1>10. ASSUME NEW t \in Threads, AcceptLocal(t) PROVE FdsOpen' /\ FdsOwned'
  <2>1. fd' = fd /\ open' = open /\ call' = call /\ acc[t].pc = "local"
    BY <1>10 DEF AcceptLocal, fields, kernel
  <2>2. acc[t].b \in Binds
    BY <2>1, Working
  <2>3. \/ /\ failed' = failed
           /\ AccTo(t, "root", acc[t].b, acc[t].o, acc[t].fd, acc[t].i, Len(local[acc[t].b]))
        \/ failed' = TRUE /\ AccEnds(t)
    BY <1>1, <1>10, <2>2, AcceptLocalIs
  <2>4. CASE /\ failed' = failed
             /\ AccTo(t, "root", acc[t].b, acc[t].o, acc[t].fd, acc[t].i, Len(local[acc[t].b]))
    BY <1>7, <1>9, <2>1, <2>4
  <2>5. CASE failed' = TRUE /\ AccEnds(t)
    BY <1>7, <1>8, <2>1, <2>5
  <2> QED
    BY <2>3, <2>4, <2>5
<1>11. ASSUME NEW t \in Threads, AcceptRoot(t) PROVE FdsOpen' /\ FdsOwned'
  <2>1. fd' = fd /\ open' = open /\ call' = call /\ acc[t].pc = "root"
    BY <1>11 DEF AcceptRoot, fields, kernel
  <2>3. \/ /\ failed' = failed
           /\ AccTo(t, "choose", acc[t].b, acc[t].o, acc[t].fd, Len(conns), acc[t].il)
        \/ failed' = TRUE /\ AccEnds(t)
    BY <1>1, <1>11, AcceptRootIs
  <2>4. CASE /\ failed' = failed
             /\ AccTo(t, "choose", acc[t].b, acc[t].o, acc[t].fd, Len(conns), acc[t].il)
    BY <1>7, <1>9, <2>1, <2>4
  <2>5. CASE failed' = TRUE /\ AccEnds(t)
    BY <1>7, <1>8, <2>1, <2>5
  <2> QED
    BY <2>3, <2>4, <2>5
<1>12. ASSUME NEW t \in Threads, AcceptStart(t) PROVE FdsOpen' /\ FdsOwned'
  <2>1. fd' = fd /\ open' = open /\ call' = call /\ acc[t].pc = "start" /\ failed' = failed
    BY <1>12 DEF AcceptStart, fields, kernel
  <2>2. AccEnds(t)
    BY <1>1, <1>12, AcceptStartIs
  <2> QED
    BY <1>7, <1>8, <2>1, <2>2
<1>13. ASSUME \/ UNCHANGED vars \/ StopReading \/ StartReading
              \/ \E t \in Threads : Run(t)
              \/ \E b \in Binds : PeerConnects(b)
       PROVE FdsOpen' /\ FdsOwned'
  <2>1. fd' = fd /\ open' = open /\ acc' = acc /\ failed' = failed /\ call' = call
    BY <1>13 DEF vars, StopReading, StartReading, Run, PeerConnects, fields, kernel
  <2> QED
    BY <1>3, <2>1
<1> QED
  BY <1>2, <1>5, <1>6, <1>10, <1>11, <1>12, <1>13, StepIs, OpenOwned, AcceptOwned, StartOwned, ChooseOwned

-----------------------------------------------------------------------------
(* Stopping the input.                                                     *)

\* A connection that reads has its thread.
LEMMA ReaderHasThread ==
    ASSUME AttachInv, NEW c \in Outs \cup Ins, rio[c] = "on"
    PROVE  c \in Socks /\ thr[c] \in Threads
<1>1. c \in Socks
  BY SocksAre
<1>2. rio[c] # "uninit"
  OBVIOUS
<1> QED
  BY <1>1, <1>2 DEF AttachInv, SocksOK, StartedOK

\* The steps that neither stop nor resume the input and run no task: they touch
\* the fields of a socket that does not read, publish only such a socket, and
\* queue only first tasks.
LEMMA StopsQuiet ==
    ASSUME AttachInv, NEW x, Frame(x), \A c \in Outs \cup Ins : rio[c] = "on" => c # x,
           UNCHANGED <<reading, late, rio>>, crashed' = crashed \/ crashed' = TRUE,
           \/ jobs' = jobs
           \/ \E t \in Threads, o \in Socks : StartTask(t, o)
    PROVE  StopsOK' /\ StopReaches'
<1>1. /\ Types /\ QueuesOK(jobs) /\ StopsOK /\ StopReaches
      /\ Elems(conns') \subseteq Elems(conns) \cup {x} /\ conns' \in Seq(Outs \cup Ins)
  BY ConnsGrow DEF AttachInv, Types
<1>2. \A t \in Threads : /\ Elems(jobs[t]) \subseteq Elems(jobs'[t])
                         /\ \A c : <<c, "START_READ">> \in Elems(jobs'[t]) => <<c, "START_READ">> \in Elems(jobs[t])
  <2>1. CASE jobs' = jobs
    BY <2>1
  <2>2. CASE \E t \in Threads, o \in Socks : StartTask(t, o)
    <3>1. PICK u \in Threads, o \in Socks : StartTask(u, o)
      BY <2>2
    <3>2. \E k \in {"BIND", "CONN"} :
              /\ k = "BIND" <=> o \in Binds
              /\ jobs' \in [Threads -> Seq(Task)]
              /\ Elems(jobs'[u]) = Elems(jobs[u]) \cup {<<o, k>>}
              /\ \A v \in Threads : v # u => jobs'[v] = jobs[v]
              /\ <<o, k>> \notin Elems(jobs[u]) => QueuesOK(jobs')
      BY <1>1, <3>1, StartTaskDoes
    <3>3. PICK k \in {"BIND", "CONN"} : /\ Elems(jobs'[u]) = Elems(jobs[u]) \cup {<<o, k>>}
                                        /\ \A v \in Threads : v # u => jobs'[v] = jobs[v]
      BY <3>2
    <3>4. \A c : <<c, "START_READ">> # <<o, k>>
      OBVIOUS
    <3> QED
      BY <3>3, <3>4
  <2> QED
    BY <2>1, <2>2
<1>3. StopsOK'
  BY <1>1, <1>2 DEF StopsOK
<1>4. ASSUME reading' = STOP_OP, ~crashed', NEW c \in Elems(conns') \ late', rio'[c] = "on"
      PROVE  <<c, "STOP_READ">> \in Elems(jobs'[thr'[c]])
  <2>1. c \in Outs \cup Ins /\ rio[c] = "on"
    BY <1>1, <1>4, ElemsEmpty
  <2>2. c # x /\ c \in Socks /\ thr[c] \in Threads
    BY <2>1, ReaderHasThread
  <2>3. c \in Elems(conns) \ late /\ thr'[c] = thr[c]
    BY <1>1, <1>4, <2>2 DEF Frame, Kept
  <2>4. <<c, "STOP_READ">> \in Elems(jobs[thr[c]])
    BY <1>1, <1>4, <2>1, <2>3 DEF StopReaches
  <2> QED
    BY <1>2, <2>2, <2>3, <2>4
<1> QED
  BY <1>3, <1>4 DEF StopReaches

\* Running a task.
LEMMA StopsRun ==
    ASSUME AttachInv, ~crashed, NEW t \in Threads, Run(t)
    PROVE  StopsOK' /\ StopReaches'
<1>1. /\ Types /\ QueuesOK(jobs) /\ StopsOK /\ StopReaches /\ TasksOK /\ conns \in Seq(Outs \cup Ins)
      /\ rio \in [Socks -> {"uninit", "off", "on"}]
  BY DEF AttachInv, Types, ArraysT, FieldsT
<1>2. UNCHANGED <<reading, late, conns, thr>>
  BY DEF Run, fields, arrays
<1>3. PICK o \in Socks, op \in {"BIND", "CONN", "START_READ", "STOP_READ"} :
              /\ <<o, op>> \in Elems(jobs[t]) /\ Elems(jobs'[t]) = Elems(jobs[t]) \ {<<o, op>>}
              /\ \A u \in Threads : u # t => jobs'[u] = jobs[u]
              /\ QueuesOK(jobs')
              /\ op \in ReadOps /\ rio[o] = "uninit" => rio' = rio
              /\ ~(op \in ReadOps /\ rio[o] = "uninit") =>
                    /\ rio' = [rio EXCEPT ![o] = IF op = "STOP_READ" THEN "off" ELSE "on"]
                    /\ crashed' = crashed
  BY <1>1, RunDoes
<1>4. /\ \A u \in Threads : Elems(jobs'[u]) \subseteq Elems(jobs[u])
      /\ \A u \in Threads : \A j \in Elems(jobs[u]) : j # <<o, op>> => j \in Elems(jobs'[u])
  BY <1>3
<1>5. \A c \in Socks : c # o => rio'[c] = rio[c]
  BY <1>1, <1>3
<1>6. \A c \in Socks : rio'[c] = "uninit" => rio[c] = "uninit"
  BY <1>1, <1>3
<1>7. StopsOK'
  BY <1>1, <1>2, <1>4, <1>6, SocksAre DEF StopsOK
<1>8. ASSUME reading' = STOP_OP, NEW c \in Elems(conns') \ late', rio'[c] = "on"
      PROVE  <<c, "STOP_READ">> \in Elems(jobs'[thr'[c]])
  <2>1. c \in Outs \cup Ins /\ c \in Socks
    BY <1>1, <1>2, <1>8, ElemsEmpty, SocksAre
  <2>2. rio[c] # "uninit"
    BY <1>1, <1>2, <1>8, <2>1 DEF StopsOK
  <2>3. ASSUME c = o PROVE rio[c] = "on" /\ op # "STOP_READ"
    <3>1. rio' = [rio EXCEPT ![o] = IF op = "STOP_READ" THEN "off" ELSE "on"]
      BY <1>3, <2>2, <2>3
    <3>2. op # "STOP_READ"
      BY <1>1, <1>8, <2>3, <3>1
    <3>3. op # "START_READ"
      BY <1>1, <1>2, <1>3, <1>8 DEF StopsOK
    <3>4. PICK j : j = <<o, op>>
      OBVIOUS
    <3>5. j[1] = o /\ j[2] = op /\ j \in Elems(jobs[t])
      BY <1>3, <3>4
    <3>6. rio[o] = "uninit"
      BY <1>1, <1>3, <3>2, <3>3, <3>5 DEF TasksOK, TaskOK
    <3> QED
      BY <2>2, <2>3, <3>6
  <2>4. rio[c] = "on"
    BY <1>5, <1>8, <2>1, <2>3
  <2>5. thr[c] \in Threads
    BY <2>1, <2>4, ReaderHasThread
  <2>6. <<c, "STOP_READ">> \in Elems(jobs[thr[c]])
    BY <1>1, <1>2, <1>8, <2>4 DEF StopReaches
  <2>7. <<c, "STOP_READ">> # <<o, op>>
    BY <2>3
  <2> QED
    BY <1>2, <1>4, <2>5, <2>6, <2>7
<1> QED
  BY <1>7, <1>8 DEF StopReaches

\* Stopping and resuming.
LEMMA StopsBulk ==
    ASSUME AttachInv, StopReading \/ StartReading
    PROVE  StopsOK' /\ StopReaches'
<1>1. CASE StartReading
  <2>1. reading' # STOP_OP
    BY <1>1 DEF StartReading, STOP_OP
  <2> QED
    BY <2>1 DEF StopsOK, StopReaches
<1>2. CASE StopReading
  <2>1. Types /\ TasksOK
    BY DEF AttachInv
  <2>2. UNCHANGED <<conns, thr, rio>> /\ late' = {c \in Outs \cup Ins : rio[c] = "uninit"}
    BY <1>2 DEF StopReading, fields, arrays
  <2>3. Bulk("STOP_READ", "START_READ")
    BY <1>2 DEF StopReading
  <2>4. "STOP_READ" \in ReadOps /\ "START_READ" \in ReadOps /\ "STOP_READ" # "START_READ"
    BY DEF ReadOps
  <2>5. \A c \in Outs \cup Ins : rio'[c] = "uninit" => c \in late'
    BY <2>2
  <2>6. \/ crashed' = TRUE
        \/ /\ \A t \in Threads : \A j \in Elems(jobs'[t]) :
                 j \in Elems(jobs[t]) \/ \E c \in Elems(conns) : thr[c] = t /\ j = <<c, "STOP_READ">>
           /\ \A c \in Elems(conns) : /\ <<c, "STOP_READ">> \in Elems(jobs'[thr[c]])
                                      /\ <<c, "START_READ">> \notin Elems(jobs'[thr[c]])
    BY <2>1, <2>3, <2>4, BulkDoes
  <2>7. CASE crashed' = TRUE
    BY <2>5, <2>7 DEF StopsOK, StopReaches
  <2>8. CASE /\ \A t \in Threads : \A j \in Elems(jobs'[t]) :
                 j \in Elems(jobs[t]) \/ \E c \in Elems(conns) : thr[c] = t /\ j = <<c, "STOP_READ">>
             /\ \A c \in Elems(conns) : /\ <<c, "STOP_READ">> \in Elems(jobs'[thr[c]])
                                        /\ <<c, "START_READ">> \notin Elems(jobs'[thr[c]])
    <3>1. ASSUME NEW t \in Threads, NEW c \in Socks, <<c, "START_READ">> \in Elems(jobs'[t])
          PROVE  FALSE
      <4>1. PICK j : j = <<c, "START_READ">>
        OBVIOUS
      <4>2. j[1] = c /\ j[2] = "START_READ" /\ \A e : j # <<e, "STOP_READ">>
        BY <4>1
      <4>3. j \in Elems(jobs[t])
        BY <2>8, <3>1, <4>1, <4>2
      <4>4. thr[c] = t /\ c \in Elems(conns)
        BY <2>1, <2>4, <4>2, <4>3 DEF TasksOK, TaskOK
      <4> QED
        BY <2>8, <3>1, <4>4
    <3>2. StopsOK'
      BY <2>5, <3>1 DEF StopsOK
    <3>3. StopReaches'
      BY <2>2, <2>8 DEF StopReaches
    <3> QED
      BY <3>2, <3>3
  <2> QED
    BY <2>6, <2>7, <2>8
<1> QED
  BY <1>1, <1>2

\* Every step: StopsOK and StopReaches hold after it.
LEMMA StopsStep ==
    ASSUME AttachInv, [Next]_vars
    PROVE  StopsOK' /\ StopReaches'
<1> DEFINE P == StopsOK' /\ StopReaches'
<1> HIDE DEF P
<1>1. ASSUME NEW x, Frame(x), \A c \in Outs \cup Ins : rio[c] = "on" => c # x,
             UNCHANGED <<reading, late, rio>>, crashed' = crashed \/ crashed' = TRUE,
             \/ jobs' = jobs
             \/ \E t \in Threads, o \in Socks : StartTask(t, o)
      PROVE  P
  BY <1>1, StopsQuiet DEF P
<1>2. ASSUME NEW a \in Apps, NEW S \in {Binds, Outs}, CallBegin(a, S) PROVE P
  <2>1. UNCHANGED <<reading, late, rio, crashed, jobs>>
    BY <1>2 DEF CallBegin
  <2>2. PICK o \in S : o \notin made /\ Frame(o)
    BY <1>2, CallFrames
  <2>3. o \in Socks
    BY SocksAre
  <2>4. rio[o] = "uninit"
    BY <2>2, <2>3 DEF AttachInv, SocksOK, FreshOK
  <2> QED
    BY <1>1, <2>1, <2>2, <2>4
<1>3. \A c \in Outs \cup Ins : c # 0
  BY SocksAre
<1>4. ASSUME NEW a \in Apps, CallOpen(a) \/ CallFails(a) \/ BindScan(a) \/ BindStore(a) \/ CallAborts(a)
      PROVE  P
  <2>1. UNCHANGED <<reading, late, rio, jobs>> /\ (crashed' = crashed \/ crashed' = TRUE)
    BY <1>4 DEF CallOpen, CallFails, BindScan, BindStore, CallAborts
  <2>2. Frame(0)
    BY <1>4, CallFrames
  <2> QED
    BY <1>1, <1>3, <2>1, <2>2
<1>5. ASSUME NEW a \in Apps, ConnectInsert(a) \/ CallStart(a) PROVE P
  <2>1. /\ UNCHANGED <<reading, late, rio, crashed>>
        /\ jobs' = jobs \/ StartTask(thr[call[a].o], call[a].o)
        /\ call[a].pc # "idle"
    BY <1>5 DEF ConnectInsert, CallStart
  <2>2. PICK o : o = call[a].o
    OBVIOUS
  <2>3. Frame(o)
    BY <1>5, <2>2, CallFrames
  <2>4. rio[o] = "uninit" /\ o \in Socks /\ thr[o] \in Threads
    BY <2>1, <2>2, Working, SocksAre
  <2> QED
    BY <1>1, <2>1, <2>2, <2>3, <2>4
<1>6. ASSUME NEW t \in Threads, NEW b \in Binds, Accept(t, b) PROVE P
  <2>1. UNCHANGED <<reading, late, rio, crashed, jobs>>
    BY <1>6 DEF Accept
  <2>2. \/ Frame(0)
        \/ \E o \in Ins : o \notin made /\ Frame(o)
    BY <1>6, AccFrames
  <2>3. ASSUME NEW o \in Ins, o \notin made, Frame(o) PROVE P
    <3>1. o \in Socks
      BY SocksAre
    <3>2. rio[o] = "uninit"
      BY <2>3, <3>1 DEF AttachInv, SocksOK, FreshOK
    <3> QED
      BY <1>1, <2>1, <2>3, <3>2
  <2> QED
    BY <1>1, <1>3, <2>1, <2>2, <2>3
<1>7. ASSUME NEW t \in Threads, AcceptLocal(t) \/ AcceptRoot(t) \/ AcceptChoose(t) \/ AcceptStart(t)
      PROVE  P
  <2>1. /\ UNCHANGED <<reading, late, rio, crashed>>
        /\ jobs' = jobs \/ (StartTask(thr[acc[t].o], acc[t].o) /\ acc[t].pc = "start")
        /\ acc[t].pc # "idle"
    BY <1>7 DEF AcceptLocal, AcceptRoot, AcceptChoose, AcceptStart
  <2>2. PICK o : o = acc[t].o
    OBVIOUS
  <2>3. Frame(o)
    BY <1>7, <2>2, AccFrames
  <2>4. rio[o] = "uninit" /\ o \in Socks
    BY <2>1, <2>2, Working, SocksAre
  <2>5. acc[t].pc = "start" => thr[o] \in Threads
    BY <2>2 DEF AttachInv, AccsOK, AccOK
  <2> QED
    BY <1>1, <2>1, <2>2, <2>3, <2>4, <2>5
<1>8. ASSUME UNCHANGED vars \/ \E b \in Binds : PeerConnects(b) PROVE P
  <2>1. UNCHANGED <<reading, late, rio, crashed, jobs>>
    BY <1>8 DEF vars, PeerConnects
  <2>2. Frame(0)
    BY <1>8, OtherFrames
  <2> QED
    BY <1>1, <1>3, <2>1, <2>2
<1>9. ASSUME NEW t \in Threads, Run(t), ~crashed PROVE P
  BY <1>9, StopsRun DEF P
<1>10. ASSUME StopReading \/ StartReading PROVE P
  BY <1>10, StopsBulk DEF P
<1>11. UNCHANGED vars \/ ~crashed
  BY DEF Next, Environment, Call, Handler, Tasks, Accepts
<1>12. P
  BY <1>2, <1>4, <1>5, <1>6, <1>7, <1>8, <1>9, <1>10, <1>11, StepIs
<1> QED
  BY <1>12 DEF P

-----------------------------------------------------------------------------
(* The theorems.                                                           *)

\* Nothing is attached yet.
LEMMA AttachStart == Init => AttachInv
<1> SUFFICES ASSUME Init PROVE AttachInv
  OBVIOUS
<1>1. /\ made = {} /\ thr = [o \in Socks |-> Unset] /\ fd = [o \in Socks |-> Unset]
      /\ idx = [o \in Socks |-> Unset] /\ idxlocal = [o \in Socks |-> Unset]
      /\ rio = [o \in Socks |-> "uninit"] /\ conns = << >> /\ local = [b \in Binds |-> << >>]
      /\ binds = [elems |-> [i \in 0..NBinds |-> 0], last |-> 0]
      /\ jobs = [t \in Threads |-> << >>]
      /\ call = [a \in Apps |-> NoCall] /\ acc = [t \in Threads |-> NoAccept]
      /\ open = {} /\ reading = 0
  BY DEF Init
<1>2. NoCall.pc = "idle" /\ NoCall.o = 0 /\ NoCall.fd = Unset /\ NoCall \in CallRecord
  BY NoCallIs DEF CallIs
<1>3. NoAccept.pc = "idle" /\ NoAccept.o = 0 /\ NoAccept.fd = Unset /\ NoAccept \in AccRecord
  BY NoAcceptIs DEF AccIs
<1>4. /\ \A a \in Apps : call[a] = NoCall
      /\ \A t \in Threads : acc[t] = NoAccept
      /\ \A o \in Socks : /\ thr[o] = Unset /\ fd[o] = Unset /\ idx[o] = Unset
                          /\ idxlocal[o] = Unset /\ rio[o] = "uninit"
  BY <1>1
<1>5. binds.last = 0 /\ binds.elems = [i \in 0..NBinds |-> 0]
  BY <1>1
<1>6. Elems(<< >>) = {} /\ Len(<< >>) = 0
  BY DEF Elems
<1>7. /\ \A b \in Binds : local[b] = << >>
      /\ \A t \in Threads : jobs[t] = << >>
  BY <1>1
<1>8. Types
  <2>1. FieldsT
    BY <1>1 DEF FieldsT, Indices
  <2>2. ArraysT
    BY <1>1, AttachAssumption DEF ArraysT
  <2>3. LocalsT
    BY <1>1, <1>2, <1>3 DEF LocalsT
  <2>4. OthersT
    <3>1. 0 \in Threads /\ 0 \in Nat /\ 0 \in 0..NIns
      BY AttachAssumption DEF Threads
    <3>2. /\ thrLastIdx = 0 /\ reading = 0 /\ open = {} /\ backlog = [b \in Binds |-> 0]
          /\ arrived = 0 /\ chosen = [t \in Threads |-> 0] /\ late = {}
      BY DEF Init
    <3>3. crashed = FALSE /\ raced = FALSE /\ failed = FALSE
      BY DEF Init
    <3>4. backlog \in [Binds -> Nat] /\ chosen \in [Threads -> Nat]
      BY <3>1, <3>2
    <3>5. crashed \in BOOLEAN /\ raced \in BOOLEAN /\ failed \in BOOLEAN
      BY <3>3
    <3> QED
      BY <3>1, <3>2, <3>4, <3>5 DEF OthersT
  <2>5. QueuesOK(jobs)
    BY <1>1, <1>6, <1>7 DEF QueuesOK, Distinct
  <2> QED
    BY <2>1, <2>2, <2>3, <2>4, <2>5 DEF Types
<1>9. SocksOK
  BY <1>4 DEF SocksOK, FreshOK, StartedOK
<1>10. CallsOK
  BY <1>2, <1>4 DEF CallsOK, CallOK
<1>11. AccsOK
  BY <1>3, <1>4 DEF AccsOK, AccOK
<1>12. Apart
  BY <1>2, <1>3, <1>4 DEF Apart
<1>13. TasksOK
  BY <1>6, <1>7 DEF TasksOK
<1>14. ArraysOK
  BY <1>1, <1>4, <1>6, <1>7, SocksAre DEF ArraysOK
<1>15. BindsOK
  <2>1. IsFiniteSet(Binds) /\ Cardinality(Binds) = NBinds
    BY AttachAssumption, FS_Interval DEF Binds
  <2>2. Waiting \subseteq Binds
    BY DEF Waiting
  <2>3. Cardinality(Waiting) \in Nat /\ Cardinality(Waiting) <= NBinds
    BY <2>1, <2>2, FS_Subset, FS_CardinalityType
  <2>4. binds.last + Cardinality(Waiting) <= NBinds
    BY <1>5, <2>3, AttachAssumption
  <2>5. \A k \in 0..NBinds : binds.elems[k] = 0
    BY <1>5
  <2>6. \A b \in Binds : idx[b] = Unset
    BY <1>4, SocksAre
  <2> QED
    BY <1>2, <1>4, <2>4, <2>5, <2>6 DEF BindsOK
<1>16. FdsOpen
  BY <1>1, <1>2, <1>3, <1>4, FS_EmptySet DEF FdsOpen
<1>17. IndicesName
  BY <1>1, <1>4, <1>6, <1>7, SocksAre DEF IndicesName
<1>18. BindIndexNames
  BY <1>4, SocksAre DEF BindIndexNames
<1>19. FdsOwned
  BY <1>1 DEF FdsOwned
<1>20. ThreadlessOnlyInAccept
  BY <1>1, <1>6 DEF ThreadlessOnlyInAccept
<1>21. StopsOK /\ StopReaches
  BY <1>1 DEF StopsOK, StopReaches, STOP_OP
<1> QED
  BY <1>8, <1>9, <1>10, <1>11, <1>12, <1>13, <1>14, <1>15, <1>16, <1>17, <1>18, <1>19, <1>20, <1>21
     DEF AttachInv

\* The invariant is inductive.
LEMMA AttachKeeps == AttachInv /\ [Next]_vars => AttachInv'
<1> SUFFICES ASSUME AttachInv, [Next]_vars PROVE AttachInv'
  OBVIOUS
<1>1. Types'
  BY FieldsStep, ArraysStep, LocalsStep, OthersStep, TasksStep DEF Types
<1>2. SocksOK' /\ CallsOK' /\ AccsOK' /\ TasksOK'
  BY SocksStep, CallsStep, AccsStep, TasksStep
<1>3. Apart'
  BY CallsStep, AccsStep DEF Apart
<1>4. ArraysOK' /\ IndicesName' /\ ThreadlessOnlyInAccept'
  BY ArraysNamed, ThreadlessKeeps
<1>5. BindsOK' /\ BindIndexNames'
  BY BindsStep
<1>6. FdsOpen' /\ FdsOwned'
  BY FdsStep
<1>7. StopsOK' /\ StopReaches'
  BY StopsStep
<1> QED
  BY <1>1, <1>2, <1>3, <1>4, <1>5, <1>6, <1>7 DEF AttachInv

\* AttachInv holds in every reachable state, whatever the numbers of threads,
\* calls and peers, whichever allocations fail and whenever the input is stopped.
THEOREM AttachInvariant == Spec => []AttachInv
<1> QED
  BY AttachStart, AttachKeeps, PTL DEF Spec

\* Type correctness: every field, array, queue and local of fsock_bind,
\* fsock_connect and the accept handler keeps its type.
THEOREM AttachTypes == Spec => []AttachTypeOK
<1>1. AttachInv => AttachTypeOK
  BY DEF AttachInv, Types, FieldsT, ArraysT, LocalsT, OthersT, QueuesOK, AttachTypeOK, Task,
         CallRecord, AccRecord
<1> QED
  BY <1>1, AttachInvariant, PTL

\* The index that fsock_bind or fsock_connect returned, or that an accepted
\* connection carries, names it in root->conns and in its bind's own array and,
\* unless two calls were inside the unlocked insert at once, in root->binds.
THEOREM HandlesNameTheirSockets == Spec => []HandlesName
<1>1. AttachInv => HandlesName
  BY DEF AttachInv, HandlesName
<1> QED
  BY <1>1, AttachInvariant, PTL

\* fsock_thread_start_listen and fsock_thread_start_connection are given
\* sockets whose thread, descriptor and index are set, and a published
\* connection has its thread but for the window inside the accept handler.
THEOREM TasksFindReadySockets == Spec => []ReadyInTime
<1>1. ASSUME AttachInv PROVE ReadyWhenQueued
  <2> SUFFICES ASSUME NEW t \in Threads, NEW j \in Elems(jobs[t]), j[2] \in {"BIND", "CONN"}
               PROVE  thr[j[1]] = t /\ fd[j[1]] \in open /\ idx[j[1]] # Unset
    BY DEF ReadyWhenQueued
  <2>1. TaskOK(t, j)
    BY <1>1 DEF AttachInv, TasksOK
  <2>2. j \in Task
    <3>1. jobs[t] \in Seq(Task)
      BY <1>1 DEF AttachInv, Types, QueuesOK
    <3> QED
      BY <3>1, ElemsEmpty
  <2>3. j[1] \in Socks
    BY <2>2 DEF Task
  <2>4. thr[j[1]] = t /\ idx[j[1]] # Unset
    BY <2>1 DEF TaskOK
  <2>5. StartedOK(j[1])
    BY <1>1, <2>3 DEF AttachInv, SocksOK
  <2> QED
    BY <2>4, <2>5 DEF StartedOK
<1>2. AttachInv => ReadyInTime
  BY <1>1 DEF AttachInv, ReadyInTime
<1> QED
  BY <1>2, AttachInvariant, PTL

\* Every open descriptor belongs to one socket, one running call or one accept
\* handler, never to two of them, and to none only after something ran out.
THEOREM DescriptorsOwned == Spec => []FdsOwned
<1>1. AttachInv => FdsOwned
  BY DEF AttachInv
<1> QED
  BY <1>1, AttachInvariant, PTL

\* While root->reading is STOP_OP, a connection that had its watcher when the
\* bulk loop of the stop ran and still reads has its STOP_READ task queued.
THEOREM StopsReachReaders == Spec => []StopReaches
<1>1. AttachInv => StopReaches
  BY DEF AttachInv
<1> QED
  BY <1>1, AttachInvariant, PTL
=============================================================================
