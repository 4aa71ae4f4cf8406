-------------------------- MODULE FsockQueueProofs --------------------------
(***************************************************************************)
(* The pointer code of utils/queue.c represents its sequences for every    *)
(* number of items and queues, and implements Fifo.                        *)
(***************************************************************************)
EXTENDS FsockQueue, QueueOpsProofs

IInv == TypeOK /\ Represents

-----------------------------------------------------------------------------
(* Positions.                                                              *)

\* Where the last position of each part of a concatenation stands.
LEMMA PositionBounds ==
    \A a, b \in Nat :
       /\ \A m \in 1..a : b >= 1 => m # a + b /\ (m # a => m + 1 \in 1..a)
       /\ \A n \in 1..b : /\ n = b <=> a + n = a + b
                          /\ n # b => n + 1 \in 1..b /\ (a + n) + 1 = a + (n + 1)
  OBVIOUS

\* The second position exists when there is more than one.
LEMMA SecondPosition == \A n \in Nat : n >= 1 /\ n # 1 => n >= 2 /\ 2 \in 1..n
  OBVIOUS

-----------------------------------------------------------------------------
\* The initial state represents the empty queues (fsock_queue_init).
LEMMA InitIInv == Init => IInv
<1> SUFFICES ASSUME Init PROVE IInv
  OBVIOUS
<1> USE DEF Init, Idle
<1>1. TypeOK
  BY DEF TypeOK
<1>2. NoSharing /\ Linked /\ WalkInside
  BY DEF NoSharing, Linked, WalkInside
<1>3. IsInQueueExact
  <2>1. \A i \in Items : ~IsInQueue(i)
    BY DEF IsInQueue
  <2>2. \A i \in Items : A!Outside(i)
    BY DEF A!Outside
  <2> QED
    BY <2>1, <2>2 DEF IsInQueueExact
<1> QED
  BY <1>1, <1>2, <1>3 DEF IInv, Represents

\* fsock_queue_push.
LEMMA PushIInv ==
    ASSUME IInv, NEW x \in Queues, NEW i \in Items, Push(x, i)
    PROVE  IInv'
<1> USE PointerAssumption DEF IInv, Represents
<1> DEFINE s == fifo[x]
<1>0. /\ s \in Seq(Items) /\ Len(s) \in Nat
      /\ fifo' = [fifo EXCEPT ![x] = Append(s, i)]
      /\ Append(s, i) \in Seq(Items)
      /\ Len(Append(s, i)) = Len(s) + 1
      /\ \A k \in 1..Len(s) : Append(s, i)[k] = s[k]
      /\ Append(s, i)[Len(s) + 1] = i
      /\ UNCHANGED walk /\ UNCHANGED result
  BY DEF Push, TypeOK
<1>1. A!Outside(i)
  BY DEF Push, IsInQueueExact
<1>2. TypeOK'
  <2>1. head' \in [Queues -> Items \cup {NULL}] /\ tail' \in [Queues -> Items \cup {NULL}]
    BY DEF TypeOK, Push
  <2>2. next' \in [Items -> Items \cup {NULL, NOTINQUEUE}]
    BY DEF TypeOK, Push, PushNext
  <2> QED
    BY <1>0, <2>1, <2>2 DEF TypeOK
<1>3. NoSharing'
  <2> SUFFICES ASSUME NEW y \in Queues, NEW z \in Queues,
                      NEW j \in 1..Len(fifo'[y]), NEW k \in 1..Len(fifo'[z]),
                      fifo'[y][j] = fifo'[z][k]
               PROVE  y = z /\ j = k
    BY DEF NoSharing
  <2>1. \A u \in Queues : u # x => fifo'[u] = fifo[u]
    BY <1>0 DEF TypeOK
  <2>2. fifo'[x] = Append(s, i)
    BY <1>0 DEF TypeOK
  <2>3. \A u \in Queues : \A m \in 1..Len(fifo'[u]) :
           \/ u = x /\ m = Len(s) + 1 /\ fifo'[u][m] = i
           \/ m \in 1..Len(fifo[u]) /\ fifo'[u][m] = fifo[u][m] /\ fifo[u][m] # i
    BY <2>1, <2>2, <1>0, <1>1 DEF A!Outside
  <2> QED
    BY <2>3 DEF NoSharing
<1>4. /\ next'[i] = NULL
      /\ s # << >> => next'[s[Len(s)]] = i
      /\ \A j \in Items : j # i /\ (s = << >> \/ j # s[Len(s)]) => next'[j] = next[j]
      /\ head'[x] = IF s = << >> THEN i ELSE s[1]
      /\ tail'[x] = i
      /\ \A y \in Queues \ {x} : head'[y] = head[y] /\ tail'[y] = tail[y] /\ fifo'[y] = fifo[y]
  <2>1. s = << >> => head[x] = NULL /\ tail[x] = NULL
    BY DEF Linked
  <2>2. s # << >> => head[x] = s[1] /\ tail[x] = s[Len(s)] /\ s[1] \in Items
                     /\ s[Len(s)] \in Items /\ s[Len(s)] # i
    BY <1>0, <1>1 DEF Linked, A!Outside
  <2> QED
    BY <1>0, <2>1, <2>2 DEF Push, PushNext, TypeOK
<1>5. Linked'
  <2> SUFFICES ASSUME NEW y \in Queues
               PROVE  /\ fifo'[y] = << >> => head'[y] = NULL /\ tail'[y] = NULL
                      /\ fifo'[y] # << >> => head'[y] = fifo'[y][1]
                                            /\ tail'[y] = fifo'[y][Len(fifo'[y])]
                      /\ \A k \in 1..Len(fifo'[y]) :
                           next'[fifo'[y][k]] = IF k = Len(fifo'[y]) THEN NULL
                                                ELSE fifo'[y][k + 1]
    BY DEF Linked
  <2>1. CASE y = x
    <3>1. fifo'[x] = Append(s, i)
      BY <1>0 DEF TypeOK
    <3>2. \A k \in 1..(Len(s) - 1) : next'[s[k]] = s[k + 1]
      <4> TAKE k \in 1..(Len(s) - 1)
      <4>1. s[k] \in Items /\ s[k] # i /\ s[k] # s[Len(s)] /\ s # << >>
        BY <1>0, <1>1 DEF A!Outside, NoSharing
      <4> QED
        BY <4>1, <1>0, <1>4 DEF Linked
    <3> QED
      BY <2>1, <3>1, <3>2, <1>0, <1>4
  <2>2. CASE y # x
    <3>1. \A k \in 1..Len(fifo[y]) : next'[fifo[y][k]] = next[fifo[y][k]]
      <4> TAKE k \in 1..Len(fifo[y])
      <4>1. fifo[y][k] \in Items /\ fifo[y][k] # i
        BY <1>1 DEF A!Outside, TypeOK
      <4>2. s # << >> => fifo[y][k] # s[Len(s)]
        BY <2>2, <1>0 DEF NoSharing
      <4> QED
        BY <4>1, <4>2, <1>4
    <3> QED
      BY <2>2, <3>1, <1>4 DEF Linked
  <2> QED
    BY <2>1, <2>2
<1>6. IsInQueueExact'
  <2> SUFFICES ASSUME NEW j \in Items
               PROVE  IsInQueue(j)' <=> ~A!Outside(j)'
    BY DEF IsInQueueExact
  <2>1. CASE j = i
    <3>1. IsInQueue(i)'
      BY <1>4 DEF IsInQueue
    <3>2. ~A!Outside(i)'
      BY <1>0 DEF A!Outside, TypeOK
    <3> QED
      BY <2>1, <3>1, <3>2
  <2>2. CASE j # i
    <3>1. A!Outside(j)' <=> A!Outside(j)
      BY <2>2, <1>0 DEF A!Outside, TypeOK
    <3>2. IsInQueue(j)' <=> IsInQueue(j)
      BY <2>2, <1>0, <1>4 DEF IsInQueue, IsInQueueExact, Linked
    <3> QED
      BY <3>1, <3>2 DEF IsInQueueExact
  <2> QED
    BY <2>1, <2>2
<1>7. WalkInside'
  BY <1>0 DEF WalkInside, Push, Unlocked, TypeOK
<1> QED
  BY <1>2, <1>3, <1>5, <1>6, <1>7

\* fsock_queue_pop.
LEMMA PopIInv ==
    ASSUME IInv, NEW x \in Queues, Pop(x)
    PROVE  IInv'
<1> USE PointerAssumption DEF IInv, Represents
<1> DEFINE s == fifo[x]
<1>0. s \in Seq(Items) /\ Len(s) \in Nat /\ UNCHANGED walk /\ result' = head[x]
  BY DEF Pop, PopResult, TypeOK
<1>1. CASE s = << >>
  <2>1. UNCHANGED <<head, tail, next, fifo>> /\ head[x] = NULL
    BY <1>1 DEF Pop, Linked
  <2>2. TypeOK'
    BY <1>0, <2>1 DEF TypeOK
  <2>3. NoSharing' /\ Linked'
    BY <2>1 DEF NoSharing, Linked
  <2>4. IsInQueueExact'
    BY <2>1 DEF IsInQueueExact, IsInQueue, A!Outside
  <2>5. WalkInside'
    BY <1>0, <2>1 DEF WalkInside
  <2> QED
    BY <2>2, <2>3, <2>4, <2>5
<1>2. CASE s # << >>
  <2> DEFINE i == s[1]
             t == Tail(s)
  <2>0. Len(s) >= 1 /\ 1 \in 1..Len(s)
    BY <1>0, <1>2
  <2>1. /\ i \in Items /\ head[x] = i /\ i # NULL
        /\ next[i] = IF Len(s) = 1 THEN NULL ELSE s[2]
    <3>1. i \in Items /\ head[x] = i
      BY <1>0, <1>2, <2>0 DEF Linked
    <3>2. next[s[1]] = IF 1 = Len(s) THEN NULL ELSE s[1 + 1]
      BY <2>0 DEF Linked
    <3> QED
      BY <3>1, <3>2, <2>0
  <2>2. /\ t \in Seq(Items) /\ Len(t) = Len(s) - 1
        /\ \A k \in 1..Len(t) : t[k] = s[k + 1]
    BY <1>0, <1>2
  <2>3. /\ head' = [head EXCEPT ![x] = next[i]]
        /\ tail' = IF next[i] = NULL THEN [tail EXCEPT ![x] = NULL] ELSE tail
        /\ next' = [next EXCEPT ![i] = NOTINQUEUE]
        /\ fifo' = [fifo EXCEPT ![x] = t]
    BY <2>1 DEF Pop
  <2>4. fifo'[x] = t /\ \A y \in Queues : y # x => fifo'[y] = fifo[y]
    BY <2>3 DEF TypeOK
  <2>5. \A y \in Queues : \A m \in 1..Len(fifo'[y]) :
           IF y = x THEN m + 1 \in 1..Len(s) /\ fifo'[y][m] = s[m + 1]
                    ELSE m \in 1..Len(fifo[y]) /\ fifo'[y][m] = fifo[y][m]
    <3> HIDE DEF t
    <3>1. \A m \in 1..Len(t) : m + 1 \in 1..Len(s) /\ t[m] = s[m + 1]
      BY <1>0, <2>2
    <3> QED
      BY <3>1, <2>4
  <2>6. \A y \in Queues : \A m \in 1..Len(fifo'[y]) :
           fifo'[y][m] # i /\ fifo'[y][m] \in Items
    <3> SUFFICES ASSUME NEW y \in Queues, NEW m \in 1..Len(fifo'[y])
                 PROVE  fifo'[y][m] # i /\ fifo'[y][m] \in Items
      OBVIOUS
    <3>1. CASE y = x
      <4>1. m + 1 \in 1..Len(s) /\ fifo'[y][m] = s[m + 1]
        BY <3>1, <2>5
      <4>2. s[m + 1] # s[1]
        BY <4>1, <2>0 DEF NoSharing
      <4> QED
        BY <4>1, <4>2, <1>0
    <3>2. CASE y # x
      <4>1. m \in 1..Len(fifo[y]) /\ fifo'[y][m] = fifo[y][m]
        BY <3>2, <2>5
      <4> QED
        <5>1. fifo[y][m] # s[1]
          BY <4>1, <3>2, <2>0 DEF NoSharing
        <5>2. fifo[y] \in Seq(Items)
          BY DEF TypeOK
        <5> QED
          BY <4>1, <5>1, <5>2
    <3> QED
      BY <3>1, <3>2
  <2>7. TypeOK'
    <3>1. next[i] \in Items \cup {NULL}
      <4>1. Len(s) # 1 => s[2] \in Items
        <5>1. Len(s) # 1 => 2 \in 1..Len(s)
          BY <1>0, <2>0, SecondPosition
        <5> QED
          BY <5>1, <1>0
      <4> QED
        BY <4>1, <2>1
    <3> QED
      BY <1>0, <2>1, <2>2, <2>3, <3>1 DEF TypeOK
  <2>8. NoSharing'
    <3> SUFFICES ASSUME NEW y \in Queues, NEW z \in Queues,
                        NEW j \in 1..Len(fifo'[y]), NEW k \in 1..Len(fifo'[z]),
                        fifo'[y][j] = fifo'[z][k]
                 PROVE  y = z /\ j = k
      BY DEF NoSharing
    <3>1. j \in Nat /\ k \in Nat
      OBVIOUS
    <3>2. PICK m \in 1..Len(fifo[y]) :
             m = (IF y = x THEN j + 1 ELSE j) /\ fifo'[y][j] = fifo[y][m]
      BY <2>5
    <3>3. PICK n \in 1..Len(fifo[z]) :
             n = (IF z = x THEN k + 1 ELSE k) /\ fifo'[z][k] = fifo[z][n]
      BY <2>5
    <3>4. fifo[y][m] = fifo[z][n]
      BY <3>2, <3>3
    <3>5. y = z /\ m = n
      <4>1. NoSharing
        OBVIOUS
      <4>2. \A a, b \in Queues : \A p \in 1..Len(fifo[a]), q \in 1..Len(fifo[b]) :
               fifo[a][p] = fifo[b][q] => a = b /\ p = q
        BY <4>1, Zenon DEF NoSharing
      <4> QED
        BY <3>4, <4>2
    <3> QED
      BY <3>1, <3>2, <3>3, <3>5
  <2>9. \A j \in Items : next'[j] = IF j = i THEN NOTINQUEUE ELSE next[j]
    BY <2>1, <2>3 DEF TypeOK
  <2>10. Linked'
    <3> SUFFICES ASSUME NEW y \in Queues
                 PROVE  /\ fifo'[y] = << >> => head'[y] = NULL /\ tail'[y] = NULL
                        /\ fifo'[y] # << >> => head'[y] = fifo'[y][1]
                                              /\ tail'[y] = fifo'[y][Len(fifo'[y])]
                        /\ \A k \in 1..Len(fifo'[y]) :
                             next'[fifo'[y][k]] = IF k = Len(fifo'[y]) THEN NULL
                                                  ELSE fifo'[y][k + 1]
      BY DEF Linked
    <3>1. \A k \in 1..Len(fifo'[y]) : next'[fifo'[y][k]] = next[fifo'[y][k]]
      BY <2>6, <2>9
    <3>2. CASE y = x
      <4>1. \A k \in 1..Len(t) : next[t[k]] = IF k = Len(t) THEN NULL ELSE t[k + 1]
        <5> HIDE DEF t
        <5> TAKE k \in 1..Len(t)
        <5>1. k + 1 \in 1..Len(s) /\ t[k] = s[k + 1]
              /\ (k = Len(t) <=> k + 1 = Len(s))
              /\ (k # Len(t) => t[k + 1] = s[(k + 1) + 1])
          BY <1>0, <2>0, <2>2
        <5>2. next[s[k + 1]] = IF k + 1 = Len(s) THEN NULL ELSE s[(k + 1) + 1]
          BY <5>1 DEF Linked
        <5> QED
          BY <5>1, <5>2
      <4>2. CASE Len(s) = 1
        <5> HIDE DEF t
        <5>1. t = << >> /\ Len(t) = 0 /\ next[i] = NULL
          BY <4>2, <2>1, <2>2
        <5>2. head'[x] = NULL /\ tail'[x] = NULL
          BY <5>1, <2>3 DEF TypeOK
        <5> QED
          BY <5>1, <5>2, <3>2, <2>4
      <4>3. CASE Len(s) # 1
        <5> HIDE DEF t
        <5>0. Len(t) >= 1 /\ 1 \in 1..Len(t) /\ Len(t) \in 1..Len(t)
          <6>1. Len(s) >= 2
            BY <4>3, <2>0, <1>0, SecondPosition
          <6>2. Len(t) \in Nat /\ Len(t) >= 1
            BY <6>1, <2>2, <1>0
          <6> QED
            BY <6>2
        <5>1. /\ t # << >> /\ next[i] = t[1] /\ t[1] \in Items
              /\ s[Len(s)] = t[Len(t)]
          BY <4>3, <5>0, <1>0, <2>1, <2>2
        <5>2. tail[x] = s[Len(s)]
          BY <1>2 DEF Linked
        <5>3. head'[x] = t[1] /\ tail'[x] = t[Len(t)]
          BY <5>1, <5>2, <2>3 DEF TypeOK
        <5> QED
          BY <5>1, <5>3, <4>1, <3>1, <3>2, <2>4
      <4> QED
        BY <4>2, <4>3
    <3>3. CASE y # x
      BY <3>1, <3>3, <2>3, <2>4 DEF Linked, TypeOK
    <3> QED
      BY <3>2, <3>3
  <2>11. IsInQueueExact'
    <3> SUFFICES ASSUME NEW j \in Items
                 PROVE  IsInQueue(j)' <=> ~A!Outside(j)'
      BY DEF IsInQueueExact
    <3>1. CASE j = i
      <4>1. A!Outside(j)'
        BY <2>6, <3>1 DEF A!Outside
      <4>2. ~IsInQueue(j)'
        BY <2>1, <2>9, <3>1 DEF IsInQueue
      <4> QED
        BY <4>1, <4>2
    <3>2. CASE j # i
      <4>1. A!Outside(j) => A!Outside(j)'
        <5> SUFFICES ASSUME A!Outside(j), NEW y \in Queues,
                            NEW m \in 1..Len(fifo'[y])
                     PROVE  fifo'[y][m] # j
          BY DEF A!Outside
        <5> QED
          BY <2>5 DEF A!Outside
      <4>2. A!Outside(j)' => A!Outside(j)
        <5> SUFFICES ASSUME A!Outside(j)', NEW y \in Queues,
                            NEW k \in 1..Len(fifo[y]), fifo[y][k] = j
                     PROVE  FALSE
          BY DEF A!Outside
        <5>1. CASE y = x
          <6>1. k # 1 /\ k - 1 \in 1..Len(t) /\ t[k - 1] = s[k]
            BY <5>1, <3>2, <1>0, <2>2
          <6> QED
            BY <6>1, <5>1, <2>4 DEF A!Outside
        <5>2. CASE y # x
          BY <5>2, <2>4 DEF A!Outside
        <5> QED
          BY <5>1, <5>2
      <4>3. IsInQueue(j)' <=> IsInQueue(j)
        BY <3>2, <2>9 DEF IsInQueue
      <4> QED
        BY <4>1, <4>2, <4>3 DEF IsInQueueExact
    <3> QED
      BY <3>1, <3>2
  <2>12. WalkInside'
    <3>1. walk.on => fifo'[walk.q] = fifo[walk.q]
      BY <2>4 DEF Pop, Unlocked, TypeOK
    <3> QED
      BY <1>0, <3>1 DEF WalkInside
  <2> QED
    BY <2>7, <2>8, <2>10, <2>11, <2>12
<1> QED
  BY <1>1, <1>2

\* The steps of fsock_queue_remove that only move the walk.
LEMMA WalkIInv ==
    ASSUME IInv,
           \/ \E x \in Queues, i \in Items : RemoveCall(x, i)
           \/ RemoveAdvance \/ RemoveMiss
    PROVE  IInv'
<1> USE PointerAssumption DEF IInv, Represents
<1>0. UNCHANGED <<head, tail, next, result, fifo>>
  BY DEF RemoveCall, RemoveAdvance, RemoveMiss
<1>1. NoSharing' /\ Linked'
  BY <1>0 DEF NoSharing, Linked
<1>2. IsInQueueExact'
  BY <1>0 DEF IsInQueueExact, IsInQueue, A!Outside
<1>3. ASSUME NEW x \in Queues, NEW i \in Items, RemoveCall(x, i)
      PROVE  TypeOK' /\ WalkInside'
  <2>1. TypeOK'
    BY <1>0, <1>3 DEF RemoveCall, TypeOK
  <2>2. WalkInside'
    <3>1. fifo[x] \in Seq(Items) /\ Len(fifo[x]) \in Nat
      BY DEF TypeOK
    <3>2. CASE fifo[x] = << >>
      BY <1>0, <1>3, <3>2 DEF RemoveCall, WalkInside, Linked
    <3>3. CASE fifo[x] # << >>
      <4>1. 1 \in 1..Len(fifo[x]) /\ walk'.it = fifo[x][1] /\ walk'.q = x /\ walk'.prev = NULL
        BY <1>3, <3>1, <3>3 DEF RemoveCall, Linked
      <4> QED
        BY <1>0, <4>1 DEF WalkInside
    <3> QED
      BY <3>2, <3>3
  <2> QED
    BY <2>1, <2>2
<1>4. ASSUME RemoveAdvance
      PROVE  TypeOK' /\ WalkInside'
  <2> DEFINE s == fifo[walk.q]
  <2>1. s \in Seq(Items) /\ Len(s) \in Nat /\ walk.q \in Queues
    BY <1>4 DEF TypeOK, RemoveAdvance
  <2>2. PICK k \in 1..Len(s) : walk.it = s[k] /\ \A j \in 1..(k - 1) : s[j] # walk.item
    BY <1>4 DEF RemoveAdvance, WalkInside
  <2>3. /\ next[walk.it] = IF k = Len(s) THEN NULL ELSE s[k + 1]
        /\ s[k] # walk.item /\ s[k] \in Items
    BY <1>4, <2>1, <2>2 DEF Linked, RemoveAdvance
  <2>4. /\ walk'.on = walk.on /\ walk'.q = walk.q /\ walk'.item = walk.item
        /\ walk'.it = next[walk.it] /\ walk'.prev = walk.it
        /\ walk' \in [on : BOOLEAN, q : Queues \cup {NULL}, item : Items \cup {NULL},
                       it : Items \cup {NULL}, prev : Items \cup {NULL}]
    <3>1. next[walk.it] \in Items \cup {NULL} /\ walk.it \in Items
      BY <2>1, <2>2, <2>3
    <3> QED
      BY <1>4, <3>1 DEF RemoveAdvance, TypeOK
  <2>5. TypeOK'
    BY <1>0, <2>4 DEF TypeOK
  <2>6. WalkInside'
    <3>1. CASE k = Len(s)
      BY <3>1, <1>0, <2>1, <2>2, <2>3, <2>4 DEF WalkInside
    <3>2. CASE k # Len(s)
      <4>1. /\ k + 1 \in 1..Len(s) /\ walk'.it = s[k + 1] /\ walk'.prev = s[(k + 1) - 1]
            /\ k + 1 # 1
            /\ \A j \in 1..((k + 1) - 1) : s[j] # walk.item
        BY <3>2, <2>1, <2>2, <2>3, <2>4
      <4>2. walk'.on => \E m \in 1..Len(s) :
                /\ walk'.it = s[m]
                /\ walk'.prev = IF m = 1 THEN NULL ELSE s[m - 1]
                /\ \A j \in 1..(m - 1) : s[j] # walk'.item
        BY <4>1, <2>4
      <4> QED
        BY <4>2, <1>0, <2>4 DEF WalkInside
    <3> QED
      BY <3>1, <3>2
  <2> QED
    BY <2>5, <2>6
<1>5. ASSUME RemoveMiss
      PROVE  TypeOK' /\ WalkInside'
  BY <1>0, <1>5 DEF RemoveMiss, Idle, TypeOK, WalkInside
<1> QED
  BY <1>1, <1>2, <1>3, <1>4, <1>5

\* The step of fsock_queue_remove that unlinks the item.
LEMMA RemoveFoundIInv ==
    ASSUME IInv, RemoveFound
    PROVE  IInv'
<1> USE PointerAssumption DEF IInv, Represents
<1> DEFINE x == walk.q
           i == walk.it
           s == fifo[x]
<1>0. /\ x \in Queues /\ i \in Items /\ i = walk.item /\ i # NULL
      /\ s \in Seq(Items) /\ Len(s) \in Nat
  BY DEF RemoveFound, TypeOK
<1>1. PICK k \in 1..Len(s) : /\ i = s[k]
                             /\ walk.prev = IF k = 1 THEN NULL ELSE s[k - 1]
  BY <1>0 DEF RemoveFound, WalkInside
<1> DEFINE r == RemoveAt(s, k)
<1>2. /\ r \in Seq(Items) /\ Len(r) = Len(s) - 1 /\ Len(r) \in Nat
      /\ \A m \in 1..(Len(s) - 1) : r[m] = IF m < k THEN s[m] ELSE s[m + 1]
  <2>1. /\ r \in Seq(Items) /\ Len(r) = Len(s) - 1
        /\ \A m \in 1..(Len(s) - 1) : r[m] = IF m < k THEN s[m] ELSE s[m + 1]
    BY <1>0, RemoveAtType
  <2> HIDE DEF r
  <2> QED
    BY <2>1
<1>3. /\ head' = IF head[x] = i THEN [head EXCEPT ![x] = next[i]] ELSE head
      /\ tail' = IF tail[x] = i THEN [tail EXCEPT ![x] = walk.prev] ELSE tail
      /\ next' = [j \in Items |-> IF j = i THEN NOTINQUEUE
                                  ELSE IF j = walk.prev THEN next[i] ELSE next[j]]
      /\ walk' = Idle /\ result' = result
  BY DEF RemoveFound, RemoveHead, RemoveTail
<1>4. fifo' = [fifo EXCEPT ![x] = r]
  <2> DEFINE at == {m \in 1..Len(s) : s[m] = i}
  <2>1. at # {} /\ k = CHOOSE m \in at : TRUE
    <3>1. \A m \in at : m = k
      BY <1>0, <1>1 DEF NoSharing
    <3>2. k \in at
      BY <1>1
    <3> QED
      BY <3>1, <3>2
  <2>2. fifo' = [fifo EXCEPT ![x] = IF at = {} THEN s
                                    ELSE RemoveAt(s, CHOOSE m \in at : TRUE)]
    BY DEF RemoveFound, Without
  <2> QED
    BY <2>1, <2>2
<1> HIDE DEF r
<1>5. fifo'[x] = r /\ \A y \in Queues : y # x => fifo'[y] = fifo[y]
  BY <1>0, <1>4 DEF TypeOK
<1>6. /\ next[i] = IF k = Len(s) THEN NULL ELSE s[k + 1]
      /\ head[x] = s[1] /\ tail[x] = s[Len(s)]
      /\ 1 \in 1..Len(s) /\ Len(s) \in 1..Len(s)
  <2>1. s # << >> /\ 1 \in 1..Len(s) /\ Len(s) \in 1..Len(s)
    BY <1>0, <1>1
  <2> QED
    BY <2>1, <1>0, <1>1 DEF Linked
<1>7. next[i] \in Items \cup {NULL} /\ walk.prev \in Items \cup {NULL}
  <2>1. k # Len(s) => k + 1 \in 1..Len(s)
    BY <1>0
  <2> QED
    BY <2>1, <1>0, <1>1, <1>6 DEF TypeOK
<1>8. TypeOK'
  BY <1>0, <1>2, <1>3, <1>4, <1>7 DEF TypeOK, Idle
<1>9. \A a, b \in 1..Len(s) : s[a] = s[b] => a = b
  BY <1>0 DEF NoSharing
<1>10. \A m \in 1..Len(r) : \E n \in 1..Len(s) :
          n # k /\ r[m] = s[n] /\ n = IF m < k THEN m ELSE m + 1
  <2> TAKE m \in 1..Len(r)
  <2>1. CASE m < k
    BY <2>1, <1>0, <1>2
  <2>2. CASE ~(m < k)
    BY <2>2, <1>0, <1>2
  <2> QED
    BY <2>1, <2>2
<1>11. NoSharing'
  <2> SUFFICES ASSUME NEW y \in Queues, NEW z \in Queues,
                      NEW a \in 1..Len(fifo'[y]), NEW b \in 1..Len(fifo'[z]),
                      fifo'[y][a] = fifo'[z][b]
               PROVE  y = z /\ a = b
    BY DEF NoSharing
  <2>1. CASE y = x /\ z = x
    BY <2>1, <1>0, <1>5, <1>9, <1>10
  <2>2. CASE y # x /\ z = x
    <3>1. PICK n \in 1..Len(s) : r[b] = s[n]
      BY <2>2, <1>5, <1>10
    <3> QED
      BY <2>2, <3>1, <1>0, <1>5 DEF NoSharing
  <2>3. CASE y = x /\ z # x
    <3>1. PICK n \in 1..Len(s) : r[a] = s[n]
      BY <2>3, <1>5, <1>10
    <3> QED
      BY <2>3, <3>1, <1>0, <1>5 DEF NoSharing
  <2>4. CASE y # x /\ z # x
    BY <2>4, <1>5 DEF NoSharing
  <2> QED
    BY <2>1, <2>2, <2>3, <2>4
<1>12. \A j \in Items : next'[j] = IF j = i THEN NOTINQUEUE
                                    ELSE IF j = walk.prev THEN next[i] ELSE next[j]
  BY <1>3
<1>13. \A m \in 1..Len(r) : next'[r[m]] = IF m = Len(r) THEN NULL ELSE r[m + 1]
  <2> TAKE m \in 1..Len(r)
  <2>1. PICK n \in 1..Len(s) : n # k /\ r[m] = s[n] /\ n = IF m < k THEN m ELSE m + 1
    BY <1>10
  <2>2. s[n] \in Items /\ s[n] # i /\ next[s[n]] = IF n = Len(s) THEN NULL ELSE s[n + 1]
    BY <2>1, <1>0, <1>1, <1>9 DEF Linked
  <2>3. s[n] = walk.prev <=> n = k - 1
    BY <2>1, <2>2, <1>0, <1>1, <1>9
  <2>4. CASE n = k - 1
    <3>1. m = k - 1 /\ next'[r[m]] = IF k = Len(s) THEN NULL ELSE s[k + 1]
      BY <2>1, <2>2, <2>3, <2>4, <1>0, <1>6, <1>12
    <3>2. m # Len(r) => r[m + 1] = s[k + 1]
      BY <3>1, <1>0, <1>2
    <3> QED
      BY <3>1, <3>2, <1>0, <1>2
  <2>5. CASE n # k - 1
    <3>1. next'[r[m]] = IF n = Len(s) THEN NULL ELSE s[n + 1]
      BY <2>1, <2>2, <2>3, <2>5, <1>12
    <3>2. n = Len(s) <=> m = Len(r)
      BY <2>1, <2>5, <1>0, <1>2
    <3>3. m # Len(r) => r[m + 1] = s[n + 1]
      BY <2>1, <2>5, <1>0, <1>2
    <3> QED
      BY <3>1, <3>2, <3>3
  <2> QED
    BY <2>4, <2>5
<1>14. /\ Len(r) = 0 => head'[x] = NULL /\ tail'[x] = NULL
       /\ Len(r) # 0 => head'[x] = r[1] /\ tail'[x] = r[Len(r)]
  <2>1. /\ head[x] = i <=> k = 1
        /\ tail[x] = i <=> k = Len(s)
    BY <1>1, <1>6, <1>9
  <2>2. /\ head'[x] = IF k = 1 THEN next[i] ELSE s[1]
        /\ tail'[x] = IF k = Len(s) THEN walk.prev ELSE s[Len(s)]
    BY <2>1, <1>0, <1>3, <1>6 DEF TypeOK
  <2>3. CASE Len(r) = 0
    BY <2>2, <2>3, <1>0, <1>1, <1>2, <1>6
  <2>4. CASE Len(r) # 0
    <3>1. 1 \in 1..(Len(s) - 1) /\ Len(r) \in 1..(Len(s) - 1)
      <4>1. \A n \in Nat : n # 0 => 1 \in 1..n /\ n \in 1..n
        OBVIOUS
      <4> QED
        BY <4>1, <2>4, <1>2
    <3>2. /\ r[1] = IF k = 1 THEN s[2] ELSE s[1]
          /\ r[Len(r)] = IF k = Len(s) THEN s[k - 1] ELSE s[Len(s)]
      BY <3>1, <1>0, <1>2
    <3> QED
      BY <3>1, <3>2, <2>2, <1>0, <1>1, <1>2, <1>6
  <2> QED
    BY <2>3, <2>4
<1>15. Linked'
  <2> SUFFICES ASSUME NEW y \in Queues
               PROVE  /\ fifo'[y] = << >> => head'[y] = NULL /\ tail'[y] = NULL
                      /\ fifo'[y] # << >> => head'[y] = fifo'[y][1]
                                            /\ tail'[y] = fifo'[y][Len(fifo'[y])]
                      /\ \A m \in 1..Len(fifo'[y]) :
                           next'[fifo'[y][m]] = IF m = Len(fifo'[y]) THEN NULL
                                                ELSE fifo'[y][m + 1]
    BY DEF Linked
  <2>1. CASE y = x
    <3>1. fifo'[y] = << >> => Len(r) = 0
      BY <2>1, <1>5
    <3>2. fifo'[y] # << >> => Len(r) # 0
      BY <2>1, <1>2, <1>5
    <3> QED
      BY <2>1, <3>1, <3>2, <1>5, <1>13, <1>14
  <2>2. CASE y # x
    <3>1. \A m \in 1..Len(fifo[y]) : next'[fifo[y][m]] = next[fifo[y][m]]
      <4> TAKE m \in 1..Len(fifo[y])
      <4>1. fifo[y][m] \in Items /\ fifo[y][m] # i
        BY <2>2, <1>0, <1>1 DEF NoSharing, TypeOK
      <4>2. fifo[y][m] # walk.prev
        <5>1. CASE k = 1
          BY <5>1, <4>1, <1>1
        <5>2. CASE k # 1
          <6>1. k - 1 \in 1..Len(s)
            BY <5>2, <1>0
          <6> QED
            BY <6>1, <5>2, <2>2, <1>0, <1>1 DEF NoSharing
        <5> QED
          BY <5>1, <5>2
      <4> QED
        BY <4>1, <4>2, <1>12
    <3>2. head'[y] = head[y] /\ tail'[y] = tail[y] /\ fifo'[y] = fifo[y]
      BY <2>2, <1>0, <1>3, <1>5 DEF TypeOK
    <3> QED
      BY <3>1, <3>2 DEF Linked
  <2> QED
    BY <2>1, <2>2
<1>16. IsInQueueExact'
  <2> SUFFICES ASSUME NEW j \in Items
               PROVE  IsInQueue(j)' <=> ~A!Outside(j)'
    BY DEF IsInQueueExact
  <2>1. CASE j = i
    <3>1. ~IsInQueue(j)'
      BY <2>1, <1>12 DEF IsInQueue
    <3>2. A!Outside(j)'
      <4> SUFFICES ASSUME NEW y \in Queues, NEW m \in 1..Len(fifo'[y])
                   PROVE  fifo'[y][m] # j
        BY DEF A!Outside
      <4>1. CASE y = x
        BY <4>1, <2>1, <1>1, <1>5, <1>9, <1>10
      <4>2. CASE y # x
        BY <4>2, <2>1, <1>0, <1>1, <1>5 DEF NoSharing
      <4> QED
        BY <4>1, <4>2
    <3> QED
      BY <3>1, <3>2
  <2>2. CASE j # i
    <3>1. A!Outside(j) => A!Outside(j)'
      <4> SUFFICES ASSUME A!Outside(j), NEW y \in Queues, NEW m \in 1..Len(fifo'[y])
                   PROVE  fifo'[y][m] # j
        BY DEF A!Outside
      <4> QED
        BY <1>0, <1>5, <1>10 DEF A!Outside
    <3>2. A!Outside(j)' => A!Outside(j)
      <4> SUFFICES ASSUME A!Outside(j)', NEW y \in Queues,
                          NEW n \in 1..Len(fifo[y]), fifo[y][n] = j
                   PROVE  FALSE
        BY DEF A!Outside
      <4>1. CASE y = x
        <5> DEFINE m == IF n < k THEN n ELSE n - 1
        <5>1. n # k
          BY <4>1, <2>2, <1>1
        <5>2. m \in 1..Len(r) /\ r[m] = s[n]
          BY <4>1, <5>1, <1>0, <1>2
        <5> QED
          BY <5>2, <4>1, <1>0, <1>5 DEF A!Outside
      <4>2. CASE y # x
        BY <4>2, <1>5 DEF A!Outside
      <4> QED
        BY <4>1, <4>2
    <3>3. IsInQueue(j)' <=> IsInQueue(j)
      <4>1. j = walk.prev => next[j] # NOTINQUEUE
        <5> SUFFICES ASSUME j = walk.prev PROVE next[j] # NOTINQUEUE
          OBVIOUS
        <5>1. k # 1 /\ k - 1 \in 1..Len(s) /\ j = s[k - 1]
          BY <1>0, <1>1
        <5>2. next[j] = s[k]
          BY <5>1, <1>0 DEF Linked
        <5> QED
          BY <5>2, <1>0, <1>1
      <4> QED
        BY <4>1, <2>2, <1>7, <1>12 DEF IsInQueue
    <3> QED
      BY <3>1, <3>2, <3>3 DEF IsInQueueExact
  <2> QED
    BY <2>1, <2>2
<1>17. WalkInside'
  BY <1>3 DEF WalkInside, Idle
<1> QED
  BY <1>8, <1>11, <1>15, <1>16, <1>17

\* Hooking a queue behind another one: the read handler and async_routine.
LEMMA SpliceIInv ==
    ASSUME IInv, NEW x \in Queues, NEW y \in Queues, Splice(x, y)
    PROVE  IInv'
<1> USE PointerAssumption DEF IInv, Represents
<1> DEFINE s == fifo[x]
           t == fifo[y]
           r == s \o t
<1>0. /\ x # y /\ s \in Seq(Items) /\ t \in Seq(Items)
      /\ Len(s) \in Nat /\ Len(t) \in Nat
      /\ UNCHANGED walk /\ UNCHANGED result
  BY DEF Splice, TypeOK
<1>1. /\ r \in Seq(Items) /\ Len(r) = Len(s) + Len(t)
      /\ \A m \in 1..Len(s) : r[m] = s[m] /\ m \in 1..Len(r)
      /\ \A n \in 1..Len(t) : r[Len(s) + n] = t[n] /\ Len(s) + n \in 1..Len(r)
      /\ \A m \in 1..Len(r) :
            m \in 1..Len(s) \/ \E n \in 1..Len(t) : m = Len(s) + n
  <2>1. /\ r \in Seq(Items) /\ Len(r) = Len(s) + Len(t)
        /\ \A m \in 1..Len(s) : r[m] = s[m] /\ m \in 1..(Len(s) + Len(t))
        /\ \A n \in 1..Len(t) : r[Len(s) + n] = t[n] /\ Len(s) + n \in 1..(Len(s) + Len(t))
        /\ \A m \in 1..(Len(s) + Len(t)) :
              m \in 1..Len(s) \/ \E n \in 1..Len(t) : m = Len(s) + n
    <3> HIDE DEF s, t
    <3> QED
      BY <1>0, ConcatPositions
  <2> HIDE DEF r, s, t
  <2> QED
    BY <2>1
<1>2. /\ t # << >> /\ 1 \in 1..Len(t) /\ Len(t) \in 1..Len(t)
      /\ head[y] = t[1] /\ tail[y] = t[Len(t)] /\ t[1] \in Items
      /\ t[Len(t)] \in Items
  <2>1. t # << >>
    BY DEF Splice, Linked
  <2>2. 1 \in 1..Len(t) /\ Len(t) \in 1..Len(t)
    BY <1>0, <2>1
  <2> QED
    BY <2>1, <2>2, <1>0 DEF Linked
<1>3. s = << >> => head[x] = NULL /\ tail[x] = NULL
  BY DEF Linked
<1>4. s # << >> => /\ 1 \in 1..Len(s) /\ Len(s) \in 1..Len(s)
                   /\ head[x] = s[1] /\ tail[x] = s[Len(s)]
                   /\ s[1] \in Items /\ s[Len(s)] \in Items
  <2>1. s # << >> => 1 \in 1..Len(s) /\ Len(s) \in 1..Len(s)
    BY <1>0
  <2> QED
    BY <2>1, <1>0 DEF Linked
<1>5. fifo' = [fifo EXCEPT ![x] = r, ![y] = << >>]
  BY DEF Splice
<1> HIDE DEF r
<1>6. /\ fifo'[x] = r /\ fifo'[y] = << >>
      /\ \A z \in Queues : z # x /\ z # y => fifo'[z] = fifo[z]
  BY <1>0, <1>5 DEF TypeOK
<1>7. next' = IF s # << >> THEN [next EXCEPT ![s[Len(s)]] = t[1]] ELSE next
  BY <1>2, <1>3, <1>4 DEF Splice
<1>8. \A j \in Items : next'[j] = IF s # << >> /\ j = s[Len(s)] THEN t[1] ELSE next[j]
  BY <1>4, <1>7 DEF TypeOK
<1>9. TypeOK'
  <2>1. /\ head' \in [Queues -> Items \cup {NULL}]
        /\ tail' \in [Queues -> Items \cup {NULL}]
    BY <1>2 DEF TypeOK, Splice
  <2>3. fifo' \in [Queues -> Seq(Items)]
    <3>1. << >> \in Seq(Items)
      OBVIOUS
    <3> QED
      BY <3>1, <1>1, <1>5 DEF TypeOK
  <2>2. next' \in [Items -> Items \cup {NULL, NOTINQUEUE}]
    BY <1>2, <1>4, <1>7 DEF TypeOK
  <2> QED
    BY <2>1, <2>2, <2>3, <1>0 DEF TypeOK
<1>10. \A u \in Queues : \A a \in 1..Len(fifo'[u]) :
          /\ u # y
          /\ \/ a \in 1..Len(fifo[u]) /\ fifo'[u][a] = fifo[u][a]
             \/ u = x /\ \E n \in 1..Len(t) : a = Len(s) + n /\ fifo'[u][a] = t[n]
  <2> SUFFICES ASSUME NEW u \in Queues, NEW a \in 1..Len(fifo'[u])
               PROVE  /\ u # y
                      /\ \/ a \in 1..Len(fifo[u]) /\ fifo'[u][a] = fifo[u][a]
                         \/ u = x /\ \E n \in 1..Len(t) :
                                        a = Len(s) + n /\ fifo'[u][a] = t[n]
    OBVIOUS
  <2>1. u # y
    BY <1>6
  <2>2. CASE u = x
    BY <2>1, <2>2, <1>1, <1>6
  <2>3. CASE u # x
    BY <2>1, <2>3, <1>6
  <2> QED
    BY <2>1, <2>2, <2>3
<1>11. NoSharing'
  <2> SUFFICES ASSUME NEW u \in Queues, NEW z \in Queues,
                      NEW a \in 1..Len(fifo'[u]), NEW b \in 1..Len(fifo'[z]),
                      fifo'[u][a] = fifo'[z][b]
               PROVE  u = z /\ a = b
    BY DEF NoSharing
  <2>1. u # y /\ z # y
    BY <1>10
  <2>2. CASE /\ a \in 1..Len(fifo[u]) /\ fifo'[u][a] = fifo[u][a]
             /\ b \in 1..Len(fifo[z]) /\ fifo'[z][b] = fifo[z][b]
    <3>1. fifo[u][a] = fifo[z][b]
      BY <2>2
    <3> QED
      BY <2>2, <3>1 DEF NoSharing
  <2>3. ASSUME NEW n \in 1..Len(t), fifo'[u][a] = t[n],
               b \in 1..Len(fifo[z]), fifo'[z][b] = fifo[z][b]
        PROVE  FALSE
    BY <2>1, <2>3 DEF NoSharing
  <2>4. ASSUME NEW n \in 1..Len(t), fifo'[z][b] = t[n],
               a \in 1..Len(fifo[u]), fifo'[u][a] = fifo[u][a]
        PROVE  FALSE
    BY <2>1, <2>4 DEF NoSharing
  <2>5. ASSUME u = x, z = x,
               NEW n \in 1..Len(t), fifo'[u][a] = t[n], a = Len(s) + n,
               NEW m \in 1..Len(t), fifo'[z][b] = t[m], b = Len(s) + m
        PROVE  u = z /\ a = b
    <3>1. n = m
      BY <2>5 DEF NoSharing
    <3> QED
      BY <2>5, <3>1
  <2> QED
    BY <2>2, <2>3, <2>4, <2>5, <1>10
<1>12. \A m \in 1..Len(r) : next'[r[m]] = IF m = Len(r) THEN NULL ELSE r[m + 1]
  <2>0. PICK ls \in Nat, lt \in Nat : ls = Len(s) /\ lt = Len(t) /\ lt >= 1
    BY <1>0, <1>2
  <2> TAKE m \in 1..Len(r)
  <2>1. CASE m \in 1..Len(s)
    <3>0. s # << >>
      BY <2>1
    <3>1. r[m] = s[m] /\ s[m] \in Items /\ s # << >>
      <4> HIDE DEF s, t
      <4> QED
        BY <2>1, <3>0, <1>0, <1>1
    <3>2. next[s[m]] = IF m = Len(s) THEN NULL ELSE s[m + 1]
      BY <2>1 DEF Linked
    <3>3. s[m] = s[Len(s)] <=> m = Len(s)
      BY <2>1, <3>1, <1>4 DEF NoSharing
    <3>4. m # Len(r) /\ (m # Len(s) => m + 1 \in 1..Len(s))
      <4>1. m \in 1..ls /\ Len(r) = ls + lt
        BY <2>0, <2>1, <1>1
      <4>2. m # ls + lt /\ (m # ls => m + 1 \in 1..ls)
        <5>1. lt >= 1
          BY <2>0
        <5>2. \A k \in 1..ls : lt >= 1 => k # ls + lt /\ (k # ls => k + 1 \in 1..ls)
          BY PositionBounds
        <5> QED
          BY <5>1, <5>2, <4>1
      <4> QED
        BY <2>0, <4>1, <4>2
    <3>5. (m # Len(s) => r[m + 1] = s[m + 1]) /\ (m = Len(s) => r[m + 1] = t[1])
      BY <3>4, <1>1, <1>2
    <3> QED
      BY <3>1, <3>2, <3>3, <3>4, <3>5, <1>8
  <2>2. ASSUME NEW n \in 1..Len(t), m = Len(s) + n
        PROVE  next'[r[m]] = IF m = Len(r) THEN NULL ELSE r[m + 1]
    <3>1. r[m] = t[n] /\ t[n] \in Items
      <4> HIDE DEF s, t
      <4> QED
        BY <2>2, <1>0, <1>1
    <3>2. next[t[n]] = IF n = Len(t) THEN NULL ELSE t[n + 1]
      BY DEF Linked
    <3>3. s # << >> => t[n] # s[Len(s)]
      BY <1>0, <1>4 DEF NoSharing
    <3>4. /\ n = Len(t) <=> m = Len(r)
          /\ n # Len(t) => n + 1 \in 1..Len(t) /\ m + 1 = Len(s) + (n + 1)
      <4>1. n \in 1..lt /\ m = ls + n /\ Len(r) = ls + lt
        BY <2>0, <2>2, <1>1
      <4>2. /\ n = lt <=> m = ls + lt
            /\ n # lt => n + 1 \in 1..lt /\ m + 1 = ls + (n + 1)
        BY <4>1, PositionBounds
      <4> QED
        BY <2>0, <4>1, <4>2
    <3>5. n # Len(t) => r[m + 1] = t[n + 1]
      <4> HIDE DEF s, t
      <4> QED
        BY <3>4, <1>1
    <3> QED
      BY <3>1, <3>2, <3>3, <3>4, <3>5, <1>8
  <2> QED
    BY <2>1, <2>2, <1>1
<1>13. /\ head'[x] = r[1] /\ tail'[x] = r[Len(r)] /\ r # << >>
       /\ head'[y] = NULL /\ tail'[y] = NULL
  <2>1. r[Len(r)] = t[Len(t)] /\ Len(r) \in 1..Len(r)
    BY <1>1, <1>2
  <2>2. r # << >>
    BY <2>1
  <2>3. r[1] = IF s = << >> THEN t[1] ELSE s[1]
    <3>1. CASE s = << >>
      <4>1. Len(s) = 0 /\ r[Len(s) + 1] = t[1]
        BY <3>1, <1>1, <1>2
      <4> QED
        BY <3>1, <4>1
    <3>2. CASE s # << >>
      BY <3>2, <1>1, <1>4
    <3> QED
      BY <3>1, <3>2
  <2>4. /\ head'[x] = IF s = << >> THEN t[1] ELSE s[1]
        /\ tail'[x] = t[Len(t)] /\ head'[y] = NULL /\ tail'[y] = NULL
    BY <1>0, <1>2, <1>3, <1>4 DEF Splice, TypeOK
  <2> QED
    BY <2>1, <2>2, <2>3, <2>4
<1>14. Linked'
  <2> SUFFICES ASSUME NEW z \in Queues
               PROVE  /\ fifo'[z] = << >> => head'[z] = NULL /\ tail'[z] = NULL
                      /\ fifo'[z] # << >> => head'[z] = fifo'[z][1]
                                            /\ tail'[z] = fifo'[z][Len(fifo'[z])]
                      /\ \A m \in 1..Len(fifo'[z]) :
                           next'[fifo'[z][m]] = IF m = Len(fifo'[z]) THEN NULL
                                                ELSE fifo'[z][m + 1]
    BY DEF Linked
  <2>1. CASE z = x
    BY <2>1, <1>6, <1>12, <1>13
  <2>2. CASE z = y
    BY <2>2, <1>6, <1>13
  <2>3. CASE z # x /\ z # y
    <3>1. \A m \in 1..Len(fifo[z]) : next'[fifo[z][m]] = next[fifo[z][m]]
      <4> TAKE m \in 1..Len(fifo[z])
      <4>1. fifo[z][m] \in Items
        BY DEF TypeOK
      <4>2. s # << >> => fifo[z][m] # s[Len(s)]
        BY <2>3, <1>4 DEF NoSharing
      <4> QED
        BY <4>1, <4>2, <1>8
    <3>2. head'[z] = head[z] /\ tail'[z] = tail[z] /\ fifo'[z] = fifo[z]
      BY <2>3, <1>6 DEF Splice, TypeOK
    <3> QED
      BY <3>1, <3>2 DEF Linked
  <2> QED
    BY <2>1, <2>2, <2>3
<1>15. IsInQueueExact'
  <2> SUFFICES ASSUME NEW j \in Items
               PROVE  IsInQueue(j)' <=> ~A!Outside(j)'
    BY DEF IsInQueueExact
  <2>1. A!Outside(j) => A!Outside(j)'
    <3> SUFFICES ASSUME A!Outside(j), NEW z \in Queues, NEW m \in 1..Len(fifo'[z])
                 PROVE  fifo'[z][m] # j
      BY DEF A!Outside
    <3>1. CASE m \in 1..Len(fifo[z]) /\ fifo'[z][m] = fifo[z][m]
      BY <3>1 DEF A!Outside
    <3>2. ASSUME NEW n \in 1..Len(t), fifo'[z][m] = t[n]
          PROVE  fifo'[z][m] # j
      BY <3>2 DEF A!Outside
    <3> QED
      BY <3>1, <3>2, <1>10
  <2>2. A!Outside(j)' => A!Outside(j)
    <3> SUFFICES ASSUME A!Outside(j)', NEW z \in Queues,
                        NEW n \in 1..Len(fifo[z]), fifo[z][n] = j
                 PROVE  FALSE
      BY DEF A!Outside
    <3>1. CASE z = x
      <4>1. n \in 1..Len(r) /\ r[n] = s[n]
        BY <3>1, <1>1
      <4> QED
        BY <4>1, <3>1, <1>6 DEF A!Outside
    <3>2. CASE z = y
      <4>1. Len(s) + n \in 1..Len(r) /\ r[Len(s) + n] = t[n]
        BY <3>2, <1>1
      <4> QED
        BY <4>1, <3>2, <1>6 DEF A!Outside
    <3>3. CASE z # x /\ z # y
      BY <3>3, <1>6 DEF A!Outside
    <3> QED
      BY <3>1, <3>2, <3>3
  <2>3. IsInQueue(j)' <=> IsInQueue(j)
    <3>1. s # << >> => next[s[Len(s)]] = NULL
      BY <1>4 DEF Linked
    <3> QED
      BY <3>1, <1>2, <1>4, <1>8 DEF IsInQueue
  <2> QED
    BY <2>1, <2>2, <2>3 DEF IsInQueueExact
<1>16. WalkInside'
  <2>1. walk.on => fifo'[walk.q] = fifo[walk.q]
    BY <1>6 DEF Splice, Unlocked, TypeOK
  <2> QED
    BY <1>0, <2>1 DEF WalkInside
<1> QED
  BY <1>9, <1>11, <1>14, <1>15, <1>16

-----------------------------------------------------------------------------
\* Every step keeps the invariant.
LEMMA NextIInv == IInv /\ [Next]_vars => IInv'
<1> SUFFICES ASSUME IInv, [Next]_vars PROVE IInv'
  OBVIOUS
<1>1. CASE \E x \in Queues : Pop(x)
  BY <1>1, PopIInv
<1>2. CASE \E x \in Queues, i \in Items : Push(x, i)
  BY <1>2, PushIInv
<1>3. CASE \E x \in Queues, i \in Items : RemoveCall(x, i)
  BY <1>3, WalkIInv
<1>4. CASE \E x \in Queues, y \in Queues : Splice(x, y)
  BY <1>4, SpliceIInv
<1>5. CASE RemoveAdvance \/ RemoveMiss
  BY <1>5, WalkIInv
<1>6. CASE RemoveFound
  BY <1>6, RemoveFoundIInv
<1>7. CASE UNCHANGED vars
  <2> USE DEF IInv, Represents, vars
  <2>1. TypeOK' /\ NoSharing' /\ Linked' /\ WalkInside'
    BY <1>7 DEF TypeOK, NoSharing, Linked, WalkInside
  <2>2. IsInQueueExact'
    BY <1>7 DEF IsInQueueExact, IsInQueue, A!Outside
  <2> QED
    BY <2>1, <2>2
<1> QED
  BY <1>1, <1>2, <1>3, <1>4, <1>5, <1>6, <1>7 DEF Next, RemoveStep

\* Every pointer field of utils/queue.c always holds an item, NULL or, for
\* item->next only, the NOTINQUEUE mark.
THEOREM TypeCorrect == Spec => []TypeOK
<1>1. IInv => TypeOK
  BY DEF IInv
<1> QED
  BY <1>1, InitIInv, NextIInv, PTL DEF Spec

\* Whatever the number of items and queues, push, pop, remove and the two
\* splices keep every chain equal to its sequence, isinqueue exact and a
\* running remove inside the queue it walks.
THEOREM Representation == Spec => []Represents
<1>1. IInv => Represents
  BY DEF IInv
<1> QED
  BY <1>1, InitIInv, NextIInv, PTL DEF Spec

\* The code of utils/queue.c implements the abstract queues: what pop returns
\* is the oldest item, what remove takes out is the item it was given, and a
\* splice moves a whole sequence.
THEOREM QueueImplementsFifo == Spec => ImplementsFifo
<1>1. Init => A!Init
  BY DEF Init, A!Init
<1>2. ASSUME IInv, [Next]_vars PROVE [A!Next]_A!vars
  <2> USE DEF IInv, Represents
  <2>1. ASSUME NEW x \in Queues, Pop(x) PROVE [A!Next]_A!vars
    <3>1. head[x] = NULL <=> fifo[x] = << >>
      <4>1. fifo[x] # << >> => fifo[x][1] \in Items
        BY <1>2 DEF TypeOK
      <4> QED
        BY <1>2, <4>1, PointerAssumption DEF Linked
    <3>2. fifo[x] # << >> => head[x] = Head(fifo[x])
      BY <1>2 DEF Linked, TypeOK
    <3>3. A!Pop(x)
      BY <2>1, <3>1, <3>2 DEF Pop, PopResult, A!Pop
    <3> QED
      BY <3>3 DEF A!Next
  <2>2. ASSUME NEW x \in Queues, NEW i \in Items, Push(x, i) PROVE [A!Next]_A!vars
    <3>1. A!Outside(i)
      BY <1>2, <2>2 DEF Push, IsInQueueExact
    <3>2. A!Push(x, i)
      BY <2>2, <3>1 DEF Push, A!Push
    <3> QED
      BY <3>2 DEF A!Next
  <2>3. CASE \E x \in Queues, i \in Items : RemoveCall(x, i)
    BY <2>3 DEF RemoveCall, A!vars
  <2>4. ASSUME NEW x \in Queues, NEW y \in Queues, Splice(x, y) PROVE [A!Next]_A!vars
    <3>1. A!Splice(x, y)
      BY <2>4 DEF Splice, A!Splice
    <3> QED
      BY <3>1 DEF A!Next
  <2>5. CASE RemoveAdvance \/ RemoveMiss
    BY <2>5 DEF RemoveAdvance, RemoveMiss, A!vars
  <2>6. CASE RemoveFound
    <3> DEFINE x == walk.q
               i == walk.it
    <3>1. x \in Queues /\ i \in Items
      BY <1>2, <2>6 DEF RemoveFound, TypeOK
    <3>2. A!Remove(x, i)
      BY <2>6 DEF A!Remove, A!Without, A!RemoveAt, RemoveFound, Without, RemoveAt
    <3> QED
      BY <3>1, <3>2 DEF A!Next
  <2>7. CASE UNCHANGED vars
    BY <2>7 DEF vars, A!vars
  <2> QED
    BY <1>2, <2>1, <2>2, <2>3, <2>4, <2>5, <2>6, <2>7 DEF Next, RemoveStep
<1> QED
  BY <1>1, <1>2, InitIInv, NextIInv, PTL DEF Spec, ImplementsFifo, A!Spec
=============================================================================
