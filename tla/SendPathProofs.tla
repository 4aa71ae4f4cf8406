--------------------------- MODULE SendPathProofs ---------------------------
(***************************************************************************)
(* The send path and the dispatch on top of it, for every number of        *)
(* senders, connections and threads, every mark and every topology.        *)
(***************************************************************************)
EXTENDS Dispatch, FsockThreadProofs, FiniteSetTheorems, SequenceTheorems

-----------------------------------------------------------------------------
(* Sequences of frame numbers.                                             *)
Rising(s) == \A j, k \in 1..Len(s) : j < k => s[j] < s[k]
Below(A, B) == \A a \in A, b \in B : a < b

\* A cut keeps the order, and its two parts are the whole.
LEMMA CutRising ==
    ASSUME NEW s \in Seq(Nat), NEW k \in 0..Len(s)
    PROVE  LET a == SubSeq(s, 1, k)
               b == SubSeq(s, k + 1, Len(s))
           IN /\ a \in Seq(Nat) /\ b \in Seq(Nat) /\ a \o b = s
              /\ Len(a) = k /\ Len(b) = Len(s) - k
              /\ Elems(a) \subseteq Elems(s) /\ Elems(b) \subseteq Elems(s)
              /\ Rising(s) => Rising(a) /\ Rising(b) /\ Below(Elems(a), Elems(b))
<1> DEFINE a == SubSeq(s, 1, k)
           b == SubSeq(s, k + 1, Len(s))
<1>1. PICK n \in Nat : n = Len(s) /\ k \in 0..n
  OBVIOUS
<1>2. a \in Seq(Nat) /\ Len(a) = k /\ \A j \in 1..k : a[j] = s[j] /\ j \in 1..n
  BY <1>1
<1>3. b \in Seq(Nat) /\ Len(b) = n - k /\ \A j \in 1..(n - k) : b[j] = s[k + j] /\ k + j \in 1..n
  BY <1>1
<1>4. a \o b = s
  <2>1. SubSeq(s, 1, n) = s
    BY <1>1, SubSeqFull
  <2>2. 1 \in 1..(n + 1) /\ k \in (1 - 1)..n /\ n \in k..n
    BY <1>1
  <2>3. a \o b = SubSeq(s, 1, n)
    BY <1>1, <2>2, ConcatAdjacentSubSeq
  <2> QED
    BY <2>1, <2>3
<1> HIDE DEF a, b
<1>5. Elems(a) \subseteq Elems(s) /\ Elems(b) \subseteq Elems(s)
  BY <1>1, <1>2, <1>3 DEF Elems
<1>6. ASSUME Rising(s)
      PROVE  Rising(a) /\ Rising(b) /\ Below(Elems(a), Elems(b))
  <2>1. Rising(a)
    BY <1>1, <1>2, <1>6 DEF Rising
  <2>2. Rising(b)
    <3> SUFFICES ASSUME NEW i \in 1..(n - k), NEW j \in 1..(n - k), i < j
                 PROVE  b[i] < b[j]
      BY <1>3 DEF Rising
    <3>1. k + i < k + j /\ k + i \in 1..n /\ k + j \in 1..n
      BY <1>1
    <3> QED
      BY <1>1, <1>3, <1>6, <3>1 DEF Rising
  <2>3. Below(Elems(a), Elems(b))
    <3> SUFFICES ASSUME NEW i \in 1..k, NEW j \in 1..(n - k)
                 PROVE  a[i] < b[j]
      BY <1>2, <1>3 DEF Elems, Below
    <3>1. i < k + j /\ i \in 1..n /\ k + j \in 1..n
      BY <1>1
    <3> QED
      BY <1>1, <1>2, <1>3, <1>6, <3>1 DEF Rising
  <2> QED
    BY <2>1, <2>2, <2>3
<1> QED
  BY <1>1, <1>2, <1>3, <1>4, <1>5, <1>6 DEF a, b

\* Two rising sequences, the first below the second, make one rising sequence.
LEMMA ConcatRising ==
    ASSUME NEW s \in Seq(Nat), NEW t \in Seq(Nat)
    PROVE  /\ s \o t \in Seq(Nat) /\ Elems(s \o t) = Elems(s) \cup Elems(t)
           /\ Rising(s) /\ Rising(t) /\ Below(Elems(s), Elems(t)) => Rising(s \o t)
<1> DEFINE r == s \o t
<1>1. PICK a \in Nat, b \in Nat : a = Len(s) /\ b = Len(t)
  OBVIOUS
<1>2. /\ r \in Seq(Nat) /\ Len(r) = a + b
      /\ \A j \in 1..a : r[j] = s[j]
      /\ \A k \in 1..b : r[a + k] = t[k]
      /\ \A j \in 1..(a + b) : j \in 1..a \/ \E k \in 1..b : j = a + k
  BY <1>1, ConcatPositions
<1>3. Elems(r) = Elems(s) \cup Elems(t)
  BY DistinctConcat
<1> HIDE DEF r
<1>4. ASSUME Rising(s), Rising(t), Below(Elems(s), Elems(t)),
             NEW j \in 1..(a + b), NEW k \in 1..(a + b), j < k
      PROVE  r[j] < r[k]
  <2>1. CASE k \in 1..a
    <3>1. j \in 1..a
      BY <1>4, <2>1
    <3> QED
      BY <1>1, <1>2, <1>4, <2>1, <3>1 DEF Rising
  <2>2. CASE k \notin 1..a
    <3>1. PICK y \in 1..b : k = a + y
      BY <1>2, <2>2
    <3>2. CASE j \in 1..a
      <4>1. s[j] \in Elems(s) /\ t[y] \in Elems(t)
        BY <1>1, <3>2 DEF Elems
      <4> QED
        BY <1>2, <1>4, <3>1, <3>2, <4>1 DEF Below
    <3>3. CASE j \notin 1..a
      <4>1. PICK x \in 1..b : j = a + x
        BY <1>2, <3>3
      <4>2. x < y
        BY <1>4, <3>1, <4>1
      <4> QED
        BY <1>1, <1>2, <1>4, <3>1, <4>1, <4>2 DEF Rising
    <3> QED
      BY <3>2, <3>3
  <2> QED
    BY <2>1, <2>2
<1> QED
  BY <1>2, <1>3, <1>4 DEF Rising, r

\* The same for one more element.
LEMMA AppendRising ==
    ASSUME NEW s \in Seq(Nat), NEW x \in Nat
    PROVE  /\ Append(s, x) \in Seq(Nat) /\ Elems(Append(s, x)) = Elems(s) \cup {x}
           /\ Len(Append(s, x)) = Len(s) + 1 /\ Append(s, x) # << >>
           /\ Rising(s) /\ Below(Elems(s), {x}) => Rising(Append(s, x))
<1> DEFINE r == Append(s, x)
<1>1. PICK a \in Nat : a = Len(s)
  OBVIOUS
<1>2. /\ r \in Seq(Nat) /\ Len(r) = a + 1 /\ r[a + 1] = x /\ \A j \in 1..a : r[j] = s[j]
      /\ Elems(r) = Elems(s) \cup {x} /\ r # << >>
  BY <1>1, ElemsAppend
<1> HIDE DEF r
<1>3. ASSUME Rising(s), Below(Elems(s), {x}), NEW j \in 1..(a + 1), NEW k \in 1..(a + 1), j < k
      PROVE  r[j] < r[k]
  <2>1. j \in 1..a /\ (k \in 1..a \/ k = a + 1)
    BY <1>3
  <2>2. s[j] \in Elems(s)
    BY <1>1, <2>1 DEF Elems
  <2> QED
    BY <1>1, <1>2, <1>3, <2>1, <2>2 DEF Rising, Below
<1> QED
  BY <1>1, <1>2, <1>3 DEF Rising, r

-----------------------------------------------------------------------------
(* The out list.                                                           *)
ListOK(l) == l \in OutList /\ l.last <= Len(l.s)

\* The last pointer is where it should be.
Full(l) == l.last = Len(l.s)

\* An insert adds one frame at the end, and loses none where last is the end of the list.
LEMMA ListInsert ==
    ASSUME NEW l, ListOK(l), NEW f \in Nat
    PROVE  /\ ListOK(Insert(l, f)) /\ Insert(l, f).s # << >>
           /\ Elems(Insert(l, f).s) \subseteq Elems(l.s) \cup {f}
           /\ Rising(l.s) /\ Below(Elems(l.s), {f}) => Rising(Insert(l, f).s)
           /\ Full(l) => Full(Insert(l, f)) /\ Insert(l, f).s = Append(l.s, f)
<1> DEFINE a == SubSeq(l.s, 1, l.last)
           L == Insert(l, f)
<1>1. l.s \in Seq(Nat) /\ l.last \in 0..Len(l.s) /\ l.last \in Nat
  BY DEF ListOK, OutList
<1>2. /\ a \in Seq(Nat) /\ Len(a) = l.last /\ Elems(a) \subseteq Elems(l.s)
      /\ Rising(l.s) => Rising(a)
  BY <1>1, CutRising
<1>3. CASE l.last = 0 /\ l.s # << >>
  BY <1>1, <1>3 DEF Insert, Full
<1>4. CASE ~(l.last = 0 /\ l.s # << >>)
  <2> HIDE DEF a
  <2>1. L = [s |-> Append(a, f), last |-> l.last + 1]
    BY <1>4 DEF Insert, a
  <2>2. L.s = Append(a, f) /\ L.last = l.last + 1
    BY <2>1
  <2>3. /\ Append(a, f) \in Seq(Nat) /\ Elems(Append(a, f)) = Elems(a) \cup {f}
        /\ Len(Append(a, f)) = Len(a) + 1 /\ Append(a, f) # << >>
        /\ Rising(a) /\ Below(Elems(a), {f}) => Rising(Append(a, f))
    BY <1>2, AppendRising
  <2> HIDE DEF L
  <2>4. L \in OutList
    BY <1>1, <2>1, <2>3 DEF OutList
  <2>5. ListOK(L)
    BY <1>2, <2>2, <2>3, <2>4 DEF ListOK
  <2>6. Rising(l.s) /\ Below(Elems(l.s), {f}) => Rising(L.s)
    BY <1>2, <2>2, <2>3 DEF Below
  <2>7. ASSUME Full(l)
        PROVE  Full(L) /\ L.s = Append(l.s, f)
    <3>1. a = l.s
      BY <1>1, <2>7, SubSeqFull DEF Full, a
    <3> QED
      BY <1>1, <2>2, <2>3, <2>7, <3>1 DEF Full
  <2> QED
    BY <1>2, <2>2, <2>3, <2>5, <2>6, <2>7 DEF L
<1> QED
  BY <1>3, <1>4

\* A write cuts the list into what was written and what is left.
LEMMA ListWritten ==
    ASSUME NEW l, ListOK(l), NEW k \in 1..Len(l.s)
    PROVE  LET a == SubSeq(l.s, 1, k)
               w == Written(l, k)
           IN /\ ListOK(w) /\ a \in Seq(Nat) /\ Len(a) = k /\ a \o w.s = l.s
              /\ Elems(a) \subseteq Elems(l.s) /\ Elems(w.s) \subseteq Elems(l.s)
              /\ Rising(l.s) => Rising(a) /\ Rising(w.s) /\ Below(Elems(a), Elems(w.s))
              /\ Full(l) => Full(w)
              /\ w.s = << >> => w.last = 0
<1> DEFINE a == SubSeq(l.s, 1, k)
           b == SubSeq(l.s, k + 1, Len(l.s))
           w == Written(l, k)
<1>1. l.s \in Seq(Nat) /\ l.last \in Nat /\ l.last <= Len(l.s) /\ k \in 0..Len(l.s) /\ k \in Nat
      /\ Len(l.s) \in Nat
  BY DEF ListOK, OutList
<1>2. /\ a \in Seq(Nat) /\ b \in Seq(Nat) /\ a \o b = l.s
      /\ Len(a) = k /\ Len(b) = Len(l.s) - k
      /\ Elems(a) \subseteq Elems(l.s) /\ Elems(b) \subseteq Elems(l.s)
      /\ Rising(l.s) => Rising(a) /\ Rising(b) /\ Below(Elems(a), Elems(b))
  BY <1>1, CutRising
<1>3. w = [s |-> b, last |-> IF l.last > k /\ b # << >> THEN l.last - k ELSE 0]
  BY DEF Written
<1>4. w.s = b /\ w.last = (IF l.last > k /\ b # << >> THEN l.last - k ELSE 0)
  BY <1>3
<1> HIDE DEF a, b, w
<1>5. w.last \in Nat /\ w.last <= Len(b)
  <2>1. CASE l.last > k /\ b # << >>
    <3>1. w.last = l.last - k /\ Len(b) = Len(l.s) - k
      BY <1>2, <1>4, <2>1
    <3> QED
      BY <1>1, <2>1, <3>1
  <2>2. CASE ~(l.last > k /\ b # << >>)
    <3>1. w.last = 0 /\ Len(b) \in Nat
      BY <1>2, <1>4, <2>2
    <3> QED
      BY <3>1
  <2> QED
    BY <2>1, <2>2
<1>6. ListOK(w)
  <2>1. w \in OutList
    BY <1>2, <1>3, <1>4, <1>5 DEF OutList
  <2> QED
    BY <1>4, <1>5, <2>1 DEF ListOK
<1>7. Full(l) => Full(w)
  <2>1. Len(b) = 0 <=> b = << >>
    BY <1>2, LenZero
  <2> QED
    BY <1>1, <1>2, <1>4, <2>1 DEF Full
<1> QED
  BY <1>2, <1>4, <1>6, <1>7 DEF a, w

\* Putting an unwritten list back in front of newer frames keeps the order.
LEMMA ListMerge ==
    ASSUME NEW l, NEW new, ListOK(l), ListOK(new), l.s # << >>
    PROVE  LET m == Merge(l, new)
           IN /\ ListOK(m) /\ m.s # << >>
              /\ Elems(m.s) \subseteq Elems(l.s) \cup Elems(new.s)
              /\ Rising(l.s) /\ Rising(new.s) /\ Below(Elems(l.s), Elems(new.s)) => Rising(m.s)
              /\ new.s = << >> => m.s = l.s /\ m.last = l.last
<1> DEFINE k == IF l.last = 0 THEN 1 ELSE l.last
           a == SubSeq(l.s, 1, k)
           m == Merge(l, new)
<1>1. l.s \in Seq(Nat) /\ l.last \in Nat /\ l.last <= Len(l.s) /\ Len(l.s) \in Nat /\ Len(l.s) # 0
      /\ new.s \in Seq(Nat)
  BY DEF ListOK, OutList
<1>2. k \in 0..Len(l.s) /\ k # 0
  BY <1>1
<1>3. m = [s |-> IF new.s = << >> THEN l.s ELSE a \o new.s, last |-> l.last]
  BY DEF Merge
<1>4. l.last <= k
  BY <1>1
<1> HIDE DEF k
<1>5. /\ a \in Seq(Nat) /\ Len(a) = k /\ Elems(a) \subseteq Elems(l.s)
      /\ Rising(l.s) => Rising(a)
  BY <1>1, <1>2, CutRising
<1> HIDE DEF a, m
<1>6. m.last = l.last
  BY <1>3
<1>7. CASE new.s = << >>
  <2>1. m.s = l.s
    BY <1>3, <1>7
  <2>2. m \in OutList
    BY <1>1, <1>3, <1>7 DEF OutList
  <2>3. ListOK(m)
    BY <1>1, <1>6, <2>1, <2>2 DEF ListOK
  <2>4. /\ m.s # << >> /\ Elems(m.s) \subseteq Elems(l.s) \cup Elems(new.s)
        /\ Rising(l.s) => Rising(m.s)
    BY <2>1
  <2> QED
    BY <1>6, <2>1, <2>3, <2>4, Zenon DEF m
<1>8. CASE new.s # << >>
  <2>1. m.s = a \o new.s
    BY <1>3, <1>8
  <2>2. /\ a \o new.s \in Seq(Nat) /\ Elems(a \o new.s) = Elems(a) \cup Elems(new.s)
        /\ Rising(a) /\ Rising(new.s) /\ Below(Elems(a), Elems(new.s)) => Rising(a \o new.s)
    BY <1>1, <1>5, ConcatRising
  <2>3. Len(a \o new.s) = Len(a) + Len(new.s) /\ Len(new.s) \in Nat
    <3>1. a \in Seq(Nat) /\ new.s \in Seq(Nat)
      BY <1>1, <1>5
    <3> QED
      BY <3>1
  <2>4. ListOK(m) /\ m.s # << >>
    <3>1. m.s \in Seq(Nat) /\ Len(m.s) = k + Len(new.s)
      BY <1>5, <2>1, <2>2, <2>3
    <3>2. l.last <= Len(m.s) /\ Len(m.s) # 0
      BY <1>1, <1>2, <1>4, <2>3, <3>1
    <3>3. m \in OutList
      BY <1>1, <1>3, <1>8, <2>1, <3>1 DEF OutList
    <3> QED
      BY <1>6, <3>1, <3>2, <3>3 DEF ListOK
  <2>5. Rising(l.s) /\ Rising(new.s) /\ Below(Elems(l.s), Elems(new.s)) => Rising(m.s)
    BY <1>5, <2>1, <2>2 DEF Below
  <2> QED
    BY <1>5, <1>8, <2>1, <2>2, <2>4, <2>5 DEF m
<1> QED
  BY <1>7, <1>8

-----------------------------------------------------------------------------
(* Sums over the connections.                                              *)
Cells(f) == UNION {{c} \X (1..f[c]) : c \in Conns}

\* A total over the connections counts the cells of a finite set.
LEMMA TotalType ==
    ASSUME NEW f \in [Conns -> Nat]
    PROVE  IsFiniteSet(Cells(f)) /\ Total(f) = Cardinality(Cells(f)) /\ Total(f) \in Nat
<1> DEFINE col == [c \in Conns |-> {c} \X (1..f[c])]
           T == {col[c] : c \in Conns}
<1>1. IsFiniteSet(Conns)
  BY ThreadAssumption, FS_Interval DEF Conns
<1>2. \A c \in Conns : IsFiniteSet({c} \X (1..f[c]))
  <2> TAKE c \in Conns
  <2>1. IsFiniteSet(1..f[c])
    BY FS_Interval
  <2>2. IsFiniteSet({c})
    BY FS_Singleton
  <2> QED
    BY <2>1, <2>2, FS_Product
<1>3. IsFiniteSet(T)
  <2>1. col \in Surjection(Conns, T)
    BY DEF Surjection
  <2> QED
    BY <1>1, <2>1, FS_Surjection
<1>4. T = {{c} \X (1..f[c]) : c \in Conns}
  OBVIOUS
<1>5. \A x \in T : IsFiniteSet(x)
  BY <1>2, <1>4
<1>6. IsFiniteSet(Cells(f))
  BY <1>3, <1>4, <1>5, FS_UNION DEF Cells
<1> QED
  BY <1>6, FS_CardinalityType DEF Total, Cells

\* Adding k on one connection adds k to the sum.
LEMMA TotalPlus ==
    ASSUME NEW f \in [Conns -> Nat], NEW g \in [Conns -> Nat], NEW c \in Conns, NEW k \in Nat,
           g[c] = f[c] + k, \A d \in Conns : d # c => g[d] = f[d]
    PROVE  Total(g) = Total(f) + k
<1> DEFINE new == (f[c] + 1)..(f[c] + k)
           add == {c} \X new
<1>1. Cells(g) = Cells(f) \cup add
  <2>1. ASSUME NEW x
        PROVE  x \in Cells(g) <=> x \in Cells(f) \cup add
    <3>1. x \in Cells(g) <=> \E d \in Conns : x \in {d} \X (1..g[d])
      BY DEF Cells
    <3>2. x \in Cells(f) <=> \E d \in Conns : x \in {d} \X (1..f[d])
      BY DEF Cells
    <3>3. x \in {c} \X (1..g[c]) <=> x \in {c} \X (1..f[c]) \/ x \in add
      <4>1. 1..g[c] = (1..f[c]) \cup new
        OBVIOUS
      <4> HIDE DEF new
      <4> QED
        BY <4>1
    <3>4. \A d \in Conns : d # c => (x \in {d} \X (1..g[d]) <=> x \in {d} \X (1..f[d]))
      OBVIOUS
    <3> HIDE DEF add
    <3> QED
      BY <3>1, <3>2, <3>3, <3>4
  <2> QED
    BY <2>1
<1>2. Cells(f) \cap add = {}
  <2> SUFFICES ASSUME NEW x \in Cells(f), x \in add PROVE FALSE
    OBVIOUS
  <2>1. PICK d \in Conns : x \in {d} \X (1..f[d])
    BY DEF Cells
  <2>2. x[1] = d /\ x[1] = c /\ x[2] \in 1..f[d] /\ x[2] \in new
    BY <2>1
  <2> QED
    BY <2>2
<1>3. IsFiniteSet(add) /\ Cardinality(add) = k
  <2>1. IsFiniteSet(new) /\ Cardinality(new) = k
    <3>1. f[c] + 1 \in Int /\ f[c] + k \in Int
      OBVIOUS
    <3>2. IsFiniteSet(new) /\ Cardinality(new) = IF f[c] + 1 > f[c] + k THEN 0
                                                 ELSE (f[c] + k) - (f[c] + 1) + 1
      BY <3>1, FS_Interval
    <3> QED
      BY <3>2
  <2>2. IsFiniteSet({c}) /\ Cardinality({c}) = 1
    BY FS_Singleton
  <2> HIDE DEF new
  <2>3. IsFiniteSet(add) /\ Cardinality(add) = Cardinality({c}) * Cardinality(new)
    BY <2>1, <2>2, FS_Product
  <2> QED
    BY <2>1, <2>2, <2>3
<1> HIDE DEF add
<1>4. IsFiniteSet(Cells(f)) /\ Cardinality(Cells(f)) \in Nat
  BY TotalType
<1>5. Cardinality(Cells(f) \cup add) = Cardinality(Cells(f)) + Cardinality(add) - Cardinality(Cells(f) \cap add)
  BY <1>3, <1>4, FS_Union
<1>6. Cardinality({}) = 0
  BY FS_EmptySet
<1>7. Cardinality(Cells(g)) = Cardinality(Cells(f)) + k
  BY <1>1, <1>2, <1>3, <1>4, <1>5, <1>6
<1>8. Total(f) = Cardinality(Cells(f)) /\ Total(g) = Cardinality(Cells(g))
  BY DEF Total, Cells
<1> QED
  BY <1>7, <1>8

-----------------------------------------------------------------------------
(* Types and the shape of the handlers.                                    *)
WHandler == [pc : {"idle", "top", "write", "acct", "bcast", "stop"},
             c : 0..NConns, removed : Nat, ol : OutList]

SendersOK == /\ spc \in [Senders -> {"idle", "look", "lock", "wait", "insert", "count"}]
             /\ sconn \in [Senders -> Conns] /\ calls \in [Senders -> 0..MaxSends]
ListsOK == ol \in [Conns -> OutList] /\ \A c \in Conns : ListOK(ol[c])
FlagsOK == /\ cwriting \in [Conns -> {0, 1}] /\ zombie \in [Conns -> BOOLEAN]
           /\ writing \in {0, STOP_OP} /\ sndqsz \in Int /\ wantWcond \in {0, 1}
           /\ room \in [Conns -> 0..Room] /\ closed \in [Conns -> BOOLEAN]
HistoryOK == /\ acc \in [Conns -> Nat] /\ wire \in [Conns -> Seq(Nat)]
             /\ skipped \in Nat /\ spliced \in [Conns -> BOOLEAN]

\* A running handler serves a connection of its own thread and holds frames
\* only while it writes.
HandlerOK(t, h) ==
    /\ h \in WHandler
    /\ IF h.pc = "idle" THEN h = NoHandler
       ELSE /\ h.c \in Conns /\ ThrOf[h.c] = t /\ ListOK(h.ol)
            /\ h.pc = "write" <=> h.ol.s # << >>
HandlersOK == wh \in [Threads -> WHandler] /\ \A t \in Threads : HandlerOK(t, wh[t])

Shaped == SendersOK /\ ListsOK /\ FlagsOK /\ HistoryOK /\ HandlersOK

\* The empty list and the idle handler have the types they are used with.
LEMMA EmptyShapes ==
    /\ EmptyList \in OutList /\ ListOK(EmptyList) /\ Full(EmptyList) /\ EmptyList.s = << >>
    /\ NoHandler \in WHandler /\ \A t \in Threads : HandlerOK(t, NoHandler)
    /\ NoHandler.pc = "idle" /\ NoHandler.c = 0 /\ NoHandler.removed = 0 /\ NoHandler.ol = EmptyList
    /\ 0 \notin Conns
<1>1. EmptyList \in OutList /\ EmptyList.s = << >> /\ EmptyList.last = 0
  BY DEF EmptyList, OutList
<1>2. ListOK(EmptyList) /\ Full(EmptyList)
  BY <1>1 DEF ListOK, Full
<1>3. NoHandler \in WHandler
  BY <1>1, ThreadAssumption DEF NoHandler, WHandler
<1>4. NoHandler.pc = "idle" /\ NoHandler.c = 0 /\ NoHandler.removed = 0 /\ NoHandler.ol = EmptyList
  BY DEF NoHandler
<1> QED
  BY <1>1, <1>2, <1>3, <1>4, ThreadAssumption DEF HandlerOK, Conns

\* A handler moves on to h.
LEMMA HandlerMoves ==
    ASSUME HandlersOK, NEW t \in Threads, NEW h, HandlerOK(t, h), wh' = [wh EXCEPT ![t] = h]
    PROVE  HandlersOK' /\ wh'[t] = h /\ \A v \in Threads : v # t => wh'[v] = wh[v]
<1>1. h \in WHandler /\ wh \in [Threads -> WHandler]
  BY DEF HandlerOK, HandlersOK
<1>2. wh' \in [Threads -> WHandler] /\ wh'[t] = h /\ \A v \in Threads : v # t => wh'[v] = wh[v]
  BY <1>1
<1>3. \A v \in Threads : HandlerOK(v, wh'[v])
  BY <1>2 DEF HandlersOK
<1>4. HandlersOK' <=> wh' \in [Threads -> WHandler] /\ \A v \in Threads : HandlerOK(v, wh'[v])
  BY DEF HandlersOK, HandlerOK
<1> QED
  BY <1>2, <1>3, <1>4

-----------------------------------------------------------------------------
(* What each step of the write handler does to its locals.                 *)
LEMMA Serving ==
    ASSUME Shaped, NEW t \in Threads, wh[t].pc # "idle"
    PROVE  /\ wh[t].c \in Conns /\ ThrOf[wh[t].c] = t /\ ListOK(wh[t].ol)
           /\ wh[t] \in WHandler /\ wh[t].removed \in Nat /\ wh[t].ol \in OutList
           /\ wh[t].pc = "write" <=> wh[t].ol.s # << >>
           /\ wh \in [Threads -> WHandler] /\ HandlersOK
  BY DEF Shaped, HandlersOK, HandlerOK, WHandler

\* A handler begins with nothing taken and nothing removed.
LEMMA ReadyStep ==
    ASSUME Shaped, NEW c \in Conns, WriteReady(c)
    PROVE  /\ wh[ThrOf[c]] = NoHandler
           /\ \E h : /\ HandlerOK(ThrOf[c], h) /\ wh' = [wh EXCEPT ![ThrOf[c]] = h]
                     /\ h.pc = "top" /\ h.c = c /\ h.removed = 0 /\ h.ol.s = << >>
<1> DEFINE t == ThrOf[c]
           h == [NoHandler EXCEPT !.pc = "top", !.c = c]
<1>1. t \in Threads
  BY ThreadAssumption
<1>2. wh[t] = NoHandler /\ wh' = [wh EXCEPT ![t] = h]
  <2>1. wh[t].pc = "idle" /\ wh' = [wh EXCEPT ![t] = h]
    BY DEF WriteReady, Idle
  <2>2. HandlerOK(t, wh[t])
    BY <1>1 DEF Shaped, HandlersOK
  <2> QED
    BY <2>1, <2>2 DEF HandlerOK
<1>3. c \in 0..NConns
  BY ThreadAssumption DEF Conns
<1>4. h.pc = "top" /\ h.c = c /\ h.removed = 0 /\ h.ol = EmptyList
  BY EmptyShapes DEF WHandler
<1>5. h \in WHandler
  BY <1>3, EmptyShapes DEF WHandler
<1> HIDE DEF h
<1>6. HandlerOK(t, h)
  BY <1>4, <1>5, EmptyShapes DEF HandlerOK
<1> QED
  BY <1>2, <1>4, <1>6, EmptyShapes

\* At its top a handler takes the whole list, or finds it empty and goes to account or to
\* stop.
LEMMA TopStep ==
    ASSUME Shaped, NEW t \in Threads, WriteTop(t), NEW c, c = wh[t].c
    PROVE  \E h : /\ HandlerOK(t, h) /\ wh' = [wh EXCEPT ![t] = h]
                  /\ h.c = c /\ h.removed = wh[t].removed
                  /\ \/ /\ ol' = ol /\ h.ol = wh[t].ol
                        /\ h.pc = "acct" \/ (h.pc = "stop" /\ h.removed = 0)
                     \/ /\ ol[c].s # << >> /\ h.ol = ol[c] /\ h.pc = "write"
                        /\ ol' = [ol EXCEPT ![c] = EmptyList]
<1>0. wh[t].pc = "top"
  BY DEF WriteTop
<1>1. /\ c \in Conns /\ ThrOf[c] = t /\ ListOK(wh[t].ol) /\ wh[t].ol.s = << >>
      /\ wh[t] \in WHandler /\ wh \in [Threads -> WHandler] /\ wh[t].removed \in Nat
  BY <1>0, Serving
<1>2. CASE Drained(c)
  <2> DEFINE p == IF Settles(wh[t].removed) THEN "acct" ELSE "stop"
             h == [wh[t] EXCEPT !.pc = p]
  <2>1. wh' = [wh EXCEPT ![t] = h] /\ ol' = ol
    BY <1>1, <1>2 DEF WriteTop
  <2>2. p \in {"acct", "stop"} /\ (p = "acct" \/ (p = "stop" /\ wh[t].removed = 0))
    BY <1>1 DEF Settles
  <2> HIDE DEF p
  <2>3. h \in WHandler /\ h.pc = p /\ h.c = c /\ h.ol = wh[t].ol /\ h.removed = wh[t].removed
    BY <1>1, <2>2 DEF WHandler
  <2> HIDE DEF h
  <2>4. HandlerOK(t, h)
    BY <1>1, <2>2, <2>3 DEF HandlerOK
  <2> QED
    BY <2>1, <2>2, <2>3, <2>4
<1>3. CASE ~Drained(c)
  <2> DEFINE h == [wh[t] EXCEPT !.pc = "write", !.ol = ol[c]]
  <2>1. wh' = [wh EXCEPT ![t] = h] /\ ol' = [ol EXCEPT ![c] = EmptyList]
    BY <1>1, <1>3 DEF WriteTop, LeftBehind
  <2>2. ol[c] \in OutList /\ ListOK(ol[c]) /\ ol[c].s # << >>
    BY <1>1, <1>3 DEF Shaped, ListsOK, Drained
  <2>3. h \in WHandler /\ h.pc = "write" /\ h.c = c /\ h.ol = ol[c] /\ h.removed = wh[t].removed
    BY <1>1, <2>2 DEF WHandler
  <2> HIDE DEF h
  <2>4. HandlerOK(t, h)
    BY <1>1, <2>2, <2>3 DEF HandlerOK
  <2> QED
    BY <2>1, <2>2, <2>3, <2>4
<1> QED
  BY <1>2, <1>3

\* writev has taken k frames of the list l of connection c, and left h.
Wrote(t, c, l, k, h) ==
    /\ k \in Nat /\ k <= room[c]
    /\ room' = [room EXCEPT ![c] = @ - k]
    /\ wire' = [wire EXCEPT ![c] = @ \o SubSeq(l.s, 1, k)]
    /\ HandlerOK(t, h) /\ wh' = [wh EXCEPT ![t] = h]
    /\ h.c = c /\ h.removed = wh[t].removed + k
    /\ h.ol = Written(l, k) /\ h.pc \in {"top", "write"}

\* A write takes a nonempty part of the list to the wire.
LEMMA WritevStep ==
    ASSUME Shaped, NEW t \in Threads, Writev(t), NEW c, c = wh[t].c, NEW l, l = wh[t].ol
    PROVE  \E k \in 1..Len(l.s) : \E h : Wrote(t, c, l, k, h)
<1>0. wh[t].pc = "write"
  BY DEF Writev
<1>1. /\ c \in Conns /\ ThrOf[c] = t /\ ListOK(l)
      /\ wh[t] \in WHandler /\ wh \in [Threads -> WHandler] /\ wh[t].removed \in Nat
  BY <1>0, Serving
<1>2. PICK k \in 1..Len(l.s) :
         /\ k <= room[c] /\ room' = [room EXCEPT ![c] = @ - k]
         /\ wire' = [wire EXCEPT ![c] = @ \o SubSeq(l.s, 1, k)]
         /\ wh' = [wh EXCEPT ![t].removed = @ + k, ![t].ol = Written(l, k),
                             ![t].pc = IF Written(l, k).s = << >> THEN "top" ELSE "write"]
  BY DEF Writev
<1> DEFINE w == Written(l, k)
           p == IF w.s = << >> THEN "top" ELSE "write"
           h == [wh[t] EXCEPT !.removed = @ + k, !.ol = w, !.pc = p]
<1>3. k \in Nat
  OBVIOUS
<1>4. ListOK(w) /\ w \in OutList
  BY <1>1, ListWritten DEF ListOK
<1> HIDE DEF w
<1>5. wh' = [wh EXCEPT ![t] = h]
  BY <1>1, <1>2 DEF w
<1>6. p \in {"top", "write"} /\ (p = "write" <=> w.s # << >>)
  OBVIOUS
<1> HIDE DEF p
<1>7. h \in WHandler /\ h.pc = p /\ h.c = c /\ h.ol = w /\ h.removed = wh[t].removed + k
  <2>1. PICK r \in Nat : r = wh[t].removed + k
    BY <1>1, <1>3
  <2>2. h = [wh[t] EXCEPT !.removed = r, !.ol = w, !.pc = p]
    BY <1>1, <2>1 DEF WHandler
  <2> HIDE DEF h
  <2> QED
    BY <1>1, <1>4, <1>6, <2>1, <2>2 DEF WHandler
<1> HIDE DEF h
<1>8. HandlerOK(t, h)
  BY <1>1, <1>4, <1>6, <1>7 DEF HandlerOK
<1> QED
  BY <1>2, <1>3, <1>5, <1>6, <1>7, <1>8 DEF w, Wrote

\* After EAGAIN the handler returns, or goes to its top with what it has removed so far.
LEMMA AgainStep ==
    ASSUME Shaped, NEW t \in Threads, WriteAgain(t), NEW c, c = wh[t].c
    PROVE  \E h : /\ HandlerOK(t, h) /\ wh' = [wh EXCEPT ![t] = h]
                  /\ \/ h = NoHandler /\ wh[t].removed = 0
                     \/ h.pc = "top" /\ h.c = c /\ h.removed = wh[t].removed
                  /\ h.ol.s = << >>
<1>0. wh[t].pc = "write"
  BY DEF WriteAgain
<1>1. /\ c \in Conns /\ ThrOf[c] = t /\ wh[t] \in WHandler /\ wh \in [Threads -> WHandler]
  BY <1>0, Serving
<1>2. CASE wh[t].removed = 0
  <2>1. wh' = [wh EXCEPT ![t] = NoHandler]
    BY <1>1, <1>2 DEF WriteAgain
  <2> QED
    BY <1>2, <2>1, EmptyShapes
<1>3. CASE wh[t].removed # 0
  <2> DEFINE h == [wh[t] EXCEPT !.pc = "top", !.ol = EmptyList]
  <2>1. wh' = [wh EXCEPT ![t] = h]
    BY <1>1, <1>3 DEF WriteAgain
  <2>2. /\ h \in WHandler /\ h.pc = "top" /\ h.c = c /\ h.ol = EmptyList
        /\ h.removed = wh[t].removed
    BY <1>1, EmptyShapes DEF WHandler
  <2> HIDE DEF h
  <2>3. HandlerOK(t, h)
    BY <1>1, <2>2, EmptyShapes DEF HandlerOK
  <2> QED
    BY <2>1, <2>2, <2>3, EmptyShapes
<1> QED
  BY <1>2, <1>3

\* The error path, the account, the broadcast and the end.
LEMMA ErrorStep ==
    ASSUME Shaped, NEW t \in Threads, WriteError(t), NEW c, c = wh[t].c
    PROVE  \E h : /\ HandlerOK(t, h) /\ wh' = [wh EXCEPT ![t] = h]
                  /\ h.pc = "stop" /\ h.c = c /\ h.ol.s = << >>
<1>0. wh[t].pc = "write"
  BY DEF WriteError
<1>1. /\ c \in Conns /\ ThrOf[c] = t /\ wh[t] \in WHandler /\ wh \in [Threads -> WHandler]
  BY <1>0, Serving
<1> DEFINE h == [wh[t] EXCEPT !.pc = "stop", !.ol = EmptyList]
<1>2. wh' = [wh EXCEPT ![t] = h]
  BY <1>1 DEF WriteError
<1>3. h \in WHandler /\ h.pc = "stop" /\ h.c = c /\ h.ol = EmptyList
  BY <1>1, EmptyShapes DEF WHandler
<1> HIDE DEF h
<1>4. HandlerOK(t, h)
  BY <1>1, <1>3, EmptyShapes DEF HandlerOK
<1> QED
  BY <1>2, <1>3, <1>4, EmptyShapes

\* Accounting and broadcast change only the position of the handler.
LEMMA SettleStep ==
    ASSUME Shaped, NEW t \in Threads, WriteAcct(t) \/ WriteBroadcast(t), NEW c, c = wh[t].c
    PROVE  \E h : /\ HandlerOK(t, h) /\ wh' = [wh EXCEPT ![t] = h]
                  /\ h.pc \in {"bcast", "stop"} /\ h.c = c /\ h.ol = wh[t].ol /\ h.ol.s = << >>
<1>0. wh[t].pc \in {"acct", "bcast"}
  BY DEF WriteAcct, WriteBroadcast
<1>1. /\ c \in Conns /\ ThrOf[c] = t /\ wh[t] \in WHandler /\ wh \in [Threads -> WHandler]
      /\ ListOK(wh[t].ol) /\ wh[t].ol.s = << >>
  BY <1>0, Serving
<1>2. PICK p \in {"bcast", "stop"} : wh' = [wh EXCEPT ![t].pc = p]
  BY DEF WriteAcct, WriteBroadcast
<1> DEFINE h == [wh[t] EXCEPT !.pc = p]
<1>3. wh' = [wh EXCEPT ![t] = h]
  BY <1>1, <1>2
<1>4. h \in WHandler /\ h.pc = p /\ h.c = c /\ h.ol = wh[t].ol
  BY <1>1, <1>2 DEF WHandler
<1> HIDE DEF h
<1>5. HandlerOK(t, h)
  BY <1>1, <1>2, <1>4 DEF HandlerOK
<1> QED
  BY <1>1, <1>2, <1>3, <1>4, <1>5

\* The steps of a sender keep the types and the shape of its locals.
LEMMA ShapedSender ==
    ASSUME Shaped, NEW s \in Senders,
           Sends(s) \/ SpuriousWakeup(s) \/ SendNoMem(s) \/ \E c \in Conns : SendCall(s, c)
    PROVE  Shaped'
<1> USE DEF sendVars, sockVars, netVars, history
<1>0. SendersOK /\ ListsOK /\ FlagsOK /\ HistoryOK /\ HandlersOK
  BY DEF Shaped
<1>1. ASSUME NEW c \in Conns, SendCall(s, c)
      PROVE  Shaped'
  <2>1. SendersOK'
    BY <1>0, <1>1, SendAssumption DEF SendCall, SendersOK
  <2> QED
    BY <1>0, <1>1, <2>1 DEF SendCall, Shaped, ListsOK, FlagsOK, HistoryOK, HandlersOK
<1>2. CASE SendLook(s) \/ SendNoMem(s) \/ SendWait(s) \/ SpuriousWakeup(s)
  <2>1. SendersOK'
    BY <1>0, <1>2 DEF SendWait, SpuriousWakeup, SendLook, SendNoMem, SendersOK
  <2>2. FlagsOK'
    BY <1>0, <1>2 DEF SendWait, SpuriousWakeup, SendLook, SendNoMem, FlagsOK
  <2> QED
    BY <1>0, <1>2, <2>1, <2>2 DEF SendWait, SpuriousWakeup, SendLook, SendNoMem, Shaped, ListsOK, HistoryOK, HandlersOK
<1>3. CASE SendInsert(s)
  <2> DEFINE c == sconn[s]
  <2>1. /\ cwriting' = [cwriting EXCEPT ![c] = 1] /\ ol' = [ol EXCEPT ![c] = Insert(@, acc[c] + 1)]
        /\ acc' = [acc EXCEPT ![c] = @ + 1] /\ spc' = [spc EXCEPT ![s] = "count"]
        /\ UNCHANGED <<sconn, calls, zombie, wh, sockVars, netVars, wire, skipped, spliced>>
    BY <1>3 DEF SendInsert, MarkWriting
  <2>2. c \in Conns
    BY <1>0 DEF SendersOK
  <2> HIDE DEF c
  <2>3. SendersOK'
    BY <1>0, <2>1 DEF SendersOK
  <2>4. ListsOK'
    <3>1. acc[c] + 1 \in Nat /\ ListOK(ol[c])
      BY <1>0, <2>2 DEF HistoryOK, ListsOK
    <3>2. ListOK(Insert(ol[c], acc[c] + 1))
      BY <3>1, ListInsert
    <3>3. Insert(ol[c], acc[c] + 1) \in OutList
      BY <3>2 DEF ListOK
    <3>4. /\ ol' \in [Conns -> OutList] /\ ol'[c] = Insert(ol[c], acc[c] + 1)
          /\ \A d \in Conns : d # c => ol'[d] = ol[d]
      BY <1>0, <2>1, <2>2, <3>3 DEF ListsOK
    <3>5. \A d \in Conns : ListOK(ol'[d])
      BY <1>0, <3>2, <3>4 DEF ListsOK
    <3> QED
      BY <3>4, <3>5 DEF ListsOK, ListOK
  <2>5. FlagsOK'
    BY <1>0, <2>1 DEF FlagsOK
  <2>6. HistoryOK'
    BY <1>0, <2>1, <2>2 DEF HistoryOK
  <2> QED
    BY <1>0, <2>1, <2>3, <2>4, <2>5, <2>6 DEF Shaped, HandlersOK
<1>4. CASE SendCount(s)
  <2>1. SendersOK'
    BY <1>0, <1>4 DEF SendCount, SendersOK
  <2>2. FlagsOK'
    BY <1>0, <1>4 DEF SendCount, FlagsOK
  <2> QED
    BY <1>0, <1>4, <2>1, <2>2 DEF SendCount, Shaped, ListsOK, HistoryOK, HandlersOK
<1> QED
  BY <1>1, <1>2, <1>3, <1>4 DEF Sends

\* So do the steps of a write handler.
LEMMA ShapedHandler ==
    ASSUME Shaped, NEW t \in Threads, WriteHandler(t)
    PROVE  Shaped'
<1> USE DEF sendVars, sockVars, netVars, history
<1>0. SendersOK /\ ListsOK /\ FlagsOK /\ HistoryOK /\ HandlersOK
  BY DEF Shaped
<1>a. PICK c \in Conns : c = wh[t].c /\ ListOK(wh[t].ol) /\ wh[t].removed \in Nat
                        /\ (wh[t].pc = "write" <=> wh[t].ol.s # << >>)
  <2>1. wh[t].pc # "idle"
    BY DEF WriteHandler, WriteTop, Writev, WriteAgain, WriteError, WriteAcct, WriteBroadcast,
           WriteStop
  <2> QED
    BY <2>1, Serving
<1>1. PICK l : c = wh[t].c /\ l = wh[t].ol /\ ListOK(l) /\ wh[t].removed \in Nat
               /\ (wh[t].pc = "write" <=> l.s # << >>)
  BY <1>a
<1>2. ASSUME NEW h, HandlerOK(t, h), wh' = [wh EXCEPT ![t] = h]
      PROVE  HandlersOK'
  BY <1>0, <1>2, HandlerMoves
<1>3. ASSUME NEW x, ListOK(x), ol' = [ol EXCEPT ![c] = x]
      PROVE  ListsOK'
  <2>1. x \in OutList
    BY <1>3 DEF ListOK
  <2>2. ol' \in [Conns -> OutList] /\ ol'[c] = x /\ \A d \in Conns : d # c => ol'[d] = ol[d]
    BY <1>0, <1>3, <2>1 DEF ListsOK
  <2>3. \A d \in Conns : ListOK(ol'[d])
    BY <1>0, <1>3, <2>2 DEF ListsOK
  <2> QED
    BY <2>2, <2>3 DEF ListsOK, ListOK
<1>4. CASE WriteTop(t)
  <2>1. HandlersOK'
    BY <1>1, <1>2, <1>4, TopStep
  <2>2. ol' = ol \/ ol' = [ol EXCEPT ![c] = EmptyList]
    BY <1>1, <1>4 DEF WriteTop, LeftBehind
  <2>3. ListsOK'
    BY <1>0, <1>3, <2>2, EmptyShapes DEF ListsOK
  <2> QED
    BY <1>0, <1>4, <2>1, <2>3 DEF WriteTop, Shaped, SendersOK, FlagsOK, HistoryOK
<1>5. CASE Writev(t)
  <2>a. PICK k \in 1..Len(l.s) : \E h : Wrote(t, c, l, k, h)
    BY <1>1, <1>5, WritevStep
  <2>0. PICK h : Wrote(t, c, l, k, h)
    BY <2>a
  <2>1. /\ k \in Nat /\ k <= room[c]
        /\ room' = [room EXCEPT ![c] = @ - k]
        /\ wire' = [wire EXCEPT ![c] = @ \o SubSeq(l.s, 1, k)]
        /\ HandlerOK(t, h) /\ wh' = [wh EXCEPT ![t] = h]
    BY <2>0 DEF Wrote
  <2>2. HandlersOK'
    BY <1>2, <2>1
  <2>3. room' \in [Conns -> 0..Room]
    BY <1>0, <2>1, SendAssumption DEF FlagsOK
  <2>4. wire' \in [Conns -> Seq(Nat)]
    <3>1. SubSeq(l.s, 1, k) \in Seq(Nat)
      BY <1>1, <2>1, ListWritten
    <3>2. wire[c] \o SubSeq(l.s, 1, k) \in Seq(Nat)
      BY <1>0, <3>1 DEF HistoryOK
    <3> QED
      BY <1>0, <2>1, <3>2 DEF HistoryOK
  <2>5. UNCHANGED <<sendVars, ol, cwriting, zombie, sockVars, closed, acc, skipped, spliced>>
    BY <1>5 DEF Writev
  <2>6. FlagsOK' /\ HistoryOK'
    BY <1>0, <2>3, <2>4, <2>5 DEF FlagsOK, HistoryOK
  <2> QED
    BY <1>0, <2>2, <2>5, <2>6 DEF Shaped, SendersOK, ListsOK
<1>6. CASE WriteAgain(t)
  <2>1. HandlersOK'
    BY <1>1, <1>2, <1>6, AgainStep
  <2>2. /\ ol' = [ol EXCEPT ![c] = Merge(l, ol[c])]
        /\ spliced' = [spliced EXCEPT ![c] = @ \/ ol[c].s # << >>] /\ l.s # << >>
        /\ UNCHANGED <<sendVars, cwriting, zombie, sockVars, netVars, acc, wire, skipped>>
    BY <1>1, <1>6 DEF WriteAgain
  <2>3. ListsOK'
    <3>1. ListOK(Merge(l, ol[c]))
      BY <1>0, <1>1, <2>2, ListMerge DEF ListsOK
    <3> QED
      BY <1>3, <2>2, <3>1
  <2>4. spliced' \in [Conns -> BOOLEAN]
    <3>1. PICK b \in BOOLEAN : b = (spliced[c] \/ ol[c].s # << >>)
      OBVIOUS
    <3>2. spliced' = [spliced EXCEPT ![c] = b]
      BY <2>2, <3>1
    <3> QED
      BY <1>0, <3>2 DEF HistoryOK
  <2> QED
    BY <1>0, <2>1, <2>2, <2>3, <2>4 DEF Shaped, SendersOK, FlagsOK, HistoryOK
<1>7. CASE WriteError(t)
  <2>1. HandlersOK'
    BY <1>1, <1>2, <1>7, ErrorStep
  <2>2. /\ skipped' = skipped + wh[t].removed /\ spliced' = [spliced EXCEPT ![c] = TRUE]
        /\ UNCHANGED <<sendVars, ol, cwriting, zombie, sockVars, netVars, acc, wire>>
    BY <1>1, <1>7 DEF WriteError
  <2>3. skipped' \in Nat /\ spliced' \in [Conns -> BOOLEAN]
    <3>1. skipped' \in Nat
      BY <1>0, <1>1, <2>2 DEF HistoryOK
    <3>2. spliced' \in [Conns -> BOOLEAN]
      BY <1>0, <2>2 DEF HistoryOK
    <3> QED
      BY <3>1, <3>2
  <2> QED
    BY <1>0, <2>1, <2>2, <2>3 DEF Shaped, SendersOK, ListsOK, FlagsOK, HistoryOK
<1>8. CASE WriteAcct(t)
  <2>1. HandlersOK'
    BY <1>1, <1>2, <1>8, SettleStep
  <2>2. /\ sndqsz' = sndqsz - wh[t].removed /\ writing' \in {0, writing} /\ wantWcond' \in {0, wantWcond}
        /\ UNCHANGED <<sendVars, ol, cwriting, zombie, netVars, history>>
    BY <1>8 DEF WriteAcct
  <2>3. FlagsOK'
    BY <1>0, <1>1, <2>2 DEF FlagsOK
  <2> QED
    BY <1>0, <2>1, <2>2, <2>3 DEF Shaped, SendersOK, ListsOK, HistoryOK
<1>9. CASE WriteBroadcast(t)
  <2>1. HandlersOK'
    BY <1>1, <1>2, <1>9, SettleStep
  <2>2. SendersOK'
    BY <1>0, <1>9 DEF WriteBroadcast, SendersOK
  <2> QED
    BY <1>0, <1>9, <2>1, <2>2 DEF WriteBroadcast, Shaped, ListsOK, FlagsOK, HistoryOK
<1>10. CASE WriteStop(t)
  <2>1. HandlersOK'
    BY <1>2, <1>10, EmptyShapes DEF WriteStop
  <2>2. /\ cwriting' = [cwriting EXCEPT ![c] = 0]
        /\ UNCHANGED <<sendVars, ol, zombie, sockVars, netVars, history>>
    BY <1>1, <1>10 DEF WriteStop
  <2>3. FlagsOK'
    BY <1>0, <2>2 DEF FlagsOK
  <2> QED
    BY <1>0, <2>1, <2>2, <2>3 DEF Shaped, SendersOK, ListsOK, HistoryOK
<1> QED
  BY <1>4, <1>5, <1>6, <1>7, <1>8, <1>9, <1>10 DEF WriteHandler

\* So do readiness, closing and the peers.
LEMMA ShapedRest ==
    ASSUME Shaped, NEW c \in Conns,
           WriteReady(c) \/ CloseConn(c) \/ PeerReads(c) \/ PeerCloses(c)
    PROVE  Shaped'
<1> USE DEF sendVars, sockVars, netVars, history
<1>0. SendersOK /\ ListsOK /\ FlagsOK /\ HistoryOK /\ HandlersOK
  BY DEF Shaped
<1>1. CASE WriteReady(c)
  <2>1. ThrOf[c] \in Threads
    BY ThreadAssumption
  <2>2. HandlersOK'
    BY <1>0, <1>1, <2>1, ReadyStep, HandlerMoves
  <2> QED
    BY <1>0, <1>1, <2>2 DEF WriteReady, Shaped, SendersOK, ListsOK, FlagsOK, HistoryOK
<1>2. CASE CloseConn(c) \/ PeerReads(c) \/ PeerCloses(c)
  <2>1. zombie' \in [Conns -> BOOLEAN] /\ closed' \in [Conns -> BOOLEAN]
    BY <1>0, <1>2 DEF FlagsOK, CloseConn, PeerReads, PeerCloses
  <2>2. room' \in [Conns -> 0..Room]
    BY <1>0, <1>2, SendAssumption DEF FlagsOK, CloseConn, PeerReads, PeerCloses
  <2>3. UNCHANGED <<sendVars, ol, cwriting, wh, sockVars, history>>
    BY <1>2 DEF CloseConn, PeerReads, PeerCloses
  <2> QED
    BY <1>0, <2>1, <2>2, <2>3 DEF Shaped, SendersOK, ListsOK, FlagsOK, HistoryOK, HandlersOK
<1> QED
  BY <1>1, <1>2

\* Every step does.
LEMMA ShapedNext ==
    ASSUME Shaped, [Next]_vars
    PROVE  Shaped'
<1>1. ASSUME UNCHANGED <<sendVars, ol, cwriting, zombie, wh, sockVars, netVars, history>>
      PROVE  Shaped'
  BY <1>1 DEF sendVars, sockVars, netVars, history, Shaped, SendersOK, ListsOK, FlagsOK,
              HistoryOK, HandlersOK
<1>2. ASSUME NEW t \in Threads, Async(t) \/ Run(t)
      PROVE  Shaped'
  BY <1>1, <1>2 DEF Async, Run
<1>3. CASE UNCHANGED vars
  BY <1>1, <1>3 DEF vars
<1> QED
  BY <1>2, <1>3, ShapedSender, ShapedHandler, ShapedRest DEF Next

-----------------------------------------------------------------------------
(* The write watchers: who writes a connection.                            *)
WriteTask(c) == <<c, "START_WRITE">>

\* At most one of three holds of a connection: its task is queued, its watcher
\* is on; its handler runs only with the watcher on; and without conn->writing
\* there is none of them.
WriterOK(c) ==
    /\ cwriting[c] = 0 => ~IsInQueue(c, "START_WRITE") /\ ~wio[c]
    /\ IsInQueue(c, "START_WRITE") => ~wio[c]
    /\ wh[ThrOf[c]].c = c => wio[c]

Threaded == ThreadInv /\ ~bulk.on /\ \A t \in Threads : life[t] = "runs"
Writers == Threaded /\ \A c \in Conns : WriterOK(c)

\* Nothing but a handler's locals changed, and no handler began.
LEMMA WritersKeep ==
    ASSUME Writers, UNCHANGED <<threadVars, cwriting>>,
           \A c \in Conns : wh'[ThrOf[c]].c = c => wh[ThrOf[c]].c = c
    PROVE  Writers'
<1>1. Keeps
  BY KeepsIdle DEF Writers, Threaded, ThreadInv, ThreadTypeOK, threadVars
<1>2. \A c \in Conns : WriterOK(c)'
  BY DEF Writers, WriterOK, IsInQueue, threadVars
<1> QED
  BY <1>1, <1>2 DEF Writers, Threaded, Keeps, threadVars

\* An insert pushes the write task only where conn->writing shows that it is not queued.
LEMMA WritersInsert ==
    ASSUME Shaped, Writers, NEW s \in Senders, SendInsert(s)
    PROVE  Writers'
<1> DEFINE x(d) == <<d, "START_WRITE">>
<1>1. PICK c \in Conns : c = sconn[s]
  BY DEF Shaped, SendersOK
<1>2. /\ cwriting' = [cwriting EXCEPT ![c] = 1]
      /\ UNCHANGED <<batch, rio, wio, bulk, request, life, wh>>
  BY <1>1 DEF SendInsert, MarkWriting
<1>3. ThrOf[c] \in Threads /\ cwriting \in [Conns -> {0, 1}]
  BY ThreadAssumption DEF Shaped, FlagsOK
<1>4. cwriting'[c] = 1 /\ \A d \in Conns : d # c => cwriting'[d] = cwriting[d]
  BY <1>2, <1>3
<1>5. CASE Schedules(c)
  <2>1. ScheduleTask(ThrOf[c], x(c))
    BY <1>1, <1>5 DEF SendInsert
  <2>2. ~IsInQueue(c, "START_WRITE") /\ ~wio[c] /\ wh[ThrOf[c]].c # c
    BY <1>5 DEF Schedules, Writers, WriterOK
  <2>3. x(c) \in Items /\ x(c) # Stop /\ x(c)[1] = c /\ x(c)[2] = "START_WRITE"
    BY TaskShape
  <2>4. Keeps
    <3>1. x(c) \notin Elems(jobs[ThrOf[c]]) \cup Elems(batch[ThrOf[c]])
      BY <2>2 DEF IsInQueue
    <3> QED
      BY <1>2, <1>3, <2>1, <2>3, <3>1, KeepsSchedule DEF Writers, Threaded
  <2>5. jobs' = [jobs EXCEPT ![ThrOf[c]] = Append(@, x(c))]
    BY <2>1 DEF ScheduleTask
  <2>6. jobs \in [Threads -> Seq(Items)]
    BY DEF Writers, Threaded, ThreadInv, ThreadTypeOK, Items
  <2>7. Elems(jobs'[ThrOf[c]]) = Elems(jobs[ThrOf[c]]) \cup {x(c)}
    BY <1>3, <2>3, <2>5, <2>6, ElemsAppend
  <2>8. \A d \in Conns : d # c => (IsInQueue(d, "START_WRITE")' <=> IsInQueue(d, "START_WRITE"))
    <3> SUFFICES ASSUME NEW d \in Conns, d # c
                 PROVE  x(d) \in Elems(jobs'[ThrOf[d]]) <=> x(d) \in Elems(jobs[ThrOf[d]])
      BY <1>2 DEF IsInQueue
    <3>1. x(d) # x(c)
      OBVIOUS
    <3>2. ThrOf[d] \in Threads
      BY ThreadAssumption
    <3>3. CASE ThrOf[d] = ThrOf[c]
      BY <2>7, <3>1, <3>3
    <3>4. CASE ThrOf[d] # ThrOf[c]
      BY <1>3, <2>5, <2>6, <3>2, <3>4
    <3> QED
      BY <3>3, <3>4
  <2>9. \A d \in Conns : WriterOK(d)'
    <3> TAKE d \in Conns
    <3>1. CASE d = c
      BY <1>2, <1>4, <2>2, <3>1 DEF WriterOK
    <3>2. CASE d # c
      BY <1>2, <1>4, <2>8, <3>2 DEF WriterOK, Writers
    <3> QED
      BY <3>1, <3>2
  <2> QED
    BY <1>2, <2>4, <2>9 DEF Writers, Threaded, Keeps
<1>6. CASE ~Schedules(c)
  <2>1. UNCHANGED <<jobs, async>>
    BY <1>1, <1>6 DEF SendInsert
  <2>2. Keeps
    BY <1>2, <2>1, KeepsIdle DEF Writers, Threaded, ThreadInv, ThreadTypeOK
  <2>3. \A d \in Conns : WriterOK(d)'
    <3> TAKE d \in Conns
    <3>1. IsInQueue(d, "START_WRITE")' <=> IsInQueue(d, "START_WRITE")
      BY <1>2, <2>1 DEF IsInQueue
    <3>2. CASE d = c
      BY <1>2, <1>4, <3>1, <3>2 DEF WriterOK, Writers
    <3>3. CASE d # c
      BY <1>2, <1>4, <3>1, <3>3 DEF WriterOK, Writers
    <3> QED
      BY <3>2, <3>3
  <2> QED
    BY <1>2, <2>2, <2>3 DEF Writers, Threaded, Keeps
<1> QED
  BY <1>5, <1>6

\* Taking the job queue moves write tasks, and queues none.
LEMMA WritersAsync ==
    ASSUME Writers, NEW t \in Threads, Async(t)
    PROVE  Writers'
<1>1. /\ batch[t] = << >> /\ batch' = [batch EXCEPT ![t] = jobs[t]]
      /\ jobs' = [jobs EXCEPT ![t] = << >>]
      /\ UNCHANGED <<rio, wio, bulk, request, life, cwriting, wh>>
  BY DEF Async, AsyncRoutine
<1>2. Keeps
  BY KeepsAsync DEF Async, Writers, Threaded
<1>3. jobs \in [Threads -> Seq(Items)] /\ batch \in [Threads -> Seq(Items)] /\ Elems(<< >>) = {}
  BY DEF Writers, Threaded, ThreadInv, ThreadTypeOK, Items, Elems
<1>4. \A v \in Threads : Elems(jobs'[v]) \cup Elems(batch'[v]) = Elems(jobs[v]) \cup Elems(batch[v])
  BY <1>1, <1>3
<1>5. \A c \in Conns : IsInQueue(c, "START_WRITE")' <=> IsInQueue(c, "START_WRITE")
  <2> TAKE c \in Conns
  <2>1. ThrOf[c] \in Threads
    BY ThreadAssumption
  <2> QED
    BY <1>4, <2>1 DEF IsInQueue
<1>6. \A c \in Conns : WriterOK(c)'
  BY <1>1, <1>5 DEF WriterOK, Writers
<1> QED
  BY <1>1, <1>2, <1>6 DEF Writers, Threaded, Keeps

\* A write task that is run starts the watcher in its stead.
LEMMA WritersRun ==
    ASSUME Writers, NEW t \in Threads, Run(t)
    PROVE  Writers'
<1>1. PICK x : x = Head(batch[t])
  OBVIOUS
<1>2. /\ batch[t] # << >> /\ UNCHANGED <<jobs, bulk, request, cwriting, wh>>
      /\ batch' = [batch EXCEPT ![t] = IF x[2] = "STOP" THEN << >> ELSE Tail(batch[t])]
      /\ wio' = IF x[2] = "START_WRITE" THEN [wio EXCEPT ![x[1]] = TRUE] ELSE wio
      /\ life' = IF x[2] = "STOP" THEN [life EXCEPT ![t] = "stopped"] ELSE life
  BY <1>1 DEF Run, RunTask
<1>3. Keeps
  BY KeepsRun DEF Run, Writers, Threaded
<1>4. Sound(t, jobs[t], batch[t]) /\ Stop \notin Elems(batch[t])
  BY DEF Writers, Threaded, ThreadInv, Queues
<1>5. /\ x \in Items /\ x \in Elems(batch[t]) /\ Elems(Tail(batch[t])) = Elems(batch[t]) \ {x}
  BY <1>1, <1>2, <1>4, SoundPop
<1>6. /\ x[1] \in Conns /\ x[2] \in ReadOps \cup {"START_WRITE"} /\ x = <<x[1], x[2]>>
      /\ ThrOf[x[1]] = t
  BY <1>4, <1>5, TaskShape DEF Items, Sound
<1>7. x[2] # "STOP" /\ life' = life /\ batch' = [batch EXCEPT ![t] = Tail(batch[t])]
  BY <1>2, <1>6 DEF ReadOps
<1>8. /\ batch \in [Threads -> Seq(Items)] /\ wio \in [Conns -> BOOLEAN]
  BY DEF Writers, Threaded, ThreadInv, ThreadTypeOK, Items
<1>9. \A v \in Threads : Elems(batch'[v]) = IF v = t THEN Elems(batch[v]) \ {x} ELSE Elems(batch[v])
  BY <1>5, <1>7, <1>8
<1>10. \A c \in Conns : WriterOK(c)'
  <2> TAKE c \in Conns
  <2>0. ThrOf[c] \in Threads
    BY ThreadAssumption
  <2>1. CASE x = WriteTask(c)
    <3>1. x[1] = c /\ x[2] = "START_WRITE"
      BY <2>1 DEF WriteTask
    <3>2. IsInQueue(c, "START_WRITE")
      BY <1>5, <1>6, <2>1, <3>1 DEF IsInQueue, WriteTask
    <3>3. ~IsInQueue(c, "START_WRITE")'
      <4>1. x \notin Elems(jobs[t]) /\ x \notin Elems(batch'[t])
        BY <1>4, <1>5, <1>9 DEF Sound
      <4> QED
        BY <1>2, <1>6, <2>1, <3>1, <4>1 DEF IsInQueue, WriteTask
    <3>4. wio'[c] = TRUE
      BY <1>2, <1>8, <3>1
    <3>5. cwriting[c] # 0 /\ wh[ThrOf[c]].c # c
      BY <3>2 DEF WriterOK, Writers
    <3> QED
      BY <1>2, <3>3, <3>4, <3>5 DEF WriterOK
  <2>2. CASE x # WriteTask(c)
    <3>1. IsInQueue(c, "START_WRITE")' <=> IsInQueue(c, "START_WRITE")
      <4>1. /\ IsInQueue(c, "START_WRITE") <=> WriteTask(c) \in Elems(jobs[ThrOf[c]]) \cup Elems(batch[ThrOf[c]])
            /\ IsInQueue(c, "START_WRITE")' <=> WriteTask(c) \in Elems(jobs'[ThrOf[c]]) \cup Elems(batch'[ThrOf[c]])
        BY DEF IsInQueue, WriteTask
      <4>2. WriteTask(c) \in Elems(batch'[ThrOf[c]]) <=> WriteTask(c) \in Elems(batch[ThrOf[c]])
        BY <1>9, <2>0, <2>2
      <4> QED
        BY <1>2, <4>1, <4>2
    <3>2. wio'[c] = wio[c]
      BY <1>2, <1>6, <1>8, <2>2 DEF WriteTask
    <3> QED
      BY <1>2, <3>1, <3>2 DEF WriterOK, Writers
  <2> QED
    BY <2>1, <2>2
<1> QED
  BY <1>2, <1>3, <1>7, <1>10 DEF Writers, Threaded, Keeps

\* A handler that stops its watcher clears conn->writing, as nothing else stands for it.
LEMMA WritersStop ==
    ASSUME Shaped, Writers, NEW t \in Threads, WriteStop(t)
    PROVE  Writers'
<1>1. PICK c \in Conns : c = wh[t].c /\ ThrOf[c] = t /\ wh \in [Threads -> WHandler]
  BY Serving DEF WriteStop
<1>2. /\ wio' = [wio EXCEPT ![c] = FALSE] /\ cwriting' = [cwriting EXCEPT ![c] = 0]
      /\ wh' = [wh EXCEPT ![t] = NoHandler]
      /\ UNCHANGED <<jobs, batch, async, rio, bulk, request, life>>
  BY <1>1 DEF WriteStop
<1>3. wio \in [Conns -> BOOLEAN] /\ cwriting \in [Conns -> {0, 1}]
  BY DEF Writers, Threaded, ThreadInv, ThreadTypeOK, Shaped, FlagsOK
<1>4. Keeps
  BY <1>2, <1>3, KeepsIdle DEF Writers, Threaded
<1>5. ~IsInQueue(c, "START_WRITE")
  BY <1>1 DEF Writers, WriterOK
<1>6. \A d \in Conns : WriterOK(d)'
  <2> TAKE d \in Conns
  <2>1. wh'[ThrOf[d]].c = d => wh[ThrOf[d]].c = d /\ d # c
    <3>1. ThrOf[d] \in Threads
      BY ThreadAssumption
    <3> QED
      BY <1>1, <1>2, <3>1, EmptyShapes
  <2>2. CASE d = c
    BY <1>2, <1>3, <1>5, <2>1, <2>2 DEF WriterOK, IsInQueue
  <2>3. CASE d # c
    BY <1>2, <1>3, <2>1, <2>3 DEF WriterOK, IsInQueue, Writers
  <2> QED
    BY <2>2, <2>3
<1> QED
  BY <1>2, <1>4, <1>6 DEF Writers, Threaded, Keeps

\* Closing stops the watchers of the connection.
LEMMA WritersClose ==
    ASSUME Shaped, Writers, NEW c \in Conns, CloseConn(c)
    PROVE  Writers'
<1>1. /\ rio' = [rio EXCEPT ![c] = FALSE] /\ wio' = [wio EXCEPT ![c] = FALSE]
      /\ UNCHANGED <<jobs, batch, async, bulk, request, life, cwriting, wh>>
      /\ wh[ThrOf[c]].pc = "idle"
  BY DEF CloseConn, Idle
<1>2. ThreadInv'
  BY <1>1, ClosedConnInv DEF Writers, Threaded
<1>3. wio \in [Conns -> BOOLEAN] /\ wh[ThrOf[c]] = NoHandler
  <2>1. ThrOf[c] \in Threads
    BY ThreadAssumption
  <2>2. HandlerOK(ThrOf[c], wh[ThrOf[c]])
    BY <2>1 DEF Shaped, HandlersOK
  <2> QED
    BY <1>1, <2>2 DEF HandlerOK, Writers, Threaded, ThreadInv, ThreadTypeOK
<1>4. wh[ThrOf[c]].c # c
  BY <1>3, EmptyShapes
<1>5. \A d \in Conns : WriterOK(d)'
  <2> TAKE d \in Conns
  <2>1. CASE d = c
    BY <1>1, <1>3, <1>4, <2>1 DEF WriterOK, IsInQueue, Writers
  <2>2. CASE d # c
    BY <1>1, <1>3, <2>2 DEF WriterOK, IsInQueue, Writers
  <2> QED
    BY <2>1, <2>2
<1> QED
  BY <1>1, <1>2, <1>5 DEF Writers, Threaded

\* A handler is entered for a watcher that runs.
LEMMA WritersReady ==
    ASSUME Shaped, Writers, NEW c \in Conns, WriteReady(c)
    PROVE  Writers'
<1>1. PICK h : wh' = [wh EXCEPT ![ThrOf[c]] = h] /\ h.c = c
  BY ReadyStep
<1>2. UNCHANGED <<threadVars, cwriting>> /\ wio[c] /\ ThrOf[c] \in Threads
      /\ wh \in [Threads -> WHandler]
  BY ThreadAssumption DEF WriteReady, Shaped, HandlersOK
<1>3. Keeps
  BY <1>2, KeepsIdle DEF Writers, Threaded, ThreadInv, ThreadTypeOK, threadVars
<1>4. \A d \in Conns : WriterOK(d)'
  <2> TAKE d \in Conns
  <2>1. wh'[ThrOf[d]].c = d => wio[d]
    <3>1. ThrOf[d] \in Threads
      BY ThreadAssumption
    <3>2. CASE ThrOf[d] = ThrOf[c]
      BY <1>1, <1>2, <3>2
    <3>3. CASE ThrOf[d] # ThrOf[c]
      BY <1>1, <1>2, <3>1, <3>3 DEF Writers, WriterOK
    <3> QED
      BY <3>2, <3>3
  <2> QED
    BY <1>2, <2>1 DEF Writers, WriterOK, IsInQueue, threadVars
<1> QED
  BY <1>2, <1>3, <1>4 DEF Writers, Threaded, Keeps, threadVars

\* Every step keeps conn->writing equal to what is queued, running or watched.
LEMMA WritersNext ==
    ASSUME Shaped, Writers, [Next]_vars
    PROVE  Writers'
<1>1. ASSUME UNCHANGED <<threadVars, cwriting, wh>>
      PROVE  Writers'
  BY <1>1, WritersKeep
<1>2. ASSUME NEW s \in Senders, Sends(s) \/ SpuriousWakeup(s) \/ SendNoMem(s) \/ \E c \in Conns : SendCall(s, c)
      PROVE  Writers'
  <2>1. CASE SendInsert(s)
    BY <2>1, WritersInsert
  <2>2. CASE SendLook(s) \/ SendNoMem(s) \/ SendWait(s) \/ SendCount(s) \/ SpuriousWakeup(s)
    BY <1>1, <2>2 DEF SendWait, SendCount, SpuriousWakeup, SendLook, SendNoMem
  <2>3. CASE \E c \in Conns : SendCall(s, c)
    BY <1>1, <2>3 DEF SendCall
  <2> QED
    BY <1>2, <2>1, <2>2, <2>3 DEF Sends
<1>3. ASSUME NEW c \in Conns, WriteReady(c) \/ CloseConn(c) \/ PeerReads(c) \/ PeerCloses(c)
      PROVE  Writers'
  <2>1. CASE PeerReads(c) \/ PeerCloses(c)
    BY <1>1, <2>1 DEF PeerReads, PeerCloses
  <2> QED
    BY <1>3, <2>1, WritersReady, WritersClose
<1>4. ASSUME NEW t \in Threads, WriteHandler(t)
      PROVE  Writers'
  <2>1. CASE WriteStop(t)
    BY <2>1, WritersStop
  <2>2. CASE ~WriteStop(t)
    <3>1. UNCHANGED <<threadVars, cwriting>> /\ wh[t].pc # "idle"
      BY <1>4, <2>2 DEF WriteHandler, WriteTop, Writev, WriteAgain, WriteError, WriteAcct,
                        WriteBroadcast
    <3>2. PICK h : wh' = [wh EXCEPT ![t] = h] /\ (h = NoHandler \/ h.c = wh[t].c)
      <4>1. CASE WriteTop(t)
        BY <4>1, TopStep
      <4>2. CASE Writev(t)
        <5>1. PICK c, l : c = wh[t].c /\ l = wh[t].ol
          OBVIOUS
        <5>a. PICK k \in 1..Len(l.s) : \E h : Wrote(t, c, l, k, h)
          BY <4>2, <5>1, WritevStep
        <5>2. PICK h : Wrote(t, c, l, k, h)
          BY <5>a
        <5> QED
          BY <5>1, <5>2 DEF Wrote
      <4>3. CASE WriteAgain(t)
        BY <4>3, AgainStep
      <4>4. CASE WriteError(t)
        BY <4>4, ErrorStep
      <4>5. CASE WriteAcct(t) \/ WriteBroadcast(t)
        BY <4>5, SettleStep
      <4> QED
        BY <1>4, <2>2, <4>1, <4>2, <4>3, <4>4, <4>5 DEF WriteHandler
    <3>3. wh \in [Threads -> WHandler]
      BY DEF Shaped, HandlersOK
    <3>4. \A c \in Conns : wh'[ThrOf[c]].c = c => wh[ThrOf[c]].c = c
      <4> TAKE c \in Conns
      <4>1. ThrOf[c] \in Threads
        BY ThreadAssumption
      <4>2. CASE ThrOf[c] = t
        BY <3>2, <3>3, <4>2, EmptyShapes
      <4>3. CASE ThrOf[c] # t
        BY <3>2, <3>3, <4>1, <4>3
      <4> QED
        BY <4>2, <4>3
    <3> QED
      BY <3>1, <3>4, WritersKeep
  <2> QED
    BY <2>1, <2>2
<1>5. CASE UNCHANGED vars
  BY <1>1, <1>5 DEF vars
<1> QED
  BY <1>2, <1>3, <1>4, <1>5, WritersAsync, WritersRun DEF Next

\* A new socket satisfies both.
LEMMA SendInit ==
    ASSUME Init
    PROVE  Shaped /\ Writers
<1> USE DEF Init
<1>1. SendersOK
  BY ThreadAssumption, SendAssumption DEF SendersOK, Conns
<1>2. ListsOK
  <2>1. ol \in [Conns -> OutList] /\ \A c \in Conns : ol[c] = EmptyList
    BY EmptyShapes
  <2> QED
    BY <2>1, EmptyShapes DEF ListsOK
<1>3. FlagsOK
  <2>1. zombie \in [Conns -> BOOLEAN] /\ closed \in [Conns -> BOOLEAN]
    BY Zenon
  <2>2. cwriting \in [Conns -> {0, 1}] /\ room \in [Conns -> 0..Room]
    BY SendAssumption
  <2> QED
    BY <2>1, <2>2 DEF FlagsOK
<1>4. HistoryOK
  <2>1. spliced \in [Conns -> BOOLEAN]
    BY Zenon
  <2> QED
    BY <2>1 DEF HistoryOK
<1>5. HandlersOK /\ \A t \in Threads : wh[t] = NoHandler
  <2>1. wh \in [Threads -> WHandler] /\ \A t \in Threads : wh[t] = NoHandler
    BY EmptyShapes
  <2> QED
    BY <2>1, EmptyShapes DEF HandlersOK
<1>6. Threaded
  <2>1. ThreadInv
    BY ThreadInitInv
  <2>2. ~bulk.on /\ \A t \in Threads : life[t] = "runs"
    BY DEF ThreadInit, NoBulk
  <2> QED
    BY <2>1, <2>2 DEF Threaded
<1>7. \A c \in Conns : WriterOK(c)
  <2> TAKE c \in Conns
  <2>1. ThrOf[c] \in Threads
    BY ThreadAssumption
  <2>2. jobs[ThrOf[c]] = << >> /\ batch[ThrOf[c]] = << >> /\ ~wio[c]
    BY <2>1 DEF ThreadInit
  <2>3. ~IsInQueue(c, "START_WRITE")
    BY <2>2 DEF IsInQueue, Elems
  <2>4. wh[ThrOf[c]].c # c
    BY <1>5, <2>1, EmptyShapes
  <2> QED
    BY <2>2, <2>3, <2>4 DEF WriterOK
<1> QED
  BY <1>1, <1>2, <1>3, <1>4, <1>5, <1>6, <1>7 DEF Shaped, Writers

-----------------------------------------------------------------------------
(* The handler of a connection, seen from the connection.                  *)
HandlerIn(w, c) == IF w[ThrOf[c]].c = c THEN w[ThrOf[c]] ELSE NoHandler
HandlerOf(c) == HandlerIn(wh, c)

\* What a handler has written and still has to subtract.
Owed(h) == IF h.pc \in {"top", "write", "acct"} THEN h.removed ELSE 0

\* The history variables of the properties are functions of that handler.
LEMMA HandlerOfGives ==
    ASSUME NEW c \in Conns
    PROVE  Taken(c) = HandlerOf(c).ol.s /\ Unsettled(c) = Owed(HandlerOf(c))
<1>1. CASE wh[ThrOf[c]].c = c
  BY <1>1 DEF Taken, Unsettled, HandlerOf, HandlerIn, Owed
<1>2. CASE wh[ThrOf[c]].c # c
  BY <1>2, EmptyShapes DEF Taken, Unsettled, HandlerOf, HandlerIn, Owed
<1> QED
  BY <1>1, <1>2

\* The handler that works for a connection, or the idle one, has the type of a handler.
LEMMA HandlerOfTypes ==
    ASSUME Shaped, NEW c \in Conns
    PROVE  HandlerOf(c) \in WHandler /\ ListOK(HandlerOf(c).ol) /\ Owed(HandlerOf(c)) \in Nat
<1>1. ThrOf[c] \in Threads
  BY ThreadAssumption
<1>2. HandlerOf(c) \in WHandler /\ ListOK(HandlerOf(c).ol)
  <2>1. CASE wh[ThrOf[c]].c = c
    <3>1. HandlerOK(ThrOf[c], wh[ThrOf[c]])
      BY <1>1 DEF Shaped, HandlersOK
    <3> QED
      BY <2>1, <3>1, EmptyShapes DEF HandlerOf, HandlerIn, HandlerOK
  <2>2. CASE wh[ThrOf[c]].c # c
    BY <2>2, EmptyShapes DEF HandlerOf, HandlerIn
  <2> QED
    BY <2>1, <2>2
<1>3. HandlerOf(c).removed \in Nat
  BY <1>2 DEF WHandler
<1> QED
  BY <1>2, <1>3 DEF Owed

\* A step of one handler is seen by its own connection only.
LEMMA HandlerOfMoves ==
    ASSUME Shaped, NEW t \in Threads, NEW g, NEW c \in Conns, ThrOf[c] = t,
           wh' = [wh EXCEPT ![t] = g], wh[t].c \in {0, c}, g.c \in {0, c},
           wh[t].c = 0 => wh[t] = NoHandler, g.c = 0 => g = NoHandler
    PROVE  /\ HandlerIn(wh, c) = wh[t] /\ HandlerIn(wh', c) = g
           /\ \A d \in Conns : d # c => HandlerIn(wh', d) = HandlerIn(wh, d)
<1> DEFINE w == wh'
<1>1. w[t] = g /\ \A v \in Threads : v # t => w[v] = wh[v]
  BY DEF Shaped, HandlersOK
<1>2. HandlerIn(wh, c) = wh[t]
  BY DEF HandlerIn
<1>3. HandlerIn(w, c) = g
  BY <1>1 DEF HandlerIn
<1>4. ASSUME NEW d \in Conns, d # c
      PROVE  HandlerIn(w, d) = HandlerIn(wh, d)
  <2>1. ThrOf[d] \in Threads
    BY ThreadAssumption
  <2>2. CASE ThrOf[d] = t
    BY <1>1, <1>4, <2>2, EmptyShapes DEF HandlerIn
  <2>3. CASE ThrOf[d] # t
    BY <1>1, <2>1, <2>3 DEF HandlerIn
  <2> QED
    BY <2>2, <2>3
<1> QED
  BY <1>2, <1>3, <1>4

-----------------------------------------------------------------------------
(* The mark.                                                               *)
Sizes == [c \in Conns |-> Len(wire[c])]
Owing == [c \in Conns |-> Unsettled(c)]
Counting == {s \in Senders : spc[s] = "count"}

\* The accounting equation with its sums named.
LEMMA AccountingIs ==
    Accounting <=> sndqsz = Total(acc) - Total(Sizes) + Total(Owing) + skipped - Cardinality(Counting)
  BY DEF Accounting, Sizes, Owing, Counting

\* All sums of the accounting equation are numbers.
LEMMA TallyTypes ==
    ASSUME Shaped
    PROVE  /\ acc \in [Conns -> Nat] /\ Sizes \in [Conns -> Nat] /\ Owing \in [Conns -> Nat]
           /\ Total(acc) \in Int /\ Total(Sizes) \in Int /\ Total(Owing) \in Int
           /\ skipped \in Int /\ sndqsz \in Int
           /\ IsFiniteSet(Counting) /\ Cardinality(Counting) \in Int
<1>1. acc \in [Conns -> Nat] /\ skipped \in Int /\ sndqsz \in Int
  BY DEF Shaped, HistoryOK, FlagsOK
<1>2. Sizes \in [Conns -> Nat]
  BY DEF Shaped, HistoryOK, Sizes
<1>3. Owing \in [Conns -> Nat]
  BY HandlerOfTypes, HandlerOfGives DEF Owing
<1>4. Total(acc) \in Int /\ Total(Sizes) \in Int /\ Total(Owing) \in Int
  BY <1>1, <1>2, <1>3, TotalType
<1>5. IsFiniteSet(Counting)
  BY SendAssumption, FS_Subset DEF Counting
<1>6. Cardinality(Counting) \in Int
  BY <1>5, FS_CardinalityType
<1> QED
  BY <1>1, <1>2, <1>3, <1>4, <1>5, <1>6

\* The account balances when the sum of the changes does.
LEMMA Balance ==
    ASSUME Shaped, Accounting, Total(acc)' \in Int, Total(Sizes)' \in Int, Total(Owing)' \in Int,
           skipped' \in Int, Cardinality(Counting)' \in Int,
           sndqsz' = sndqsz + (Total(acc)' - Total(acc)) - (Total(Sizes)' - Total(Sizes))
                     + (Total(Owing)' - Total(Owing)) + (skipped' - skipped)
                     - (Cardinality(Counting)' - Cardinality(Counting))
    PROVE  Accounting'
<1>1. /\ Total(acc) \in Int /\ Total(Sizes) \in Int /\ Total(Owing) \in Int
      /\ skipped \in Int /\ sndqsz \in Int /\ Cardinality(Counting) \in Int
  BY TallyTypes
<1>2. sndqsz = Total(acc) - Total(Sizes) + Total(Owing) + skipped - Cardinality(Counting)
  BY AccountingIs
<1>3. Accounting' <=> sndqsz' = Total(acc)' - Total(Sizes)' + Total(Owing)' + skipped' - Cardinality(Counting)'
  BY DEF Accounting, Sizes, Owing, Counting
<1>4. sndqsz' = Total(acc)' - Total(Sizes)' + Total(Owing)' + skipped' - Cardinality(Counting)'
  BY <1>1, <1>2
<1> QED
  BY <1>3, <1>4

\* The same facts of the next state.
LEMMA NextTypes ==
    ASSUME NEW c \in Conns
    PROVE  /\ Taken(c)' = HandlerOf(c)'.ol.s /\ Unsettled(c)' = Owed(HandlerOf(c)')
           /\ Shaped' => ListOK(HandlerOf(c)'.ol) /\ Owed(HandlerOf(c)') \in Nat
                         /\ Owing' \in [Conns -> Nat] /\ Sizes' \in [Conns -> Nat]
                         /\ acc' \in [Conns -> Nat]
<1>1. Taken(c) = HandlerOf(c).ol.s /\ Unsettled(c) = Owed(HandlerOf(c))
  BY HandlerOfGives
<1>2. Shaped => /\ ListOK(HandlerOf(c).ol) /\ Owed(HandlerOf(c)) \in Nat
                /\ Owing \in [Conns -> Nat] /\ Sizes \in [Conns -> Nat] /\ acc \in [Conns -> Nat]
  BY HandlerOfTypes, TallyTypes
<1>3. (Taken(c) = HandlerOf(c).ol.s /\ Unsettled(c) = Owed(HandlerOf(c)))'
  BY <1>1, PTL
<1>4. Shaped' => /\ ListOK(HandlerOf(c).ol)' /\ (Owed(HandlerOf(c)) \in Nat)'
                 /\ (Owing \in [Conns -> Nat])' /\ (Sizes \in [Conns -> Nat])'
                 /\ (acc \in [Conns -> Nat])'
  BY <1>2, PTL
<1>5. Owed(HandlerOf(c))' = Owed(HandlerOf(c)')
  BY DEF Owed, HandlerOf, HandlerIn
<1>6. ListOK(HandlerOf(c).ol)' <=> ListOK(HandlerOf(c)'.ol)
  BY DEF ListOK, HandlerOf, HandlerIn
<1> QED
  BY <1>3, <1>4, <1>5, <1>6

\* A handler of connection c moves from h to g.
LEMMA OwingMoves ==
    ASSUME Shaped, Shaped', NEW c \in Conns, NEW h, NEW g, HandlerOf(c) = h, HandlerOf(c)' = g,
           \A d \in Conns : d # c => HandlerOf(d)' = HandlerOf(d)
    PROVE  Total(Owing)' = Total(Owing) + Owed(g) - Owed(h) /\ Owed(g) \in Nat /\ Owed(h) \in Nat
<1>1. PICK f \in [Conns -> Nat] : f = Owing /\ \A d \in Conns : f[d] = Owed(HandlerOf(d))
  <2>1. Owing \in [Conns -> Nat]
    BY TallyTypes
  <2>2. \A d \in Conns : Owing[d] = Owed(HandlerOf(d))
    BY HandlerOfGives DEF Owing
  <2> QED
    BY <2>1, <2>2
<1>2. PICK e \in [Conns -> Nat] : e = Owing' /\ \A d \in Conns : e[d] = Owed(HandlerOf(d)')
  <2>1. Owing' \in [Conns -> Nat]
    BY NextTypes
  <2>2. \A d \in Conns : Owing'[d] = Owed(HandlerOf(d)')
    BY NextTypes DEF Owing
  <2> QED
    BY <2>1, <2>2
<1>3. e[c] = Owed(g) /\ f[c] = Owed(h) /\ \A d \in Conns : d # c => e[d] = f[d]
  BY <1>1, <1>2
<1>4. Total(Owing) = Total(f) /\ Total(Owing)' = Total(e) /\ Total(f) \in Nat /\ Total(e) \in Nat
  <2>1. Total(Owing)' = Total(e)
    BY <1>2 DEF Total
  <2> QED
    BY <1>1, <2>1, TotalType
<1>5. CASE e[c] >= f[c]
  <2>1. PICK k \in Nat : e[c] = f[c] + k /\ k = e[c] - f[c]
    BY <1>1, <1>2, <1>5
  <2>2. Total(e) = Total(f) + k
    BY <1>3, <2>1, TotalPlus
  <2> QED
    BY <1>3, <1>4, <2>1, <2>2
<1>6. CASE ~(e[c] >= f[c])
  <2>1. PICK k \in Nat : f[c] = e[c] + k /\ k = f[c] - e[c]
    BY <1>1, <1>2, <1>6
  <2>2. Total(f) = Total(e) + k
    BY <1>3, <2>1, TotalPlus
  <2> QED
    BY <1>3, <1>4, <2>1, <2>2
<1> QED
  BY <1>5, <1>6

\* Nothing of the account but one handler changed, and what it owes is the same.
LEMMA AccountKept ==
    ASSUME Shaped, Shaped', Accounting, UNCHANGED <<acc, wire, skipped, sndqsz>>,
           Counting' = Counting, Total(Owing)' = Total(Owing)
    PROVE  Accounting'
<1>1. Total(acc)' = Total(acc) /\ Total(Sizes)' = Total(Sizes)
  BY DEF Total, Sizes
<1>2. /\ Total(acc) \in Int /\ Total(Sizes) \in Int /\ Total(Owing) \in Int
      /\ skipped \in Int /\ sndqsz \in Int /\ Cardinality(Counting) \in Int
  BY TallyTypes
<1>3. Cardinality(Counting)' = Cardinality(Counting)
  OBVIOUS
<1>4. sndqsz' = sndqsz + (Total(acc)' - Total(acc)) - (Total(Sizes)' - Total(Sizes))
                + (Total(Owing)' - Total(Owing)) + (skipped' - skipped)
                - (Cardinality(Counting)' - Cardinality(Counting))
  BY <1>1, <1>2, <1>3
<1> QED
  BY <1>1, <1>2, <1>3, <1>4, Balance

\* A sender adds to what was accepted first and to sndqsz later, and is counted in
\* between.
LEMMA AccountSender ==
    ASSUME Shaped, Shaped', Accounting, NEW s \in Senders,
           Sends(s) \/ SpuriousWakeup(s) \/ SendNoMem(s) \/ \E c \in Conns : SendCall(s, c)
    PROVE  Accounting'
<1> USE DEF sendVars, sockVars, netVars, history
<1>0. wh' = wh
  BY DEF Sends, SendWait, SendInsert, SendCount, SpuriousWakeup, SendLook, SendNoMem, SendCall
<1>1. Total(Owing)' = Total(Owing)
  BY <1>0 DEF Total, Owing, Unsettled
<1>2. /\ Total(acc) \in Int /\ Total(Sizes) \in Int /\ Total(Owing) \in Int
      /\ skipped \in Int /\ sndqsz \in Int /\ Cardinality(Counting) \in Int /\ IsFiniteSet(Counting)
      /\ acc \in [Conns -> Nat] /\ spc \in [Senders -> {"idle", "look", "lock", "wait", "insert", "count"}]
      /\ sconn \in [Senders -> Conns]
  BY TallyTypes DEF Shaped, SendersOK
<1>3. CASE SendLook(s) \/ SendNoMem(s) \/ SendWait(s) \/ SpuriousWakeup(s) \/ \E c \in Conns : SendCall(s, c)
  <2>1. UNCHANGED <<acc, wire, skipped, sndqsz>>
    BY <1>3 DEF SendWait, SpuriousWakeup, SendLook, SendNoMem, SendCall
  <2>2. PICK p \in {"idle", "look", "lock", "wait", "insert"} : spc' = [spc EXCEPT ![s] = p] /\ spc[s] # "count"
    BY <1>3 DEF SendWait, SpuriousWakeup, SendLook, SendNoMem, SendCall
  <2>3. Counting' = Counting
    BY <1>2, <2>2 DEF Counting
  <2> QED
    BY <1>1, <2>1, <2>3, AccountKept
<1>4. CASE SendInsert(s)
  <2>1. PICK c \in Conns : c = sconn[s]
    BY <1>2
  <2>2. /\ acc' = [acc EXCEPT ![c] = @ + 1] /\ spc[s] = "insert" /\ spc' = [spc EXCEPT ![s] = "count"]
        /\ UNCHANGED <<wire, skipped, sndqsz>>
    BY <1>4, <2>1 DEF SendInsert
  <2>3. Total(acc)' = Total(acc) + 1
    <3>1. PICK f \in [Conns -> Nat] : f = acc'
      BY NextTypes, <2>1
    <3>2. f[c] = acc[c] + 1 /\ \A d \in Conns : d # c => f[d] = acc[d]
      BY <1>2, <2>2, <3>1
    <3>3. Total(f) = Total(acc) + 1
      BY <1>2, <3>2, TotalPlus
    <3>4. Total(acc)' = Total(f)
      BY <3>1 DEF Total
    <3> QED
      BY <3>3, <3>4
  <2>4. Counting' = Counting \cup {s} /\ s \notin Counting
    BY <1>2, <2>2 DEF Counting
  <2>5. Cardinality(Counting)' = Cardinality(Counting) + 1
    BY <1>2, <2>4, FS_AddElement
  <2>6. Total(Sizes)' = Total(Sizes)
    BY <2>2 DEF Total, Sizes
  <2>7. sndqsz' = sndqsz + (Total(acc)' - Total(acc)) - (Total(Sizes)' - Total(Sizes))
                     + (Total(Owing)' - Total(Owing)) + (skipped' - skipped)
                     - (Cardinality(Counting)' - Cardinality(Counting))
    BY <1>1, <1>2, <2>2, <2>3, <2>5, <2>6
  <2> QED
    BY <1>1, <1>2, <2>2, <2>3, <2>5, <2>6, <2>7, Balance
<1>5. CASE SendCount(s)
  <2>1. /\ sndqsz' = sndqsz + 1 /\ spc[s] = "count" /\ spc' = [spc EXCEPT ![s] = "idle"]
        /\ UNCHANGED <<acc, wire, skipped>>
    BY <1>5 DEF SendCount
  <2>2. Counting' = Counting \ {s} /\ s \in Counting
    BY <1>2, <2>1 DEF Counting
  <2>3. Cardinality(Counting)' = Cardinality(Counting) - 1
    BY <1>2, <2>2, FS_RemoveElement
  <2>4. Total(Sizes)' = Total(Sizes) /\ Total(acc)' = Total(acc)
    BY <2>1 DEF Total, Sizes
  <2>5. sndqsz' = sndqsz + (Total(acc)' - Total(acc)) - (Total(Sizes)' - Total(Sizes))
                     + (Total(Owing)' - Total(Owing)) + (skipped' - skipped)
                     - (Cardinality(Counting)' - Cardinality(Counting))
    BY <1>1, <1>2, <2>1, <2>3, <2>4
  <2> QED
    BY <1>1, <1>2, <2>1, <2>3, <2>4, <2>5, Balance
<1> QED
  BY <1>3, <1>4, <1>5 DEF Sends

\* Every step of the write handler in one form: the handler of one connection
\* moves from one state to another.
LEMMA HandlerStep ==
    ASSUME Shaped, NEW t \in Threads, WriteHandler(t)
    PROVE  \E c \in Conns, g \in WHandler :
              /\ HandlerOf(c) = wh[t] /\ HandlerOf(c)' = g /\ c = wh[t].c /\ ThrOf[c] = t
              /\ wh' = [wh EXCEPT ![t] = g] /\ (g = NoHandler \/ g.c = c) /\ wh[t].pc # "idle"
              /\ \A d \in Conns : d # c => HandlerOf(d)' = HandlerOf(d)
<1>1. PICK c \in Conns : c = wh[t].c /\ ThrOf[c] = t /\ wh[t].pc # "idle"
  <2>1. wh[t].pc # "idle"
    BY DEF WriteHandler, WriteTop, Writev, WriteAgain, WriteError, WriteAcct, WriteBroadcast,
           WriteStop
  <2> QED
    BY <2>1, Serving
<1>2. PICK g \in WHandler : wh' = [wh EXCEPT ![t] = g] /\ (g = NoHandler \/ g.c = c)
  <2>1. CASE WriteTop(t)
    BY <1>1, <2>1, TopStep DEF HandlerOK
  <2>2. CASE Writev(t)
    <3>1. PICK l : l = wh[t].ol
      OBVIOUS
    <3>a. PICK k \in 1..Len(l.s) : \E g : Wrote(t, c, l, k, g)
      BY <1>1, <2>2, <3>1, WritevStep
    <3>2. PICK g : Wrote(t, c, l, k, g)
      BY <3>a
    <3> QED
      BY <3>2 DEF Wrote, HandlerOK
  <2>3. CASE WriteAgain(t)
    BY <1>1, <2>3, AgainStep DEF HandlerOK
  <2>4. CASE WriteError(t)
    BY <1>1, <2>4, ErrorStep DEF HandlerOK
  <2>5. CASE WriteAcct(t) \/ WriteBroadcast(t)
    BY <1>1, <2>5, SettleStep DEF HandlerOK
  <2>6. CASE WriteStop(t)
    BY <2>6, EmptyShapes DEF WriteStop
  <2> QED
    BY <2>1, <2>2, <2>3, <2>4, <2>5, <2>6 DEF WriteHandler
<1>3. HandlerOf(c) = wh[t] /\ HandlerOf(c)' = g /\ \A d \in Conns : d # c => HandlerOf(d)' = HandlerOf(d)
  <2>1. /\ HandlerIn(wh, c) = wh[t] /\ HandlerIn(wh', c) = g
        /\ \A d \in Conns : d # c => HandlerIn(wh', d) = HandlerIn(wh, d)
    <3>1. wh[t].c \in {0, c} /\ (wh[t].c = 0 => wh[t] = NoHandler)
      BY <1>1, EmptyShapes
    <3>2. g.c \in {0, c} /\ (g.c = 0 => g = NoHandler)
      BY <1>2, EmptyShapes
    <3>3. wh' = [wh EXCEPT ![t] = g] /\ ThrOf[c] = t
      BY <1>1, <1>2
    <3> QED
      BY <3>1, <3>2, <3>3, HandlerOfMoves
  <2> QED
    BY <2>1 DEF HandlerOf, HandlerIn
<1> QED
  BY <1>1, <1>2, <1>3

\* A handler takes from the list first and from sndqsz later, and owes the difference in
\* between.
LEMMA AccountHandler ==
    ASSUME Shaped, Shaped', Accounting, NEW t \in Threads, WriteHandler(t)
    PROVE  Accounting'
<1> USE DEF sendVars, sockVars, netVars, history
<1>0. PICK c \in Conns, g \in WHandler :
              /\ HandlerOf(c) = wh[t] /\ HandlerOf(c)' = g /\ c = wh[t].c /\ ThrOf[c] = t
              /\ wh' = [wh EXCEPT ![t] = g] /\ (g = NoHandler \/ g.c = c) /\ wh[t].pc # "idle"
              /\ \A d \in Conns : d # c => HandlerOf(d)' = HandlerOf(d)
  BY HandlerStep
<1>1. PICK h : h = wh[t] /\ HandlerOf(c) = h
  BY <1>0
<1>2. Total(Owing)' = Total(Owing) + Owed(g) - Owed(h) /\ Owed(g) \in Nat /\ Owed(h) \in Nat
  BY <1>0, <1>1, OwingMoves
<1>3. wh'[t] = g /\ wh \in [Threads -> WHandler] /\ h \in WHandler /\ h.removed \in Nat
  BY <1>0, <1>1 DEF Shaped, HandlersOK, WHandler
<1>4. /\ Total(acc) \in Int /\ Total(Sizes) \in Int /\ Total(Owing) \in Int
      /\ skipped \in Int /\ sndqsz \in Int /\ Cardinality(Counting) \in Int
      /\ spc \in [Senders -> {"idle", "look", "lock", "wait", "insert", "count"}]
  BY TallyTypes DEF Shaped, SendersOK
<1>5. ASSUME UNCHANGED <<acc, wire, skipped, sndqsz>>, Owed(g) = Owed(h), Counting' = Counting
      PROVE  Accounting'
  <2>1. Total(Owing)' = Total(Owing)
    BY <1>2, <1>4, <1>5
  <2> QED
    BY <1>5, <2>1, AccountKept
<1>6. CASE WriteTop(t)
  <2>1. Owed(g) = Owed(h)
    <3>1. h.pc = "top"
      BY <1>1, <1>6 DEF WriteTop
    <3>2. PICK f : /\ wh' = [wh EXCEPT ![t] = f] /\ f.removed = wh[t].removed
                   /\ (f.pc = "acct" \/ (f.pc = "stop" /\ f.removed = 0) \/ f.pc = "write")
      <4>1. c = wh[t].c
        BY <1>0
      <4>2. \E f : /\ HandlerOK(t, f) /\ wh' = [wh EXCEPT ![t] = f]
                   /\ f.c = c /\ f.removed = wh[t].removed
                   /\ \/ /\ ol' = ol /\ f.ol = wh[t].ol
                         /\ f.pc = "acct" \/ (f.pc = "stop" /\ f.removed = 0)
                      \/ /\ ol[c].s # << >> /\ f.ol = ol[c] /\ f.pc = "write"
                         /\ ol' = [ol EXCEPT ![c] = EmptyList]
        BY <1>6, <4>1, TopStep
      <4> QED
        BY <4>2
    <3>3. f = g
      BY <1>3, <3>2
    <3> QED
      BY <1>1, <3>1, <3>2, <3>3 DEF Owed
  <2> QED
    BY <1>5, <1>6, <2>1 DEF WriteTop, Counting
<1>7. CASE WriteAgain(t)
  <2>1. Owed(g) = Owed(h)
    <3>1. h.pc = "write"
      BY <1>1, <1>7 DEF WriteAgain
    <3>2. PICK f : /\ wh' = [wh EXCEPT ![t] = f]
                   /\ \/ f = NoHandler /\ wh[t].removed = 0
                      \/ f.pc = "top" /\ f.removed = wh[t].removed
      <4>1. c = wh[t].c
        BY <1>0
      <4> QED
        BY <1>7, <4>1, AgainStep
    <3>3. f = g
      BY <1>3, <3>2
    <3> QED
      BY <1>1, <3>1, <3>2, <3>3, EmptyShapes DEF Owed
  <2> QED
    BY <1>5, <1>7, <2>1 DEF WriteAgain, Counting
<1>8. CASE WriteStop(t)
  <2>1. Owed(g) = Owed(h)
    BY <1>1, <1>3, <1>8, EmptyShapes DEF Owed, WriteStop
  <2> QED
    BY <1>5, <1>8, <2>1 DEF WriteStop, Counting
<1>9. CASE WriteBroadcast(t)
  <2>1. h.pc = "bcast"
    BY <1>1, <1>9 DEF WriteBroadcast
  <2>2. PICK f : wh' = [wh EXCEPT ![t] = f] /\ f.pc \in {"bcast", "stop"}
    BY <1>0, <1>9, SettleStep
  <2>3. Owed(g) = Owed(h)
    BY <1>3, <2>1, <2>2 DEF Owed
  <2>4. Counting' = Counting
    BY <1>4, <1>9 DEF WriteBroadcast, Counting
  <2> QED
    BY <1>5, <1>9, <2>3, <2>4 DEF WriteBroadcast
<1>10. CASE WriteError(t)
  <2>1. h.pc = "write" /\ skipped' = skipped + h.removed /\ UNCHANGED <<acc, wire, sndqsz, spc>>
    BY <1>1, <1>10 DEF WriteError
  <2>2. PICK f : wh' = [wh EXCEPT ![t] = f] /\ f.pc = "stop"
    BY <1>0, <1>10, ErrorStep
  <2>3. Owed(g) = 0 /\ Owed(h) = h.removed
    BY <1>3, <2>1, <2>2 DEF Owed
  <2>4. Total(acc)' = Total(acc) /\ Total(Sizes)' = Total(Sizes) /\ Cardinality(Counting)' = Cardinality(Counting)
    BY <2>1 DEF Total, Sizes, Counting
  <2>5. sndqsz' = sndqsz + (Total(acc)' - Total(acc)) - (Total(Sizes)' - Total(Sizes))
                     + (Total(Owing)' - Total(Owing)) + (skipped' - skipped)
                     - (Cardinality(Counting)' - Cardinality(Counting))
    BY <1>2, <1>3, <1>4, <2>1, <2>3, <2>4
  <2>6. Total(Owing)' \in Int /\ skipped' \in Int
    BY <1>2, <1>3, <1>4, <2>1
  <2> QED
    BY <1>4, <2>4, <2>5, <2>6, Balance
<1>11. CASE WriteAcct(t)
  <2>1. h.pc = "acct" /\ sndqsz' = sndqsz - h.removed /\ UNCHANGED <<acc, wire, skipped, spc>>
    BY <1>1, <1>11 DEF WriteAcct
  <2>2. PICK f : wh' = [wh EXCEPT ![t] = f] /\ f.pc \in {"bcast", "stop"}
    BY <1>0, <1>11, SettleStep
  <2>3. Owed(g) = 0 /\ Owed(h) = h.removed
    BY <1>3, <2>1, <2>2 DEF Owed
  <2>4. Total(acc)' = Total(acc) /\ Total(Sizes)' = Total(Sizes) /\ Cardinality(Counting)' = Cardinality(Counting)
    BY <2>1 DEF Total, Sizes, Counting
  <2>5. sndqsz' = sndqsz + (Total(acc)' - Total(acc)) - (Total(Sizes)' - Total(Sizes))
                     + (Total(Owing)' - Total(Owing)) + (skipped' - skipped)
                     - (Cardinality(Counting)' - Cardinality(Counting))
    BY <1>2, <1>3, <1>4, <2>1, <2>3, <2>4
  <2>6. Total(Owing)' \in Int /\ skipped' \in Int
    BY <1>2, <1>3, <1>4, <2>1
  <2> QED
    BY <1>4, <2>4, <2>5, <2>6, Balance
<1>12. CASE Writev(t)
  <2>1. h.pc = "write" /\ UNCHANGED <<acc, sndqsz, skipped, spc>>
    BY <1>1, <1>12 DEF Writev
  <2>2. PICK l : l = wh[t].ol /\ ListOK(l)
    BY <1>0, Serving
  <2>a. PICK k \in 1..Len(l.s) : \E g1 : Wrote(t, c, l, k, g1)
    <3>1. c = wh[t].c /\ l = wh[t].ol
      BY <1>0, <2>2
    <3> QED
      BY <1>12, <3>1, WritevStep
  <2>3. PICK g1 : Wrote(t, c, l, k, g1)
    BY <2>a
  <2>4. /\ k \in Nat /\ wire' = [wire EXCEPT ![c] = @ \o SubSeq(l.s, 1, k)]
        /\ g.removed = h.removed + k /\ g.pc \in {"top", "write"}
    <3>1. g1 = g
      BY <1>3, <2>3 DEF Wrote
    <3> QED
      BY <1>1, <2>3, <3>1 DEF Wrote
  <2>5. Owed(g) = h.removed + k /\ Owed(h) = h.removed
    BY <2>1, <2>4 DEF Owed
  <2>6. Total(Sizes)' = Total(Sizes) + k
    <3>1. SubSeq(l.s, 1, k) \in Seq(Nat) /\ Len(SubSeq(l.s, 1, k)) = k
      BY <2>2, ListWritten
    <3>2. wire \in [Conns -> Seq(Nat)]
      BY DEF Shaped, HistoryOK
    <3>3. Len(wire[c] \o SubSeq(l.s, 1, k)) = Len(wire[c]) + k
      BY <3>1, <3>2
    <3>4. wire'[c] = wire[c] \o SubSeq(l.s, 1, k) /\ \A d \in Conns : d # c => wire'[d] = wire[d]
      BY <2>4, <3>2
    <3>5. PICK e \in [Conns -> Nat] : e = Sizes' /\ \A d \in Conns : e[d] = Len(wire'[d])
      <4>1. Sizes' \in [Conns -> Nat]
        BY NextTypes
      <4> QED
        BY <4>1 DEF Sizes
    <3>6. PICK f \in [Conns -> Nat] : f = Sizes /\ \A d \in Conns : f[d] = Len(wire[d])
      <4>1. Sizes \in [Conns -> Nat]
        BY TallyTypes
      <4> QED
        BY <4>1 DEF Sizes
    <3>7. e[c] = f[c] + k /\ \A d \in Conns : d # c => e[d] = f[d]
      BY <3>3, <3>4, <3>5, <3>6
    <3>8. Total(e) = Total(f) + k
      BY <2>4, <3>7, TotalPlus
    <3>9. Total(Sizes)' = Total(e)
      BY <3>5 DEF Total
    <3> QED
      BY <3>6, <3>8, <3>9
  <2>7. Total(acc)' = Total(acc) /\ Cardinality(Counting)' = Cardinality(Counting)
    BY <2>1 DEF Total, Counting
  <2>8. sndqsz' = sndqsz + (Total(acc)' - Total(acc)) - (Total(Sizes)' - Total(Sizes))
                     + (Total(Owing)' - Total(Owing)) + (skipped' - skipped)
                     - (Cardinality(Counting)' - Cardinality(Counting))
    <3>1. k \in Nat
      BY <2>4
    <3>2. Total(Owing)' = Total(Owing) + k /\ skipped' = skipped /\ sndqsz' = sndqsz
      BY <1>2, <1>3, <1>4, <2>1, <2>5, <3>1
    <3> QED
      BY <1>4, <2>6, <2>7, <3>1, <3>2
  <2>9. Total(Owing)' \in Int /\ skipped' \in Int /\ Total(Sizes)' \in Int
    BY <1>2, <1>3, <1>4, <2>1, <2>4, <2>5, <2>6
  <2> QED
    BY <1>4, <2>7, <2>8, <2>9, Balance
<1> QED
  BY <1>6, <1>7, <1>8, <1>9, <1>10, <1>11, <1>12 DEF WriteHandler

\* Every step keeps the accounting equation.
LEMMA AccountNext ==
    ASSUME Shaped, Shaped', Accounting, [Next]_vars
    PROVE  Accounting'
<1> USE DEF sendVars, sockVars, netVars, history
<1>1. ASSUME UNCHANGED <<acc, wire, skipped, sndqsz, spc, wh>>
      PROVE  Accounting'
  <2>1. Counting' = Counting /\ Total(Owing)' = Total(Owing)
    BY <1>1 DEF Counting, Total, Owing, Unsettled
  <2> QED
    BY <1>1, <2>1, AccountKept
<1>2. ASSUME NEW c \in Conns, WriteReady(c)
      PROVE  Accounting'
  <2>1. PICK t \in Threads : t = ThrOf[c]
    BY ThreadAssumption
  <2>2. PICK g : /\ wh' = [wh EXCEPT ![t] = g] /\ g.c = c /\ g.pc = "top" /\ g.removed = 0
                 /\ wh[t] = NoHandler
    BY <1>2, <2>1, ReadyStep
  <2>3. HandlerOf(c) = NoHandler /\ HandlerOf(c)' = g
        /\ \A d \in Conns : d # c => HandlerOf(d)' = HandlerOf(d)
    <3>1. ThrOf[c] = t
      BY <2>1
    <3>2. /\ HandlerIn(wh, c) = wh[t] /\ HandlerIn(wh', c) = g
          /\ \A d \in Conns : d # c => HandlerIn(wh', d) = HandlerIn(wh, d)
      <4>1. wh[t].c \in {0, c} /\ (wh[t].c = 0 => wh[t] = NoHandler)
        BY <2>2, EmptyShapes
      <4>2. g.c \in {0, c} /\ (g.c = 0 => g = NoHandler)
        BY <2>2, EmptyShapes
      <4>3. wh' = [wh EXCEPT ![t] = g]
        BY <2>2
      <4> QED
        BY <3>1, <4>1, <4>2, <4>3, HandlerOfMoves
    <3> QED
      BY <2>2, <3>2 DEF HandlerOf, HandlerIn
  <2>4. Owed(g) = 0 /\ Owed(NoHandler) = 0
    BY <2>2, EmptyShapes DEF Owed
  <2>5. Total(Owing)' = Total(Owing) + Owed(g) - Owed(NoHandler) /\ Total(Owing) \in Int
    BY <2>3, OwingMoves, TallyTypes
  <2>6. Total(Owing)' = Total(Owing)
    BY <2>4, <2>5
  <2> QED
    BY <1>2, <2>6, AccountKept DEF WriteReady, Counting
<1>3. ASSUME NEW c \in Conns, CloseConn(c) \/ PeerReads(c) \/ PeerCloses(c)
      PROVE  Accounting'
  BY <1>1, <1>3 DEF CloseConn, PeerReads, PeerCloses
<1>4. ASSUME NEW t \in Threads, Async(t) \/ Run(t)
      PROVE  Accounting'
  BY <1>1, <1>4 DEF Async, Run
<1>5. CASE UNCHANGED vars
  BY <1>1, <1>5 DEF vars
<1> QED
  BY <1>2, <1>3, <1>4, <1>5, AccountSender, AccountHandler DEF Next

\* The stop flag follows the count: each change of the count is followed, in the
\* same critical section, by the test against the mark.
LEMMA StopNext ==
    ASSUME Shaped, StopExact, [Next]_vars
    PROVE  StopExact'
<1> USE DEF sendVars, sockVars, netVars, history, STOP_OP
<1>0. sndqsz \in Int /\ SndHwm \in Nat /\ writing \in {0, STOP_OP} /\ wantWcond \in {0, 1}
  BY SendAssumption DEF Shaped, FlagsOK
<1>1. ASSUME UNCHANGED <<writing, sndqsz>>
      PROVE  StopExact'
  BY <1>1 DEF StopExact
<1>2. ASSUME NEW s \in Senders, SendCount(s)
      PROVE  StopExact'
  BY <1>0, <1>2 DEF SendCount, StopExact, Stops
<1>3. ASSUME NEW s \in Senders, \/ SendLook(s) \/ SendNoMem(s)
                                \/ SendWait(s) \/ SendInsert(s) \/ SpuriousWakeup(s) \/ \E c \in Conns : SendCall(s, c)
      PROVE  StopExact'
  BY <1>1, <1>3 DEF SendWait, SendInsert, SpuriousWakeup, SendLook, SendNoMem, SendCall
<1>4. ASSUME NEW t \in Threads, WriteAcct(t)
      PROVE  StopExact'
  <2>1. wh[t].removed \in Nat
    BY DEF Shaped, HandlersOK, WHandler
  <2> DEFINE q == sndqsz - wh[t].removed
             resumes == SndHwm > 0 /\ writing = STOP_OP /\ Resumes(q)
  <2>2. q \in Int /\ q <= sndqsz
    BY <1>0, <2>1
  <2>3. sndqsz' = q /\ writing' = IF resumes THEN 0 ELSE writing
    BY <1>4 DEF WriteAcct
  <2> HIDE DEF q
  <2> QED
    BY <1>0, <2>2, <2>3 DEF StopExact, Resumes
<1>5. ASSUME NEW t \in Threads,
             \/ WriteTop(t) \/ Writev(t) \/ WriteAgain(t) \/ WriteError(t) \/ WriteBroadcast(t)
             \/ WriteStop(t) \/ Async(t) \/ Run(t)
      PROVE  StopExact'
  BY <1>1, <1>5 DEF WriteTop, Writev, WriteAgain, WriteError, WriteBroadcast, WriteStop, Async, Run
<1>6. ASSUME NEW c \in Conns, WriteReady(c) \/ CloseConn(c) \/ PeerReads(c) \/ PeerCloses(c)
      PROVE  StopExact'
  BY <1>1, <1>6 DEF WriteReady, CloseConn, PeerReads, PeerCloses
<1>7. CASE UNCHANGED vars
  BY <1>1, <1>7 DEF vars
<1> QED
  BY <1>2, <1>3, <1>4, <1>5, <1>6, <1>7 DEF Next, Sends, WriteHandler

\* It holds of a new socket, whose stop flag is clear.
LEMMA MarkInit ==
    ASSUME Init
    PROVE  Accounting /\ StopExact
<1>1. Shaped
  BY SendInit
<1> USE DEF Init
<1>2. StopExact
  BY SendAssumption DEF StopExact, STOP_OP
<1>3. \A f \in [Conns -> Nat] : (\A c \in Conns : f[c] = 0) => Total(f) = 0
  <2> SUFFICES ASSUME NEW f \in [Conns -> Nat], \A c \in Conns : f[c] = 0 PROVE Total(f) = 0
    OBVIOUS
  <2>1. Cells(f) = {}
    <3> SUFFICES ASSUME NEW x \in Cells(f) PROVE FALSE
      OBVIOUS
    <3>1. PICK d \in Conns : x \in {d} \X (1..f[d])
      BY DEF Cells
    <3>2. x[2] \in 1..f[d] /\ f[d] = 0
      BY <3>1
    <3> QED
      BY <3>2
  <2> QED
    BY <2>1, TotalType, FS_EmptySet
<1>4. \A c \in Conns : acc[c] = 0 /\ Sizes[c] = 0 /\ Owing[c] = 0
  <2> TAKE c \in Conns
  <2>1. ThrOf[c] \in Threads
    BY ThreadAssumption
  <2>2. wh[ThrOf[c]] = NoHandler
    BY <2>1
  <2>3. Unsettled(c) = 0
    BY <2>2, EmptyShapes DEF Unsettled
  <2> QED
    BY <2>3 DEF Sizes, Owing
<1>5. Total(acc) = 0 /\ Total(Sizes) = 0 /\ Total(Owing) = 0
  BY <1>1, <1>3, <1>4, TallyTypes
<1>6. Counting = {}
  BY DEF Counting
<1>7. Cardinality(Counting) = 0
  BY <1>6, FS_EmptySet
<1> QED
  BY <1>2, <1>5, <1>7, AccountingIs

-----------------------------------------------------------------------------
(* The way of a frame: the out list l of its connection, the list k taken  *)
(* by the handler, the wire w.  n frames have been inserted.               *)
OnWay(w, k, l, n) ==
    /\ Rising(w) /\ Rising(k.s) /\ Rising(l.s)
    /\ Below(Elems(w), Elems(k.s)) /\ Below(Elems(w), Elems(l.s)) /\ Below(Elems(k.s), Elems(l.s))
    /\ Below(Elems(w) \cup Elems(k.s) \cup Elems(l.s), {n + 1})

\* No frame is lost, and both last pointers are right.
Whole(w, k, l, n) == Full(k) /\ Full(l) /\ w \o k.s \o l.s = Upto(n)

\* Nothing on the way changes nothing.
LEMMA EmptyWay ==
    ASSUME NEW w \in Seq(Nat)
    PROVE  /\ Elems(<< >>) = {} /\ Rising(<< >>) /\ w \o << >> = w /\ << >> \o w = w
  BY DEF Elems, Rising

\* Concatenation is associative.
LEMMA NatConcat ==
    ASSUME NEW s \in Seq(Nat), NEW t \in Seq(Nat), NEW u \in Seq(Nat)
    PROVE  (s \o t) \o u = s \o (t \o u) /\ s \o t \in Seq(Nat)
<1>1. (s \o t) \o u = s \o (t \o u)
  OBVIOUS
<1>2. s \o t \in Seq(Nat)
  BY ConcatRising
<1> QED
  BY <1>1, <1>2

\* An insertion behind the last pointer.
LEMMA WayInsert ==
    ASSUME NEW w \in Seq(Nat), NEW k, NEW l, NEW n \in Nat, ListOK(k), ListOK(l), OnWay(w, k, l, n)
    PROVE  /\ OnWay(w, k, Insert(l, n + 1), n + 1)
           /\ Whole(w, k, l, n) => Whole(w, k, Insert(l, n + 1), n + 1)
<1> DEFINE i == Insert(l, n + 1)
<1>0. /\ w \in Seq(Nat) /\ k.s \in Seq(Nat) /\ l.s \in Seq(Nat) /\ n + 1 \in Nat
      /\ Elems(w) \subseteq Nat /\ Elems(k.s) \subseteq Nat /\ Elems(l.s) \subseteq Nat
  BY DEF ListOK, OutList, Elems
<1>1. /\ Elems(i.s) \subseteq Elems(l.s) \cup {n + 1}
      /\ Rising(l.s) /\ Below(Elems(l.s), {n + 1}) => Rising(i.s)
      /\ Full(l) => Full(i) /\ i.s = Append(l.s, n + 1)
  BY <1>0, ListInsert
<1> HIDE DEF i
<1>2. OnWay(w, k, i, n + 1)
  <2>1. Rising(i.s)
    BY <1>1 DEF OnWay, Below
  <2>2. Below(Elems(w), Elems(i.s)) /\ Below(Elems(k.s), Elems(i.s))
    BY <1>1 DEF OnWay, Below
  <2>3. Below(Elems(w) \cup Elems(k.s) \cup Elems(i.s), {n + 1 + 1})
    <3>1. \A x \in Elems(w) \cup Elems(k.s) \cup Elems(l.s) : x < n + 1 /\ x \in Nat
      BY <1>0 DEF OnWay, Below
    <3>2. \A x \in Elems(w) \cup Elems(k.s) \cup Elems(i.s) : x < n + 1 + 1
      BY <1>0, <1>1, <3>1
    <3> QED
      BY <3>2 DEF Below
  <2> QED
    BY <2>1, <2>2, <2>3 DEF OnWay
<1>3. ASSUME Whole(w, k, l, n)
      PROVE  Whole(w, k, i, n + 1)
  <2>1. Full(i) /\ i.s = Append(l.s, n + 1) /\ Full(k)
    BY <1>1, <1>3 DEF Whole
  <2>2. PICK a \in Seq(Nat) : a = w \o k.s
    <3>1. k.s \in Seq(Nat)
      BY <1>0
    <3>2. w \o k.s \in Seq(Nat)
      BY <3>1, NatConcat
    <3> QED
      BY <3>2
  <2>3. a \o Append(l.s, n + 1) = Append(a \o l.s, n + 1)
    <3>1. Append(l.s, n + 1) = l.s \o <<n + 1>>
      BY <1>0, AppendIsConcat
    <3>2. a \o (l.s \o <<n + 1>>) = (a \o l.s) \o <<n + 1>>
      <4>1. <<n + 1>> \in Seq(Nat)
        BY <1>0
      <4> QED
        BY <1>0, <4>1, NatConcat
    <3>3. a \o l.s \in Seq(Nat)
      BY <1>0, <2>2
    <3>4. Append(a \o l.s, n + 1) = (a \o l.s) \o <<n + 1>>
      BY <1>0, <3>3, AppendIsConcat
    <3> QED
      BY <3>1, <3>2, <3>4
  <2>4. a \o l.s = Upto(n)
    BY <1>3, <2>2 DEF Whole
  <2>5. Append(Upto(n), n + 1) = Upto(n + 1)
    <3>1. Upto(n) \in Seq(Nat) /\ Len(Upto(n)) = n /\ \A x \in 1..n : Upto(n)[x] = x
      BY DEF Upto
    <3>2. Upto(n + 1) \in Seq(Nat) /\ Len(Upto(n + 1)) = n + 1 /\ \A x \in 1..(n + 1) : Upto(n + 1)[x] = x
      BY DEF Upto
    <3> QED
      BY <3>1, <3>2
  <2> QED
    BY <2>1, <2>2, <2>3, <2>4, <2>5 DEF Whole
<1> QED
  BY <1>2, <1>3 DEF i

\* The handler takes the whole list.
LEMMA WayTake ==
    ASSUME NEW w \in Seq(Nat), NEW k, NEW l, NEW n \in Nat, ListOK(l), k.s = << >>, OnWay(w, k, l, n)
    PROVE  /\ OnWay(w, l, EmptyList, n)
           /\ Whole(w, k, l, n) => Whole(w, l, EmptyList, n)
<1>0. l.s \in Seq(Nat) /\ w \o l.s \in Seq(Nat)
  BY DEF ListOK, OutList
<1>1. OnWay(w, l, EmptyList, n)
  BY EmptyWay, EmptyShapes DEF OnWay, Below
<1>2. w \o << >> = w /\ (w \o l.s) \o << >> = w \o l.s
  BY <1>0, EmptyWay
<1> QED
  BY <1>1, <1>2, EmptyShapes DEF Whole

\* writev takes j frames.
LEMMA WayWrite ==
    ASSUME NEW w \in Seq(Nat), NEW k, NEW l, NEW n \in Nat, ListOK(k), ListOK(l), OnWay(w, k, l, n),
           NEW j \in 1..Len(k.s)
    PROVE  /\ OnWay(w \o SubSeq(k.s, 1, j), Written(k, j), l, n)
           /\ Whole(w, k, l, n) => Whole(w \o SubSeq(k.s, 1, j), Written(k, j), l, n)
<1> DEFINE a == SubSeq(k.s, 1, j)
           b == Written(k, j)
<1>0. k.s \in Seq(Nat) /\ l.s \in Seq(Nat)
  BY DEF ListOK, OutList
<1>1. /\ ListOK(b) /\ a \in Seq(Nat) /\ Len(a) = j /\ a \o b.s = k.s
      /\ Elems(a) \subseteq Elems(k.s) /\ Elems(b.s) \subseteq Elems(k.s)
      /\ Rising(k.s) => Rising(a) /\ Rising(b.s) /\ Below(Elems(a), Elems(b.s))
      /\ Full(k) => Full(b)
  BY ListWritten
<1> HIDE DEF a, b
<1>2. b.s \in Seq(Nat)
  BY <1>1 DEF ListOK, OutList
<1>3. /\ w \o a \in Seq(Nat) /\ Elems(w \o a) = Elems(w) \cup Elems(a)
      /\ Rising(w) /\ Rising(a) /\ Below(Elems(w), Elems(a)) => Rising(w \o a)
  BY <1>1, ConcatRising
<1>4. OnWay(w \o a, b, l, n)
  <2>1. Rising(w \o a)
    BY <1>1, <1>3 DEF OnWay, Below
  <2>2. Rising(b.s) /\ Rising(l.s)
    BY <1>1 DEF OnWay
  <2>3. Below(Elems(w \o a), Elems(b.s)) /\ Below(Elems(w \o a), Elems(l.s)) /\ Below(Elems(b.s), Elems(l.s))
    BY <1>1, <1>3 DEF OnWay, Below
  <2>4. Below(Elems(w \o a) \cup Elems(b.s) \cup Elems(l.s), {n + 1})
    BY <1>1, <1>3 DEF OnWay, Below
  <2> QED
    BY <2>1, <2>2, <2>3, <2>4 DEF OnWay
<1>5. ASSUME Whole(w, k, l, n)
      PROVE  Whole(w \o a, b, l, n)
  <2>1. (w \o a) \o b.s = w \o (a \o b.s)
    BY <1>1, <1>2, NatConcat
  <2> QED
    BY <1>1, <1>5, <2>1 DEF Whole
<1> QED
  BY <1>4, <1>5 DEF a, b

\* The list goes back in front of the frames inserted since.
LEMMA WayBack ==
    ASSUME NEW w \in Seq(Nat), NEW k, NEW l, NEW n \in Nat, ListOK(k), ListOK(l), OnWay(w, k, l, n),
           k.s # << >>, NEW e, e.s = << >>
    PROVE  /\ OnWay(w, e, Merge(k, l), n)
           /\ Whole(w, k, l, n) /\ Full(e) /\ l.s = << >> => Whole(w, e, Merge(k, l), n)
<1> DEFINE m == Merge(k, l)
<1>0. k.s \in Seq(Nat) /\ l.s \in Seq(Nat) /\ w \o k.s \in Seq(Nat)
  BY DEF ListOK, OutList
<1>1. /\ Elems(m.s) \subseteq Elems(k.s) \cup Elems(l.s)
      /\ Rising(k.s) /\ Rising(l.s) /\ Below(Elems(k.s), Elems(l.s)) => Rising(m.s)
      /\ l.s = << >> => m.s = k.s /\ m.last = k.last
  BY ListMerge
<1> HIDE DEF m
<1>2. OnWay(w, e, m, n)
  BY <1>1, EmptyWay DEF OnWay, Below
<1>3. ASSUME Whole(w, k, l, n), Full(e), l.s = << >>
      PROVE  Whole(w, e, m, n)
  <2>1. w \o << >> = w /\ (w \o k.s) \o << >> = w \o k.s
    BY <1>0, EmptyWay
  <2> QED
    BY <1>1, <1>3, <2>1 DEF Whole, Full
<1> QED
  BY <1>2, <1>3 DEF m

-----------------------------------------------------------------------------
(* The wire.                                                               *)
WireInv(c) == /\ OnWay(wire[c], HandlerOf(c).ol, ol[c], acc[c])
              /\ ~spliced[c] => Whole(wire[c], HandlerOf(c).ol, ol[c], acc[c])
Wires == \A c \in Conns : WireInv(c)

\* What the invariant of a connection is a function of.
WireOf(w, h, l, n, b) == OnWay(w, h.ol, l, n) /\ (~b => Whole(w, h.ol, l, n))

\* What the invariant says of one connection, as a formula in the values it depends on.
LEMMA WireInvIs ==
    ASSUME NEW c \in Conns
    PROVE  /\ WireInv(c) <=> WireOf(wire[c], HandlerOf(c), ol[c], acc[c], spliced[c])
           /\ WireInv(c)' <=> WireOf(wire'[c], HandlerOf(c)', ol'[c], acc'[c], spliced'[c])
<1>1. WireInv(c) <=> WireOf(wire[c], HandlerOf(c), ol[c], acc[c], spliced[c])
  BY DEF WireInv, WireOf
<1>2. WireInv(c)' <=> WireOf(wire'[c], HandlerOf(c)', ol'[c], acc'[c], spliced'[c])
  BY DEF WireInv, WireOf, OnWay, Whole, HandlerOf, HandlerIn, Full
<1> QED
  BY <1>1, <1>2

\* The types of those values.
LEMMA WireTypes ==
    ASSUME Shaped, NEW c \in Conns
    PROVE  /\ wire[c] \in Seq(Nat) /\ ListOK(ol[c]) /\ ListOK(HandlerOf(c).ol) /\ acc[c] \in Nat
           /\ spliced[c] \in BOOLEAN /\ ThrOf[c] \in Threads
  BY HandlerOfTypes, ThreadAssumption DEF Shaped, ListsOK, HistoryOK

\* Only connection c is concerned.
LEMMA WiresMove ==
    ASSUME Wires, NEW c \in Conns,
           \A d \in Conns : d # c => /\ wire'[d] = wire[d] /\ HandlerOf(d)' = HandlerOf(d)
                                     /\ ol'[d] = ol[d] /\ acc'[d] = acc[d] /\ spliced'[d] = spliced[d],
           WireOf(wire'[c], HandlerOf(c)', ol'[c], acc'[c], spliced'[c])
    PROVE  Wires'
<1>1. \A d \in Conns : WireInv(d)'
  <2> TAKE d \in Conns
  <2>1. CASE d = c
    BY <2>1, WireInvIs
  <2>2. CASE d # c
    <3>1. WireOf(wire[d], HandlerOf(d), ol[d], acc[d], spliced[d])
      BY WireInvIs DEF Wires
    <3>2. WireOf(wire'[d], HandlerOf(d)', ol'[d], acc'[d], spliced'[d])
      BY <2>2, <3>1
    <3> QED
      BY <3>2, WireInvIs
  <2> QED
    BY <2>1, <2>2
<1> QED
  BY <1>1 DEF Wires

\* Steps that change none of them keep the invariant.
LEMMA WiresKeep ==
    ASSUME Wires, UNCHANGED <<wire, wh, ol, acc, spliced>>
    PROVE  Wires'
<1>1. \A d \in Conns : WireInv(d)'
  <2> TAKE d \in Conns
  <2>1. WireInv(d)
    BY DEF Wires
  <2> QED
    BY <2>1 DEF WireInv, OnWay, Whole, Full, HandlerOf, HandlerIn
<1> QED
  BY <1>1 DEF Wires

\* An insert adds a frame with the next number behind all others.
LEMMA WiresInsert ==
    ASSUME Shaped, Wires, NEW s \in Senders, SendInsert(s)
    PROVE  Wires'
<1>1. PICK c \in Conns : c = sconn[s]
  BY DEF Shaped, SendersOK
<1>2. /\ ol' = [ol EXCEPT ![c] = Insert(@, acc[c] + 1)] /\ acc' = [acc EXCEPT ![c] = @ + 1]
      /\ UNCHANGED <<wh, wire, spliced>>
  BY <1>1 DEF SendInsert
<1>3. /\ ol'[c] = Insert(ol[c], acc[c] + 1) /\ acc'[c] = acc[c] + 1
      /\ \A d \in Conns : d # c => ol'[d] = ol[d] /\ acc'[d] = acc[d]
  BY <1>2 DEF Shaped, ListsOK, HistoryOK
<1>4. \A d \in Conns : HandlerOf(d)' = HandlerOf(d)
  BY <1>2 DEF HandlerOf, HandlerIn
<1>5. WireOf(wire[c], HandlerOf(c), ol[c], acc[c], spliced[c])
  BY WireInvIs DEF Wires
<1>6. PICK w, h, l, n, b :
         w = wire[c] /\ h = HandlerOf(c) /\ l = ol[c] /\ n = acc[c] /\ b = spliced[c]
  OBVIOUS
<1>9. w \in Seq(Nat) /\ n \in Nat /\ ListOK(h.ol) /\ ListOK(l)
  BY <1>6, WireTypes
<1>7. WireOf(w, h, Insert(l, n + 1), n + 1, b)
  BY <1>5, <1>6, <1>9, WayInsert DEF WireOf
<1>8. WireOf(wire'[c], HandlerOf(c)', ol'[c], acc'[c], spliced'[c])
  BY <1>2, <1>3, <1>4, <1>6, <1>7
<1> QED
  BY <1>2, <1>3, <1>4, <1>8, WiresMove

\* A handler moves frames from the list over its own to the wire, in order.
LEMMA WiresHandler ==
    ASSUME Shaped, Wires, NEW t \in Threads, WriteHandler(t)
    PROVE  Wires'
<1> USE DEF sendVars, sockVars, netVars, history
<1>0. PICK c \in Conns, g \in WHandler :
              /\ HandlerOf(c) = wh[t] /\ HandlerOf(c)' = g /\ c = wh[t].c /\ ThrOf[c] = t
              /\ wh' = [wh EXCEPT ![t] = g] /\ (g = NoHandler \/ g.c = c) /\ wh[t].pc # "idle"
              /\ \A d \in Conns : d # c => HandlerOf(d)' = HandlerOf(d)
  BY HandlerStep
<1>a. PICK w, h, l, n, b :
         w = wire[c] /\ h = HandlerOf(c) /\ l = ol[c] /\ n = acc[c] /\ b = spliced[c]
  OBVIOUS
<1>b. w \in Seq(Nat) /\ n \in Nat /\ b \in BOOLEAN /\ ListOK(h.ol) /\ ListOK(l)
  BY <1>a, WireTypes
<1>1. /\ w = wire[c] /\ h = HandlerOf(c) /\ l = ol[c] /\ n = acc[c] /\ b = spliced[c]
      /\ w \in Seq(Nat) /\ n \in Nat /\ b \in BOOLEAN /\ ListOK(h.ol) /\ ListOK(l)
  BY <1>a, <1>b
<1>2. WireOf(w, h, l, n, b)
  BY <1>1, WireInvIs DEF Wires
<1>3. /\ h = wh[t] /\ wh'[t] = g /\ wh \in [Threads -> WHandler] /\ h \in WHandler
      /\ h.pc = "write" <=> h.ol.s # << >>
  BY <1>0, <1>1, Serving
<1>4. /\ ol \in [Conns -> OutList] /\ acc \in [Conns -> Nat] /\ wire \in [Conns -> Seq(Nat)]
      /\ spliced \in [Conns -> BOOLEAN]
  BY DEF Shaped, ListsOK, HistoryOK
<1>5. ASSUME NEW v, NEW m, NEW a, WireOf(v, g, m, n, a), v = wire'[c], m = ol'[c], acc' = acc,
             a = spliced'[c],
             \A d \in Conns : d # c => wire'[d] = wire[d] /\ ol'[d] = ol[d] /\ spliced'[d] = spliced[d]
      PROVE  Wires'
  <2>1. WireOf(wire'[c], HandlerOf(c)', ol'[c], acc'[c], spliced'[c])
    BY <1>0, <1>1, <1>5
  <2> QED
    BY <1>0, <1>5, <2>1, WiresMove
<1>6. CASE WriteTop(t)
  <2>1. PICK f : /\ HandlerOK(t, f) /\ wh' = [wh EXCEPT ![t] = f]
                 /\ \/ ol' = ol /\ f.ol = wh[t].ol
                    \/ /\ f.ol = ol[c] /\ ol' = [ol EXCEPT ![c] = EmptyList]
    <3>1. c = wh[t].c
      BY <1>0
    <3> QED
      BY <1>6, <3>1, TopStep
  <2>2. f = g
    BY <1>3, <2>1
  <2>3. UNCHANGED <<acc, wire, spliced>> /\ h.ol.s = << >>
    BY <1>3, <1>6 DEF WriteTop
  <2>4. CASE ol' = ol /\ f.ol = wh[t].ol
    <3>1. WireOf(w, g, l, n, b)
      BY <1>2, <1>3, <2>2, <2>4 DEF WireOf
    <3> QED
      BY <1>1, <1>5, <2>3, <2>4, <3>1
  <2>5. CASE f.ol = ol[c] /\ ol' = [ol EXCEPT ![c] = EmptyList]
    <3>1. WireOf(w, g, EmptyList, n, b)
      BY <1>1, <1>2, <2>2, <2>3, <2>5, WayTake DEF WireOf
    <3>2. ol'[c] = EmptyList /\ \A d \in Conns : d # c => ol'[d] = ol[d]
      BY <1>4, <2>5
    <3> QED
      BY <1>1, <1>5, <2>3, <3>1, <3>2
  <2> QED
    BY <2>1, <2>4, <2>5
<1>7. CASE Writev(t)
  <2>1. PICK k : k = wh[t].ol /\ k = h.ol /\ ListOK(k)
    BY <1>1, <1>3
  <2>a. PICK j \in 1..Len(k.s) : \E f : Wrote(t, c, k, j, f)
    <3>1. c = wh[t].c /\ k = wh[t].ol
      BY <1>0, <2>1
    <3> QED
      BY <1>7, <3>1, WritevStep
  <2>2. PICK f : Wrote(t, c, k, j, f)
    BY <2>a
  <2>3. /\ wire' = [wire EXCEPT ![c] = @ \o SubSeq(k.s, 1, j)] /\ g.ol = Written(k, j)
    <3>1. f = g
      BY <1>3, <2>2 DEF Wrote
    <3> QED
      BY <2>2, <3>1 DEF Wrote
  <2>4. UNCHANGED <<acc, ol, spliced>>
    BY <1>7 DEF Writev
  <2>5. WireOf(w \o SubSeq(k.s, 1, j), g, l, n, b)
    BY <1>1, <1>2, <2>1, <2>3, WayWrite DEF WireOf
  <2>6. wire'[c] = w \o SubSeq(k.s, 1, j) /\ \A d \in Conns : d # c => wire'[d] = wire[d]
    BY <1>1, <1>4, <2>3
  <2> QED
    BY <1>1, <1>5, <2>4, <2>5, <2>6
<1>8. CASE WriteAgain(t)
  <2>1. /\ h.pc = "write" /\ h.ol.s # << >> /\ ol' = [ol EXCEPT ![c] = Merge(h.ol, @)]
        /\ spliced' = [spliced EXCEPT ![c] = @ \/ ol[c].s # << >>] /\ UNCHANGED <<acc, wire>>
    <3>1. /\ wh[t].pc = "write" /\ wh[t].ol.s # << >>
          /\ ol' = [ol EXCEPT ![wh[t].c] = Merge(wh[t].ol, @)]
          /\ spliced' = [spliced EXCEPT ![wh[t].c] = @ \/ ol[wh[t].c].s # << >>]
          /\ UNCHANGED <<acc, wire>>
      BY <1>8 DEF WriteAgain
    <3>2. wh[t] = h /\ wh[t].c = c
      BY <1>0, <1>3
    <3> QED
      BY <3>1, <3>2
  <2>2. g.ol = EmptyList
    <3>1. wh' = [wh EXCEPT ![t] = IF @.removed = 0 THEN NoHandler
                                  ELSE [@ EXCEPT !.pc = "top", !.ol = EmptyList]]
      BY <1>8 DEF WriteAgain
    <3>2. wh'[t] = IF h.removed = 0 THEN NoHandler ELSE [h EXCEPT !.pc = "top", !.ol = EmptyList]
      BY <1>3, <3>1
    <3>3. [h EXCEPT !.pc = "top", !.ol = EmptyList].ol = EmptyList
      BY <1>3 DEF WHandler
    <3> QED
      BY <1>3, <3>2, <3>3, EmptyShapes
  <2>3. PICK a \in BOOLEAN : a = (b \/ l.s # << >>)
    OBVIOUS
  <2>4. spliced'[c] = a /\ \A d \in Conns : d # c => spliced'[d] = spliced[d]
    <3>1. spliced' = [spliced EXCEPT ![c] = a]
      BY <1>1, <2>1, <2>3
    <3> QED
      BY <1>4, <3>1
  <2>5. ol'[c] = Merge(h.ol, l) /\ \A d \in Conns : d # c => ol'[d] = ol[d]
    BY <1>1, <1>4, <2>1
  <2>6. WireOf(w, g, Merge(h.ol, l), n, a)
    <3>1. PICK k, e : k = h.ol /\ e = g.ol /\ ListOK(k) /\ k.s # << >> /\ e.s = << >> /\ Full(e)
      BY <1>1, <2>1, <2>2, EmptyShapes
    <3>2. OnWay(w, k, l, n) /\ (~b => Whole(w, k, l, n))
      BY <1>2, <3>1 DEF WireOf
    <3>3. /\ OnWay(w, e, Merge(k, l), n)
          /\ Whole(w, k, l, n) /\ Full(e) /\ l.s = << >> => Whole(w, e, Merge(k, l), n)
      BY <1>1, <3>1, <3>2, WayBack
    <3> QED
      BY <2>3, <3>1, <3>2, <3>3 DEF WireOf
  <2> QED
    BY <1>1, <1>5, <2>1, <2>4, <2>5, <2>6
<1>9. CASE WriteError(t)
  <2>1. UNCHANGED <<ol, acc, wire>> /\ spliced' = [spliced EXCEPT ![c] = TRUE]
    BY <1>0, <1>9 DEF WriteError
  <2>2. g.ol = EmptyList
    BY <1>0, <1>3, <1>9 DEF WriteError, WHandler
  <2>3. spliced'[c] = TRUE /\ \A d \in Conns : d # c => spliced'[d] = spliced[d]
    BY <1>4, <2>1
  <2>4. WireOf(w, g, l, n, TRUE)
    BY <1>1, <1>2, <2>2, EmptyShapes, EmptyWay DEF WireOf, OnWay, Below
  <2> QED
    BY <1>1, <1>5, <2>1, <2>3, <2>4
<1>10. CASE WriteAcct(t) \/ WriteBroadcast(t)
  <2>1. PICK f : wh' = [wh EXCEPT ![t] = f] /\ f.ol = wh[t].ol
    <3>1. c = wh[t].c
      BY <1>0
    <3> QED
      BY <1>10, <3>1, SettleStep
  <2>2. g.ol = h.ol
    BY <1>3, <2>1
  <2>3. WireOf(w, g, l, n, b)
    BY <1>2, <2>2 DEF WireOf
  <2>4. UNCHANGED <<ol, acc, wire, spliced>>
    BY <1>10 DEF WriteAcct, WriteBroadcast
  <2> QED
    BY <1>1, <1>5, <2>3, <2>4
<1>11. CASE WriteStop(t)
  <2>1. wh' = [wh EXCEPT ![t] = NoHandler] /\ UNCHANGED <<ol, acc, wire, spliced>> /\ h.ol.s = << >>
    BY <1>3, <1>11 DEF WriteStop
  <2>2. g.ol = EmptyList
    BY <1>0, <1>3, <2>1, EmptyShapes
  <2>3. WireOf(w, g, l, n, b)
    BY <1>1, <1>2, <2>1, <2>2, EmptyShapes, EmptyWay DEF WireOf, OnWay, Below, Whole
  <2> QED
    BY <1>1, <1>5, <2>1, <2>3
<1> QED
  BY <1>6, <1>7, <1>8, <1>9, <1>10, <1>11 DEF WriteHandler

\* Every step keeps the order on the way of each connection.
LEMMA WiresNext ==
    ASSUME Shaped, Wires, [Next]_vars
    PROVE  Wires'
<1> USE DEF sendVars, sockVars, netVars, history
<1>1. ASSUME NEW s \in Senders, \/ SendLook(s) \/ SendNoMem(s)
                                \/ SendWait(s) \/ SendCount(s) \/ SpuriousWakeup(s) \/ \E c \in Conns : SendCall(s, c)
      PROVE  Wires'
  BY <1>1, WiresKeep DEF SendWait, SendCount, SpuriousWakeup, SendLook, SendNoMem, SendCall
<1>2. ASSUME NEW c \in Conns, CloseConn(c) \/ PeerReads(c) \/ PeerCloses(c)
      PROVE  Wires'
  BY <1>2, WiresKeep DEF CloseConn, PeerReads, PeerCloses
<1>3. ASSUME NEW t \in Threads, Async(t) \/ Run(t)
      PROVE  Wires'
  BY <1>3, WiresKeep DEF Async, Run
<1>4. ASSUME NEW c \in Conns, WriteReady(c)
      PROVE  Wires'
  <2>1. PICK t \in Threads : t = ThrOf[c] /\ ThrOf[c] = t
    BY ThreadAssumption
  <2>2. PICK g : /\ wh' = [wh EXCEPT ![t] = g] /\ g.c = c /\ g.ol = EmptyList
                 /\ wh[t] = NoHandler
    <3>1. wh' = [wh EXCEPT ![t] = [NoHandler EXCEPT !.pc = "top", !.c = c]] /\ wh[t] = NoHandler
      BY <1>4, <2>1, ReadyStep DEF WriteReady
    <3>2. PICK g : g = [NoHandler EXCEPT !.pc = "top", !.c = c]
      OBVIOUS
    <3>3. g.c = c /\ g.ol = EmptyList
      BY <3>2 DEF NoHandler
    <3> QED
      BY <3>1, <3>2, <3>3
  <2>3. HandlerOf(c) = NoHandler /\ HandlerOf(c)' = g
        /\ \A d \in Conns : d # c => HandlerOf(d)' = HandlerOf(d)
    <3>2. /\ HandlerIn(wh, c) = wh[t] /\ HandlerIn(wh', c) = g
          /\ \A d \in Conns : d # c => HandlerIn(wh', d) = HandlerIn(wh, d)
      <4>1. wh[t].c \in {0, c} /\ (wh[t].c = 0 => wh[t] = NoHandler)
        BY <2>2, EmptyShapes
      <4>2. g.c \in {0, c} /\ (g.c = 0 => g = NoHandler)
        BY <2>2, EmptyShapes
      <4>3. wh' = [wh EXCEPT ![t] = g] /\ ThrOf[c] = t
        BY <2>1, <2>2
      <4> QED
        BY <4>1, <4>2, <4>3, HandlerOfMoves
    <3> QED
      BY <2>2, <3>2 DEF HandlerOf, HandlerIn
  <2>4. WireOf(wire[c], HandlerOf(c), ol[c], acc[c], spliced[c])
    BY WireInvIs DEF Wires
  <2>5. UNCHANGED <<wire, ol, acc, spliced>>
    BY <1>4 DEF WriteReady
  <2>6. g.ol = NoHandler.ol
    BY <2>2, EmptyShapes
  <2>7. WireOf(wire[c], g, ol[c], acc[c], spliced[c])
    BY <2>3, <2>4, <2>6 DEF WireOf
  <2>8. WireOf(wire'[c], HandlerOf(c)', ol'[c], acc'[c], spliced'[c])
    BY <2>3, <2>5, <2>7
  <2> QED
    BY <2>3, <2>5, <2>8, WiresMove
<1>5. CASE UNCHANGED vars
  BY <1>5, WiresKeep DEF vars
<1> QED
  BY <1>1, <1>2, <1>3, <1>4, <1>5, WiresInsert, WiresHandler DEF Next, Sends

\* At first nothing is on the way.
LEMMA WiresInit ==
    ASSUME Init
    PROVE  Wires
<1> SUFFICES ASSUME NEW c \in Conns PROVE WireInv(c)
  BY DEF Wires
<1> USE DEF Init
<1>1. ThrOf[c] \in Threads
  BY ThreadAssumption
<1>2. HandlerOf(c) = NoHandler
  BY <1>1 DEF HandlerOf, HandlerIn
<1>3. HandlerOf(c).ol = EmptyList /\ ol[c] = EmptyList /\ wire[c] = << >> /\ acc[c] = 0
  BY <1>2, EmptyShapes
<1>4. OnWay(<< >>, EmptyList, EmptyList, 0)
  <2>1. EmptyList.s = << >> /\ Elems(<< >>) = {} /\ Rising(<< >>)
    BY EmptyShapes DEF Elems, Rising
  <2> QED
    BY <2>1 DEF OnWay, Below
<1>5. << >> \o << >> \o << >> = Upto(0)
  BY DEF Upto
<1>6. Whole(<< >>, EmptyList, EmptyList, 0)
  BY <1>5, EmptyShapes DEF Whole
<1> QED
  BY <1>3, <1>4, <1>6 DEF WireInv

-----------------------------------------------------------------------------
(* What holds of the send path.                                            *)
SendInv == Shaped /\ Writers /\ Accounting /\ StopExact /\ Wires

\* A new socket satisfies the whole invariant.
LEMMA SendInvInit ==
    Init => SendInv
  BY SendInit, MarkInit, WiresInit DEF SendInv

\* Every step preserves the whole invariant.
LEMMA SendInvNext ==
    SendInv /\ [Next]_vars => SendInv'
<1> SUFFICES ASSUME SendInv, [Next]_vars PROVE SendInv'
  OBVIOUS
<1>1. Shaped /\ Writers /\ Accounting /\ StopExact /\ Wires
  BY DEF SendInv
<1>2. Shaped'
  BY <1>1, ShapedNext
<1>3. Writers'
  BY <1>1, WritersNext
<1>4. Accounting'
  BY <1>1, <1>2, AccountNext
<1>5. StopExact'
  BY <1>1, StopNext
<1>6. Wires'
  BY <1>1, WiresNext
<1> QED
  BY <1>2, <1>3, <1>4, <1>5, <1>6 DEF SendInv

\* The invariant gives the properties of the send path.
LEMMA SendInvGives ==
    SendInv => SendTypeOK /\ MarkExact /\ PushSafe /\ WireExact
<1> SUFFICES ASSUME SendInv PROVE SendTypeOK /\ MarkExact /\ PushSafe /\ WireExact
  OBVIOUS
<1>1. Shaped /\ Writers /\ Accounting /\ StopExact /\ Wires
  BY DEF SendInv
<1>2. SendTypeOK
  BY <1>1 DEF SendTypeOK, Shaped, SendersOK, ListsOK, FlagsOK, HistoryOK, HandlersOK, WHandler,
              Writers, Threaded, ThreadInv
<1>3. PushSafe
  BY <1>1 DEF PushSafe, Writers, WriterOK
<1>4. WireOrdered
  BY <1>1 DEF WireOrdered, Wires, WireInv, OnWay, Rising
<1>5. LostOnlyIfSpliced
  <2> SUFFICES ASSUME NEW c \in Conns, ~spliced[c]
               PROVE  wire[c] \o Taken(c) \o ol[c].s = Upto(acc[c])
    BY DEF LostOnlyIfSpliced
  <2>1. Taken(c) = HandlerOf(c).ol.s
    BY HandlerOfGives
  <2> QED
    BY <1>1, <2>1 DEF Wires, WireInv, Whole
<1> QED
  BY <1>1, <1>2, <1>3, <1>4, <1>5 DEF MarkExact, WireExact

\* The types of SendPath, for every number of senders, connections and threads.
THEOREM SendTypes == Spec => []SendTypeOK
<1>1. SendInv => SendTypeOK
  BY SendInvGives
<1> QED
  BY <1>1, SendInvInit, SendInvNext, PTL DEF Spec

\* sndqsz is the number of frames inserted and not written, up to the steps
\* under way, and the stop flag of fsock_send agrees with it.
THEOREM MarkIsExact == Spec => []MarkExact
<1>1. SendInv => MarkExact
  BY SendInvGives
<1> QED
  BY <1>1, SendInvInit, SendInvNext, PTL DEF Spec

\* The push of t_start_write by fsock_send always finds the item out of the
\* queue, its watcher off and no handler running.
THEOREM PushIsSafe == Spec => []PushSafe
<1>1. SendInv => PushSafe
  BY SendInvGives
<1> QED
  BY <1>1, SendInvInit, SendInvNext, PTL DEF Spec

\* The frames of a connection go out in insertion order, and none is lost but
\* by a list put back before newer frames or by a failed write.
THEOREM WireIsExact == Spec => []WireExact
<1>1. SendInv => WireExact
  BY SendInvGives
<1> QED
  BY <1>1, SendInvInit, SendInvNext, PTL DEF Spec

-----------------------------------------------------------------------------
(* The dispatch.  What a running call of a sender has and owns is stated   *)
(* of values: p its publisher record, q the counter and c the connection   *)
(* of its fsock_send, n the number and x the name of the call, b the       *)
(* topology, H the holders of sock->sync and W the calls that have waited. *)
PubRecord == [pc : {"off", "each", "again", "send", "left"}, req : RequestType,
              i : 1..(NConns + 1), got : Seq(Conns), refused : SUBSET Conns]

Spans(b, req) == IF req.type = "ALL" THEN NConns ELSE Cardinality({c \in Conns : b[c] = req.b})
Wants(b, c, dflags) == dflags = {} \/ (IF b[c] = 0 THEN "OUT" ELSE "IN") \in dflags

\* A publisher walks an array; its fsock_send is under way exactly while it is
\* at "send", and is for the element the walk has come to.
ShapeOf(p, q, n, c, b) ==
    /\ p.pc # "off" \/ q # "idle" => n >= 1
    /\ p.pc \in {"each", "again", "left"} => q = "idle"
    /\ p.pc = "send" => q \notin {"idle", "look"} /\ c = p.i
    /\ p.pc # "off" => p.req.type # "BINDCONN" /\ p.i <= Spans(b, p.req) + 1
    /\ p.pc \in {"again", "send"} => /\ p.i <= Spans(b, p.req) /\ p.i \in Conns
                                     /\ Wants(b, p.i, p.req.dflags)

\* A publisher holds sock->sync, unless it waits or has waited and is about to
\* go on.
LockOf(s, p, q, x, H, W) ==
    /\ s \in H => p.pc # "off"
    /\ p.pc \in {"each", "again", "left"} => H = {s}
    /\ p.pc = "send" /\ q \in {"lock", "count"} => H = {s}
    /\ p.pc = "send" /\ q = "wait" => x \in W
    /\ p.pc = "send" /\ q = "insert" => H = {s} \/ x \in W

\* What the lock protects: the two looks at sock->writing, and the announcement
\* of a waiter.  T is the set of threads about to broadcast.
LookOf(p, q, wr, ww, T) ==
    /\ p.pc = "again" /\ p.req.donwait => wr # STOP_OP
    /\ p.pc = "send" /\ p.req.donwait => q \notin {"lock", "wait"}
    /\ p.pc = "send" /\ q = "lock" => wr = STOP_OP
    /\ p.pc = "send" /\ q = "wait" => (wr = STOP_OP /\ ww = 1) \/ T # {}

\* The connections a call has passed got its frame once or refused it.
ReachOf(p, b) == p.pc # "off" =>
    /\ Elems(p.got) \cup p.refused = {c \in Conns : c < p.i /\ Wants(b, c, p.req.dflags)}
    /\ Elems(p.got) \cap p.refused = {} /\ Len(p.got) = Cardinality(Elems(p.got))

Casting == {t \in Threads : wh[t].pc = "bcast"}

CallOK(s) == /\ ShapeOf(pub[s], spc[s], calls[s], sconn[s], bindOf)
             /\ LockOf(s, pub[s], spc[s], <<s, calls[s]>>, held, waited)
             /\ LookOf(pub[s], spc[s], writing, wantWcond, Casting)
             /\ ReachOf(pub[s], bindOf)

DispatchShape ==
    /\ bindOf \in Topologies /\ pub \in [Senders -> PubRecord]
    /\ held = {} \/ \E s \in Senders : held = {s}
    /\ log \in [Conns -> Seq(CallIds)] /\ waited \subseteq CallIds
Calls == \A s \in Senders : CallOK(s)

\* The parts of CallOK in the next state.
LEMMA CallOKNext ==
    ASSUME NEW s \in Senders
    PROVE  CallOK(s)' <=>
             /\ ShapeOf(pub'[s], spc'[s], calls'[s], sconn'[s], bindOf')
             /\ LockOf(s, pub'[s], spc'[s], <<s, calls'[s]>>, held', waited')
             /\ LookOf(pub'[s], spc'[s], writing', wantWcond', Casting')
             /\ ReachOf(pub'[s], bindOf')
  BY DEF CallOK, ShapeOf, LockOf, LookOf, ReachOf

\* The array a dispatch walks is no longer than sock->conns.
LEMMA SpansBound ==
    ASSUME NEW b, NEW r
    PROVE  Spans(b, r) \in Nat /\ Spans(b, r) <= NConns
<1> DEFINE L == {c \in Conns : b[c] = r.b}
<1>1. IsFiniteSet(Conns) /\ Cardinality(Conns) = NConns /\ NConns \in Nat
  BY ThreadAssumption, FS_Interval DEF Conns
<1>2. IsFiniteSet(L) /\ Cardinality(L) <= Cardinality(Conns)
  BY <1>1, FS_Subset
<1>3. Cardinality(L) \in Nat
  BY <1>2, FS_CardinalityType
<1> QED
  BY <1>1, <1>2, <1>3 DEF Spans

\* Array and selection of a dispatch depend on the binds only.
LEMMA ArrayIs ==
    ASSUME NEW r
    PROVE  ArrayLen(r) = Spans(bindOf, r) /\ \A c \in Conns : Wanted(c, r.dflags) <=> Wants(bindOf, c, r.dflags)
  BY DEF ArrayLen, Local, Spans, Wanted, Wants, Kind

-----------------------------------------------------------------------------
(* A dispatch step is a step of SendPath, or one that SendPath does not    *)
(* see: a call that begins, or goes on to its fsock_send.                  *)
LEMMA SendInvAside ==
    ASSUME SendInv, SendersOK', Counting' = Counting,
           UNCHANGED <<threadVars, ol, cwriting, zombie, wh, sockVars, netVars, history>>
    PROVE  SendInv'
<1> USE DEF sockVars, netVars, history
<1>1. Shaped /\ Writers /\ Accounting /\ StopExact /\ Wires
  BY DEF SendInv
<1>2. Shaped'
  BY <1>1 DEF Shaped, ListsOK, FlagsOK, HistoryOK, HandlersOK
<1>3. Writers'
  BY <1>1, WritersKeep
<1>4. Accounting'
  <2>1. Total(Owing)' = Total(Owing)
    BY DEF Total, Owing, Unsettled
  <2> QED
    BY <1>1, <1>2, <2>1, AccountKept
<1>5. StopExact'
  BY <1>1 DEF StopExact
<1>6. Wires'
  BY <1>1, WiresKeep
<1> QED
  BY <1>2, <1>3, <1>4, <1>5, <1>6 DEF SendInv

\* The send path's invariant survives when senders are dispatches.
LEMMA SendInvDispatch ==
    ASSUME SendInv, DispatchShape, Calls, [DispatchNext]_allVars
    PROVE  SendInv'
<1>0. SendersOK /\ pub \in [Senders -> PubRecord]
  BY DEF SendInv, Shaped, DispatchShape
<1>1. ASSUME [Next]_vars PROVE SendInv'
  BY <1>1, SendInvNext
<1>2. ASSUME NEW s \in Senders, NEW req \in Requests, SendAll(s, req)
      PROVE  SendInv'
  <2>1. SendersOK'
    BY <1>0, <1>2, SendAssumption DEF SendAll, SendersOK
  <2>2. Counting' = Counting
    BY <1>2 DEF SendAll, Counting
  <2> QED
    BY <1>2, <2>1, <2>2, SendInvAside DEF SendAll
<1>3. ASSUME NEW s \in Senders, SendAgain(s)
      PROVE  SendInv'
  <2>1. spc[s] = "idle" /\ pub[s].i \in Conns
    BY <1>3 DEF SendAgain, Calls, CallOK, ShapeOf
  <2>2. SendersOK'
    BY <1>0, <1>3, <2>1 DEF SendAgain, SendersOK, Target
  <2>3. Counting' = Counting
    BY <1>0, <1>3, <2>1 DEF SendAgain, Counting, SendersOK
  <2> QED
    BY <1>3, <2>2, <2>3, SendInvAside DEF SendAgain
<1>4. ASSUME NEW s \in Senders,
             \/ SendEach(s) \/ SendAllEnd(s) \/ Look(s) \/ Wait(s) \/ InsertFrame(s) \/ NoMem(s)
             \/ Count(s) \/ Spurious(s)
      PROVE  [Next]_vars
  BY <1>4 DEF SendEach, SendAllEnd, Look, Wait, InsertFrame, NoMem, Count, Spurious, Next, Sends
<1>5. ASSUME NEW s \in Senders, NEW req \in Requests, SendBindConn(s, req)
      PROVE  Next
  <2>1. req.c \in Conns
    BY DispatchAssumption DEF RequestType
  <2> QED
    BY <1>5, <2>1 DEF SendBindConn, BindConnIndex, Next
<1>6. ASSUME NEW t \in Threads, Handler(t)
      PROVE  Next
  BY <1>6 DEF Handler, Next, WriteHandler
<1>7. ASSUME Environment
      PROVE  Next
  BY <1>7 DEF Environment, Next
<1>8. CASE UNCHANGED allVars
  BY <1>1, <1>8 DEF allVars
<1> QED
  BY <1>1, <1>2, <1>3, <1>4, <1>5, <1>6, <1>7, <1>8 DEF DispatchNext, Publisher

-----------------------------------------------------------------------------
(* The records of a publisher.                                             *)
LEMMA PubFields ==
    ASSUME NEW p \in PubRecord
    PROVE  /\ p.pc \in {"off", "each", "again", "send", "left"} /\ p.req \in RequestType
           /\ p.i \in Nat /\ p.i >= 1 /\ p.i <= NConns + 1 /\ p.got \in Seq(Conns)
           /\ p.refused \subseteq Conns
  BY ThreadAssumption DEF PubRecord

\* A dispatch that moves on keeps the rest of its locals.
LEMMA RecordTo ==
    ASSUME NEW p \in PubRecord, NEW z \in {"off", "each", "again", "send", "left"}
    PROVE  LET r == [p EXCEPT !.pc = z]
           IN /\ r \in PubRecord /\ r.pc = z /\ r.req = p.req /\ r.i = p.i /\ r.got = p.got
              /\ r.refused = p.refused
  BY DEF PubRecord

\* A dispatch that goes to the next element keeps what it sent so far.
LEMMA RecordNext ==
    ASSUME NEW p \in PubRecord, p.i \in Conns
    PROVE  LET r == NextElement(p)
           IN /\ r \in PubRecord /\ r.pc = "each" /\ r.req = p.req /\ r.i = p.i + 1 /\ r.got = p.got
              /\ r.refused = p.refused
<1>1. PICK j \in 1..(NConns + 1) : j = p.i + 1
  BY ThreadAssumption DEF Conns
<1>2. NextElement(p) = [p EXCEPT !.pc = "each", !.i = j]
  BY <1>1 DEF NextElement, PubRecord
<1> QED
  BY <1>1, <1>2 DEF PubRecord

\* A frame that was sent is added to what the dispatch sent.
LEMMA RecordGot ==
    ASSUME NEW p \in PubRecord, p.i \in Conns, NEW c \in Conns
    PROVE  LET r == [NextElement(p) EXCEPT !.got = Append(@, c)]
           IN /\ r \in PubRecord /\ r.pc = "each" /\ r.req = p.req /\ r.i = p.i + 1
              /\ r.got = Append(p.got, c) /\ r.refused = p.refused
<1>1. PICK m : m = NextElement(p)
  OBVIOUS
<1>2. /\ m \in PubRecord /\ m.pc = "each" /\ m.req = p.req /\ m.i = p.i + 1 /\ m.got = p.got
      /\ m.refused = p.refused
  BY <1>1, RecordNext
<1>3. PICK g \in Seq(Conns) : g = Append(p.got, c)
  <2>1. p.got \in Seq(Conns)
    BY PubFields
  <2>2. Append(p.got, c) \in Seq(Conns)
    BY <2>1, ElemsAppend
  <2> QED
    BY <2>2
<1>4. PICK r : r = [m EXCEPT !.got = g]
  OBVIOUS
<1>5. /\ r \in PubRecord /\ r.pc = "each" /\ r.req = m.req /\ r.i = m.i /\ r.got = g
      /\ r.refused = m.refused
  BY <1>2, <1>4 DEF PubRecord
<1>6. [NextElement(p) EXCEPT !.got = Append(@, c)] = r
  BY <1>1, <1>2, <1>3, <1>4 DEF PubRecord
<1> QED
  BY <1>2, <1>3, <1>5, <1>6

\* A connection that refused is remembered, and the dispatch goes on or breaks off.
LEMMA RecordRefused ==
    ASSUME NEW p \in PubRecord, p.i \in Conns, NEW c \in Conns
    PROVE  LET r == Refuse(p, c)
           IN /\ r \in PubRecord /\ r.pc \in {"each", "left"} /\ r.req = p.req /\ r.i = p.i + 1
              /\ r.got = p.got /\ r.refused = p.refused \cup {c}
<1>1. PICK m : m = NextElement(p)
  OBVIOUS
<1>2. /\ m \in PubRecord /\ m.pc = "each" /\ m.req = p.req /\ m.i = p.i + 1 /\ m.got = p.got
      /\ m.refused = p.refused
  BY <1>1, RecordNext
<1>3. PICK g \in SUBSET Conns : g = p.refused \cup {c}
  <2>1. p.refused \subseteq Conns
    BY PubFields
  <2> QED
    BY <2>1
<1>4. PICK q : q = [m EXCEPT !.refused = g]
  OBVIOUS
<1>5. /\ q \in PubRecord /\ q.pc = "each" /\ q.req = m.req /\ q.i = m.i /\ q.got = m.got
      /\ q.refused = g
  BY <1>2, <1>4 DEF PubRecord
<1>6. [NextElement(p) EXCEPT !.refused = @ \cup {c}] = q
  BY <1>1, <1>2, <1>3, <1>4 DEF PubRecord
<1>7. Refuse(p, c) = IF p.req.stop THEN [q EXCEPT !.pc = "left"] ELSE q
  BY <1>6 DEF Refuse
<1>8. PICK l : l = [q EXCEPT !.pc = "left"]
  OBVIOUS
<1>9. /\ l \in PubRecord /\ l.pc = "left" /\ l.req = q.req /\ l.i = q.i /\ l.got = q.got
      /\ l.refused = q.refused
  BY <1>5, <1>8, RecordTo
<1>10. CASE p.req.stop
  BY <1>2, <1>3, <1>5, <1>7, <1>8, <1>9, <1>10
<1>11. CASE ~p.req.stop
  BY <1>2, <1>3, <1>5, <1>7, <1>11
<1> QED
  BY <1>10, <1>11

\* One more element has been passed.
LEMMA PassOne ==
    ASSUME NEW p \in PubRecord, NEW r \in PubRecord, NEW b, p.i \in Conns, p.pc # "off", ReachOf(p, b),
           r.req = p.req, r.i = p.i + 1,
           \/ /\ ~Wants(b, p.i, p.req.dflags) /\ r.got = p.got /\ r.refused = p.refused
           \/ /\ Wants(b, p.i, p.req.dflags)
              /\ \/ r.got = Append(p.got, p.i) /\ r.refused = p.refused
                 \/ r.got = p.got /\ r.refused = p.refused \cup {p.i}
    PROVE  ReachOf(r, b)
<1> DEFINE old == {c \in Conns : c < p.i /\ Wants(b, c, p.req.dflags)}
           new == {c \in Conns : c < r.i /\ Wants(b, c, r.req.dflags)}
<1>1. /\ Elems(p.got) \cup p.refused = old /\ Elems(p.got) \cap p.refused = {}
      /\ Len(p.got) = Cardinality(Elems(p.got))
  BY DEF ReachOf
<1>2. p.i \notin old /\ p.i \in Nat
  BY PubFields
<1>3. new = IF Wants(b, p.i, p.req.dflags) THEN old \cup {p.i} ELSE old
  <2>1. \A c \in Conns : c \in Nat /\ (c < p.i + 1 <=> c < p.i \/ c = p.i)
    BY <1>2 DEF Conns
  <2>2. new = {c \in Conns : (c < p.i \/ c = p.i) /\ Wants(b, c, p.req.dflags)}
    BY <2>1
  <2> QED
    BY <2>2
<1> HIDE DEF old, new
<1>4. /\ Elems(r.got) \cup r.refused = new /\ Elems(r.got) \cap r.refused = {}
      /\ Len(r.got) = Cardinality(Elems(r.got))
  <2>1. CASE r.got = p.got
    BY <1>1, <1>2, <1>3, <2>1
  <2>2. CASE Wants(b, p.i, p.req.dflags) /\ r.got = Append(p.got, p.i) /\ r.refused = p.refused
    <3>1. p.got \in Seq(Conns)
      BY PubFields
    <3>2. Elems(Append(p.got, p.i)) = Elems(p.got) \cup {p.i} /\ Len(Append(p.got, p.i)) = Len(p.got) + 1
      BY <3>1, ElemsAppend
    <3>3. p.i \notin Elems(p.got) /\ p.i \notin p.refused
      BY <1>1, <1>2
    <3>4. IsFiniteSet(Elems(p.got))
      <4>1. IsFiniteSet(Conns)
        BY ThreadAssumption, FS_Interval DEF Conns
      <4>2. Elems(p.got) \subseteq Conns
        BY <3>1 DEF Elems
      <4> QED
        BY <4>1, <4>2, FS_Subset
    <3>5. Cardinality(Elems(p.got) \cup {p.i}) = Cardinality(Elems(p.got)) + 1
      BY <3>3, <3>4, FS_AddElement
    <3> QED
      BY <1>1, <1>3, <2>2, <3>2, <3>3, <3>5
  <2> QED
    BY <2>1, <2>2
<1> QED
  BY <1>4 DEF ReachOf, new

-----------------------------------------------------------------------------
(* A step of one sender, a handler or the environment leaves the calls of  *)
(* the other senders in order.                                             *)
LEMMA OtherCall ==
    ASSUME NEW r \in Senders, CallOK(r), pub'[r] = pub[r], spc'[r] = spc[r], calls'[r] = calls[r],
           sconn'[r] = sconn[r], bindOf' = bindOf, waited \subseteq waited', Casting \subseteq Casting',
           held' = held \/ \E s : s # r /\ held \subseteq {s} /\ held' \subseteq {s},
           writing' = writing \/ (held # {r} /\ writing' = STOP_OP), wantWcond' \in {wantWcond, 1}
    PROVE  CallOK(r)'
<1>1. ShapeOf(pub'[r], spc'[r], calls'[r], sconn'[r], bindOf') /\ ReachOf(pub'[r], bindOf')
  BY DEF CallOK
<1>2. LockOf(r, pub'[r], spc'[r], <<r, calls'[r]>>, held', waited')
  <2>1. PICK x : x = <<r, calls[r]>>
    OBVIOUS
  <2>2. LockOf(r, pub[r], spc[r], x, held, waited)
    BY <2>1 DEF CallOK
  <2>3. LockOf(r, pub[r], spc[r], x, held', waited')
    <3>1. CASE held' = held
      BY <2>2, <3>1 DEF LockOf
    <3>2. CASE \E s : s # r /\ held \subseteq {s} /\ held' \subseteq {s}
      <4>1. r \notin held /\ r \notin held'
        BY <3>2
      <4> QED
        BY <2>2, <4>1 DEF LockOf
    <3> QED
      BY <3>1, <3>2
  <2> QED
    BY <2>1, <2>3
<1>3. LookOf(pub'[r], spc'[r], writing', wantWcond', Casting')
  <2>1. LookOf(pub[r], spc[r], writing, wantWcond, Casting)
    BY DEF CallOK
  <2>2. pub[r].pc = "again" => held = {r}
    BY DEF CallOK, LockOf
  <2>3. CASE writing' = writing
    BY <2>1, <2>3 DEF LookOf
  <2>4. CASE held # {r} /\ writing' = STOP_OP
    BY <2>1, <2>2, <2>4 DEF LookOf
  <2> QED
    BY <2>3, <2>4
<1> QED
  BY <1>1, <1>2, <1>3, CallOKNext

Others(s) == \A r \in Senders : r # s => /\ pub'[r] = pub[r] /\ spc'[r] = spc[r]
                                         /\ calls'[r] = calls[r] /\ sconn'[r] = sconn[r]

\* A step of one caller that respects the lock keeps the invariant of all calls.
LEMMA ActorCall ==
    ASSUME SendInv, DispatchShape, Calls, NEW s \in Senders, Others(s), bindOf' = bindOf, waited \subseteq waited',
           Casting \subseteq Casting', held' = held \/ (held \subseteq {s} /\ held' \subseteq {s}),
           writing' = writing \/ (held \subseteq {s} /\ writing' = STOP_OP), wantWcond' \in {wantWcond, 1},
           ShapeOf(pub'[s], spc'[s], calls'[s], sconn'[s], bindOf'),
           LockOf(s, pub'[s], spc'[s], <<s, calls'[s]>>, held', waited'),
           LookOf(pub'[s], spc'[s], writing', wantWcond', Casting'),
           ReachOf(pub'[s], bindOf')
    PROVE  Calls'
<1>1. ASSUME NEW r \in Senders
      PROVE  CallOK(r)'
  <2>1. CASE r = s
    BY <2>1, CallOKNext
  <2>2. CASE r # s
    <3>1. CallOK(r)
      BY DEF Calls
    <3>2. held' = held \/ \E v : v # r /\ held \subseteq {v} /\ held' \subseteq {v}
      BY <2>2
    <3>3. writing' = writing \/ (held # {r} /\ writing' = STOP_OP)
      BY <2>2
    <3>4. pub'[r] = pub[r] /\ spc'[r] = spc[r] /\ calls'[r] = calls[r] /\ sconn'[r] = sconn[r]
      BY <2>2 DEF Others
    <3> QED
      BY <3>1, <3>2, <3>3, <3>4, OtherCall
  <2> QED
    BY <2>1, <2>2
<1> QED
  BY <1>1 DEF Calls

\* What the invariant says of one call.
LEMMA CallParts ==
    ASSUME SendInv, DispatchShape, Calls, NEW s \in Senders
    PROVE  /\ pub[s] \in PubRecord /\ pub \in [Senders -> PubRecord]
           /\ spc \in [Senders -> {"idle", "look", "lock", "wait", "insert", "count"}]
           /\ sconn \in [Senders -> Conns] /\ calls \in [Senders -> 0..MaxSends] /\ calls[s] \in Nat
           /\ writing \in {0, STOP_OP} /\ wantWcond \in {0, 1}
           /\ ShapeOf(pub[s], spc[s], calls[s], sconn[s], bindOf)
           /\ LockOf(s, pub[s], spc[s], <<s, calls[s]>>, held, waited)
           /\ LookOf(pub[s], spc[s], writing, wantWcond, Casting)
           /\ ReachOf(pub[s], bindOf)
  BY SendAssumption DEF SendInv, Shaped, SendersOK, FlagsOK, DispatchShape, Calls, CallOK

\* A dispatch begins at the first element with nothing sent.
LEMMA OffFields ==
    /\ Off \in PubRecord /\ Off.pc = "off"
    /\ \A req \in RequestType : LET r == [Off EXCEPT !.pc = "each", !.req = req]
                                IN /\ r \in PubRecord /\ r.pc = "each" /\ r.req = req /\ r.i = 1
                                   /\ r.got = << >> /\ r.refused = {}
<1>1. NoRequest \in RequestType
  BY ThreadAssumption, SendAssumption DEF NoRequest, RequestType, Conns
<1>2. Off \in PubRecord /\ Off.pc = "off"
  BY <1>1, ThreadAssumption DEF Off, PubRecord
<1>3. ASSUME NEW req \in RequestType
      PROVE  LET r == [Off EXCEPT !.pc = "each", !.req = req]
             IN /\ r \in PubRecord /\ r.pc = "each" /\ r.req = req /\ r.i = 1
                /\ r.got = << >> /\ r.refused = {}
  BY <1>2 DEF Off, PubRecord
<1> QED
  BY <1>2, <1>3

\* A dispatch begins by taking the lock.
LEMMA CallSendAll ==
    ASSUME SendInv, DispatchShape, Calls, NEW s \in Senders, NEW req \in Requests, SendAll(s, req)
    PROVE  Calls' /\ pub' \in [Senders -> PubRecord]
<1>1. PICK p, r : p = pub[s] /\ r = [Off EXCEPT !.pc = "each", !.req = req]
  OBVIOUS
<1>2. /\ pub[s] \in PubRecord /\ pub \in [Senders -> PubRecord] /\ calls \in [Senders -> 0..MaxSends]
      /\ calls[s] \in Nat
  BY CallParts
<1>3. /\ p.pc = "off" /\ spc[s] = "idle" /\ held \subseteq {s} /\ held' = {s}
      /\ calls' = [calls EXCEPT ![s] = @ + 1] /\ pub' = [pub EXCEPT ![s] = r] /\ req.type # "BINDCONN"
      /\ UNCHANGED <<spc, sconn, wh, writing, wantWcond, bindOf, log, waited>>
  BY <1>1 DEF SendAll, CanLock, Holds, Continue, sockVars
<1>4. /\ r \in PubRecord /\ r.pc = "each" /\ r.req = req /\ r.i = 1 /\ r.got = << >> /\ r.refused = {}
  BY <1>1, OffFields, DispatchAssumption
<1>5. pub' \in [Senders -> PubRecord] /\ pub'[s] = r /\ calls'[s] = calls[s] + 1
  BY <1>2, <1>3, <1>4
<1>6. Others(s)
  BY <1>2, <1>3 DEF Others
<1>7. ShapeOf(r, spc[s], calls[s] + 1, sconn[s], bindOf)
  <2>1. Spans(bindOf, req) \in Nat
    BY SpansBound
  <2> QED
    BY <1>2, <1>3, <1>4, <2>1 DEF ShapeOf
<1>8. LockOf(s, r, spc[s], <<s, calls'[s]>>, {s}, waited)
  BY <1>4 DEF LockOf
<1>9. LookOf(r, spc[s], writing, wantWcond, Casting)
  BY <1>4 DEF LookOf
<1>10. ReachOf(r, bindOf)
  <2>1. \A c \in Conns : ~(c < 1)
    BY DEF Conns
  <2>2. Elems(<< >>) = {} /\ Cardinality({}) = 0 /\ Len(<< >>) = 0
    BY FS_EmptySet DEF Elems
  <2> QED
    BY <1>4, <2>1, <2>2 DEF ReachOf
<1>11. Casting' = Casting
  BY <1>3 DEF Casting
<1>12. Calls'
  BY <1>3, <1>5, <1>6, <1>7, <1>8, <1>9, <1>10, <1>11, ActorCall
<1> QED
  BY <1>5, <1>12

\* One turn of its loop looks at an element and at the flags under the lock.
LEMMA CallSendEach ==
    ASSUME SendInv, DispatchShape, Calls, NEW s \in Senders, SendEach(s)
    PROVE  Calls' /\ pub' \in [Senders -> PubRecord]
<1>1. PICK p, c, r : /\ p = pub[s] /\ c = p.i
                     /\ r = IF ~Wanted(c, p.req.dflags) THEN NextElement(p)
                            ELSE IF zombie[c] \/ (p.req.donwait /\ writing = STOP_OP)
                                 THEN Refuse(p, c) ELSE [p EXCEPT !.pc = "again"]
  OBVIOUS
<1>2. /\ p \in PubRecord /\ pub \in [Senders -> PubRecord] /\ calls[s] \in Nat
      /\ ShapeOf(p, spc[s], calls[s], sconn[s], bindOf)
      /\ LockOf(s, p, spc[s], <<s, calls[s]>>, held, waited) /\ ReachOf(p, bindOf)
  BY <1>1, CallParts
<1>3. /\ p.pc = "each" /\ p.i <= ArrayLen(p.req) /\ pub' = [pub EXCEPT ![s] = r]
      /\ UNCHANGED <<vars, bindOf, held, log, waited>>
  BY <1>1 DEF SendEach, Continue, Target
<1>4. UNCHANGED <<spc, sconn, calls, wh, writing, wantWcond, bindOf, held, log, waited>>
  BY <1>3 DEF vars, sendVars, sockVars
<1>5. c \in Conns /\ p.i \in Nat /\ p.i <= Spans(bindOf, p.req) /\ Spans(bindOf, p.req) \in Nat
  <2>1. p.i \in Nat /\ p.i >= 1
    BY <1>2, PubFields
  <2>2. ArrayLen(p.req) = Spans(bindOf, p.req) /\ Spans(bindOf, p.req) \in Nat /\ Spans(bindOf, p.req) <= NConns
    BY ArrayIs, SpansBound
  <2> QED
    BY <1>1, <1>3, <2>1, <2>2, ThreadAssumption DEF Conns
<1>6. Wanted(c, p.req.dflags) <=> Wants(bindOf, c, p.req.dflags)
  BY <1>5, ArrayIs
<1>7. /\ r \in PubRecord /\ r.req = p.req
      /\ \/ /\ r.pc \in {"each", "left"} /\ r.i = p.i + 1 /\ ReachOf(r, bindOf)
         \/ /\ r.pc = "again" /\ r.i = p.i /\ ReachOf(r, bindOf) /\ Wants(bindOf, c, p.req.dflags)
            /\ ~(p.req.donwait /\ writing = STOP_OP)
  <2>1. CASE ~Wanted(c, p.req.dflags)
    <3>1. r = NextElement(p)
      BY <1>1, <2>1
    <3>2. /\ r \in PubRecord /\ r.pc = "each" /\ r.req = p.req /\ r.i = p.i + 1 /\ r.got = p.got
          /\ r.refused = p.refused
      BY <1>1, <1>2, <1>5, <3>1, RecordNext
    <3>3. ReachOf(r, bindOf)
      BY <1>1, <1>2, <1>3, <1>5, <1>6, <2>1, <3>2, PassOne
    <3> QED
      BY <3>2, <3>3
  <2>2. CASE Wanted(c, p.req.dflags) /\ (zombie[c] \/ (p.req.donwait /\ writing = STOP_OP))
    <3>1. r = Refuse(p, c)
      BY <1>1, <2>2
    <3>2. /\ r \in PubRecord /\ r.pc \in {"each", "left"} /\ r.req = p.req /\ r.i = p.i + 1
          /\ r.got = p.got /\ r.refused = p.refused \cup {c}
      <4>1. p.i \in Conns /\ c \in Conns /\ p \in PubRecord
        BY <1>1, <1>2, <1>5
      <4> HIDE <1>1
      <4> QED
        BY <3>1, <4>1, RecordRefused
    <3>3. ReachOf(r, bindOf)
      BY <1>1, <1>2, <1>3, <1>5, <1>6, <2>2, <3>2, PassOne
    <3> QED
      BY <3>2, <3>3
  <2>3. CASE Wanted(c, p.req.dflags) /\ ~(zombie[c] \/ (p.req.donwait /\ writing = STOP_OP))
    <3>1. r = [p EXCEPT !.pc = "again"]
      BY <1>1, <2>3
    <3>2. /\ r \in PubRecord /\ r.pc = "again" /\ r.req = p.req /\ r.i = p.i /\ r.got = p.got
          /\ r.refused = p.refused
      BY <1>2, <3>1, RecordTo
    <3>3. ReachOf(r, bindOf)
      BY <1>2, <1>3, <3>2 DEF ReachOf
    <3> QED
      BY <1>6, <2>3, <3>2, <3>3
  <2> QED
    BY <2>1, <2>2, <2>3
<1>8. pub' \in [Senders -> PubRecord] /\ pub'[s] = r
  BY <1>2, <1>3, <1>7
<1>9. Others(s)
  BY <1>2, <1>3, <1>4 DEF Others
<1>10. ShapeOf(r, spc[s], calls[s], sconn[s], bindOf)
  BY <1>1, <1>2, <1>3, <1>5, <1>7 DEF ShapeOf
<1>11. LockOf(s, r, spc[s], <<s, calls[s]>>, held, waited)
  BY <1>2, <1>3, <1>7 DEF LockOf
<1>12. LookOf(r, spc[s], writing, wantWcond, Casting)
  BY <1>7 DEF LookOf
<1>13. Casting' = Casting
  BY <1>4 DEF Casting
<1>14. ReachOf(r, bindOf)
  BY <1>7
<1>15. Calls'
  BY <1>4, <1>8, <1>9, <1>10, <1>11, <1>12, <1>13, <1>14, ActorCall
<1> QED
  BY <1>8, <1>15

\* The second look at sock->writing sees what the first one saw.
LEMMA CallSendAgain ==
    ASSUME SendInv, DispatchShape, Calls, NEW s \in Senders, SendAgain(s)
    PROVE  Calls' /\ pub' \in [Senders -> PubRecord]
<1>1. PICK p, r, q : /\ p = pub[s] /\ r = [p EXCEPT !.pc = "send"]
                     /\ q = IF writing = STOP_OP THEN "lock" ELSE "insert"
  OBVIOUS
<1>2. /\ p \in PubRecord /\ pub \in [Senders -> PubRecord] /\ calls[s] \in Nat
      /\ spc \in [Senders -> {"idle", "look", "lock", "wait", "insert", "count"}]
      /\ sconn \in [Senders -> Conns]
      /\ ShapeOf(p, spc[s], calls[s], sconn[s], bindOf)
      /\ LockOf(s, p, spc[s], <<s, calls[s]>>, held, waited) /\ ReachOf(p, bindOf)
      /\ LookOf(p, spc[s], writing, wantWcond, Casting)
  BY <1>1, CallParts
<1>3. /\ p.pc = "again" /\ pub' = [pub EXCEPT ![s] = r] /\ spc' = [spc EXCEPT ![s] = q]
      /\ sconn' = [sconn EXCEPT ![s] = p.i]
      /\ UNCHANGED <<calls, wh, writing, wantWcond, bindOf, held, log, waited>>
  BY <1>1 DEF SendAgain, Continue, Target, sockVars
<1>4. r \in PubRecord /\ r.pc = "send" /\ r.req = p.req /\ r.i = p.i /\ r.got = p.got /\ r.refused = p.refused
  BY <1>1, <1>2, RecordTo
<1>5. pub' \in [Senders -> PubRecord] /\ pub'[s] = r /\ spc'[s] = q /\ sconn'[s] = p.i
  BY <1>2, <1>3, <1>4
<1>6. Others(s)
  BY <1>2, <1>3 DEF Others
<1>7. ShapeOf(r, q, calls[s], p.i, bindOf)
  BY <1>1, <1>2, <1>3, <1>4 DEF ShapeOf
<1>8. LockOf(s, r, q, <<s, calls[s]>>, held, waited)
  BY <1>1, <1>2, <1>3, <1>4 DEF LockOf
<1>9. LookOf(r, q, writing, wantWcond, Casting)
  BY <1>1, <1>2, <1>3, <1>4 DEF LookOf
<1>10. ReachOf(r, bindOf)
  BY <1>2, <1>3, <1>4 DEF ReachOf
<1>11. Casting' = Casting
  BY <1>3 DEF Casting
<1>12. Calls'
  BY <1>3, <1>5, <1>6, <1>7, <1>8, <1>9, <1>10, <1>11, ActorCall
<1> QED
  BY <1>5, <1>12

\* The end of a dispatch gives the lock back.
LEMMA CallSendAllEnd ==
    ASSUME SendInv, DispatchShape, Calls, NEW s \in Senders, SendAllEnd(s)
    PROVE  Calls' /\ pub' \in [Senders -> PubRecord] /\ held = {s} /\ held' = {}
<1>1. PICK p : p = pub[s]
  OBVIOUS
<1>2. /\ p \in PubRecord /\ pub \in [Senders -> PubRecord]
      /\ ShapeOf(p, spc[s], calls[s], sconn[s], bindOf)
      /\ LockOf(s, p, spc[s], <<s, calls[s]>>, held, waited)
  BY <1>1, CallParts
<1>3. /\ p.pc \in {"each", "left"} /\ pub' = [pub EXCEPT ![s] = Off] /\ held' = held \ {s}
      /\ UNCHANGED <<vars, bindOf, log, waited>>
  BY <1>1 DEF SendAllEnd, Continue
<1>4. UNCHANGED <<spc, sconn, calls, wh, writing, wantWcond, bindOf, log, waited>>
  BY <1>3 DEF vars, sendVars, sockVars
<1>5. pub' \in [Senders -> PubRecord] /\ pub'[s] = Off
  BY <1>2, <1>3, OffFields
<1>6. Others(s)
  BY <1>2, <1>3, <1>4 DEF Others
<1>7. held = {s} /\ held' = {} /\ spc[s] = "idle"
  BY <1>2, <1>3 DEF LockOf, ShapeOf
<1>8. /\ ShapeOf(Off, spc[s], calls[s], sconn[s], bindOf)
      /\ LockOf(s, Off, spc[s], <<s, calls[s]>>, {}, waited)
      /\ LookOf(Off, spc[s], writing, wantWcond, Casting) /\ ReachOf(Off, bindOf)
  BY <1>7, OffFields DEF ShapeOf, LockOf, LookOf, ReachOf
<1>9. Casting' = Casting
  BY <1>4 DEF Casting
<1>10. Calls'
  BY <1>4, <1>5, <1>6, <1>7, <1>8, <1>9, ActorCall
<1> QED
  BY <1>5, <1>7, <1>10

\* A send to one connection of a bind begins as fsock_send does.
LEMMA CallBindConn ==
    ASSUME SendInv, DispatchShape, Calls, NEW s \in Senders, NEW req \in Requests, SendBindConn(s, req)
    PROVE  Calls'
<1>1. PICK p, q, c : p = pub[s] /\ q = "look" /\ c = BindConnIndex(req)
  OBVIOUS
<1>2. /\ pub \in [Senders -> PubRecord] /\ calls[s] \in Nat /\ calls \in [Senders -> 0..MaxSends]
      /\ spc \in [Senders -> {"idle", "look", "lock", "wait", "insert", "count"}]
      /\ sconn \in [Senders -> Conns]
      /\ LockOf(s, p, spc[s], <<s, calls[s]>>, held, waited)
  BY <1>1, CallParts
<1>3. /\ p.pc = "off" /\ spc' = [spc EXCEPT ![s] = q] /\ sconn' = [sconn EXCEPT ![s] = c]
      /\ calls' = [calls EXCEPT ![s] = @ + 1]
      /\ UNCHANGED <<wh, writing, wantWcond, pub, bindOf, held, log, waited>>
  BY <1>1 DEF SendBindConn, SendCall, sockVars, dispatchVars
<1>4. spc'[s] = q /\ calls'[s] = calls[s] + 1 /\ sconn'[s] = c /\ pub'[s] = p
  BY <1>1, <1>2, <1>3
<1>5. Others(s)
  BY <1>2, <1>3 DEF Others
<1>6. /\ ShapeOf(p, q, calls[s] + 1, c, bindOf)
      /\ LockOf(s, p, q, <<s, calls[s] + 1>>, held, waited)
      /\ LookOf(p, q, writing, wantWcond, Casting) /\ ReachOf(p, bindOf)
  BY <1>2, <1>3 DEF ShapeOf, LockOf, LookOf, ReachOf
<1>7. Casting' = Casting
  BY <1>3 DEF Casting
<1> QED
  BY <1>3, <1>4, <1>5, <1>6, <1>7, ActorCall

\* Its second look goes by without the lock.
LEMMA CallLook ==
    ASSUME SendInv, DispatchShape, Calls, NEW s \in Senders, Look(s)
    PROVE  Calls' /\ pub[s].pc = "off"
<1>1. PICK p, q : p = pub[s] /\ q = (IF writing = STOP_OP THEN "lock" ELSE "insert")
  OBVIOUS
<1>2. /\ p \in PubRecord /\ pub \in [Senders -> PubRecord]
      /\ spc \in [Senders -> {"idle", "look", "lock", "wait", "insert", "count"}]
      /\ ShapeOf(p, spc[s], calls[s], sconn[s], bindOf)
      /\ LockOf(s, p, spc[s], <<s, calls[s]>>, held, waited)
  BY <1>1, CallParts
<1>3. /\ spc[s] = "look" /\ spc' = [spc EXCEPT ![s] = q]
      /\ UNCHANGED <<calls, sconn, wh, writing, wantWcond, pub, bindOf, held, log, waited>>
  BY <1>1 DEF Look, SendLook, sockVars, dispatchVars
<1>4. spc'[s] = q /\ calls'[s] = calls[s] /\ sconn'[s] = sconn[s] /\ pub'[s] = p
  BY <1>1, <1>2, <1>3
<1>5. p.pc = "off"
  BY <1>2, <1>3, PubFields DEF ShapeOf
<1>6. Others(s)
  BY <1>2, <1>3 DEF Others
<1>7. /\ ShapeOf(p, q, calls[s], sconn[s], bindOf)
      /\ LockOf(s, p, q, <<s, calls[s]>>, held, waited)
      /\ LookOf(p, q, writing, wantWcond, Casting) /\ ReachOf(p, bindOf)
  BY <1>2, <1>3, <1>5 DEF ShapeOf, LockOf, LookOf, ReachOf
<1>8. Casting' = Casting
  BY <1>3 DEF Casting
<1> QED
  BY <1>1, <1>3, <1>4, <1>5, <1>6, <1>7, <1>8, ActorCall

\* A wait gives the lock up, and is remembered.
LEMMA CallWait ==
    ASSUME SendInv, DispatchShape, Calls, NEW s \in Senders, Wait(s)
    PROVE  Calls' /\ <<s, calls[s]>> \in CallIds
<1>1. PICK p : p = pub[s]
  OBVIOUS
<1>2. /\ pub \in [Senders -> PubRecord] /\ calls[s] \in Nat /\ calls \in [Senders -> 0..MaxSends]
      /\ spc \in [Senders -> {"idle", "look", "lock", "wait", "insert", "count"}]
      /\ ShapeOf(p, spc[s], calls[s], sconn[s], bindOf)
      /\ LockOf(s, p, spc[s], <<s, calls[s]>>, held, waited) /\ ReachOf(p, bindOf)
      /\ LookOf(p, spc[s], writing, wantWcond, Casting) /\ wantWcond \in {0, 1}
  BY <1>1, CallParts
<1>3. /\ held \subseteq {s} /\ held' = {} /\ spc[s] = "lock" /\ spc' = [spc EXCEPT ![s] = "wait"]
      /\ wantWcond' = 1 /\ waited' = waited \cup {<<s, calls[s]>>}
      /\ UNCHANGED <<calls, sconn, wh, writing, pub, bindOf, log>>
  BY DEF Wait, CanLock, SendWait, This
<1>4. spc'[s] = "wait" /\ calls'[s] = calls[s] /\ sconn'[s] = sconn[s] /\ pub'[s] = p
  BY <1>1, <1>2, <1>3
<1>5. Others(s)
  BY <1>2, <1>3 DEF Others
<1>6. ShapeOf(p, "wait", calls[s], sconn[s], bindOf)
  BY <1>2, <1>3 DEF ShapeOf
<1>7. LockOf(s, p, "wait", <<s, calls[s]>>, held', waited')
  <2>1. <<s, calls[s]>> \in waited' /\ held' = {}
    BY <1>3
  <2>2. p.pc \in {"each", "again", "left"} => FALSE
    BY <1>2, <1>3 DEF ShapeOf
  <2> QED
    BY <2>1, <2>2 DEF LockOf
<1>8. LookOf(p, "wait", writing, 1, Casting)
  BY <1>2, <1>3 DEF LookOf, ShapeOf
<1>9. Casting' = Casting
  BY <1>3 DEF Casting
<1>10. Calls'
  BY <1>2, <1>3, <1>4, <1>5, <1>6, <1>7, <1>8, <1>9, ActorCall
<1>11. <<s, calls[s]>> \in CallIds
  BY <1>2, <1>3, SendAssumption DEF ShapeOf, CallIds
<1> QED
  BY <1>10, <1>11

\* A spurious wake-up takes the lock again.
LEMMA CallSpurious ==
    ASSUME SendInv, DispatchShape, Calls, NEW s \in Senders, Spurious(s)
    PROVE  Calls'
<1>1. PICK p : p = pub[s]
  OBVIOUS
<1>2. /\ pub \in [Senders -> PubRecord]
      /\ spc \in [Senders -> {"idle", "look", "lock", "wait", "insert", "count"}]
      /\ ShapeOf(p, spc[s], calls[s], sconn[s], bindOf)
      /\ LockOf(s, p, spc[s], <<s, calls[s]>>, held, waited) /\ ReachOf(p, bindOf)
      /\ LookOf(p, spc[s], writing, wantWcond, Casting)
  BY <1>1, CallParts
<1>3. /\ spc[s] = "wait" /\ spc' = [spc EXCEPT ![s] = "insert"]
      /\ UNCHANGED <<calls, sconn, wh, writing, wantWcond, pub, bindOf, held, log, waited>>
  BY DEF Spurious, SpuriousWakeup, sockVars, dispatchVars
<1>4. spc'[s] = "insert" /\ calls'[s] = calls[s] /\ sconn'[s] = sconn[s] /\ pub'[s] = p
  BY <1>1, <1>2, <1>3
<1>5. Others(s)
  BY <1>2, <1>3 DEF Others
<1>6. ShapeOf(p, "insert", calls[s], sconn[s], bindOf)
  BY <1>2, <1>3 DEF ShapeOf
<1>7. LockOf(s, p, "insert", <<s, calls[s]>>, held, waited)
  BY <1>2, <1>3 DEF LockOf
<1>8. LookOf(p, "insert", writing, wantWcond, Casting)
  BY <1>2, <1>3 DEF LookOf
<1>9. Casting' = Casting
  BY <1>3 DEF Casting
<1> QED
  BY <1>2, <1>3, <1>4, <1>5, <1>6, <1>7, <1>8, <1>9, ActorCall

\* The insert under conn->sync changes no lock.
LEMMA CallInsert ==
    ASSUME SendInv, DispatchShape, Calls, NEW s \in Senders, InsertFrame(s)
    PROVE  Calls' /\ <<s, calls[s]>> \in CallIds /\ sconn[s] \in Conns
<1>1. PICK p : p = pub[s]
  OBVIOUS
<1>2. /\ pub \in [Senders -> PubRecord] /\ calls[s] \in Nat /\ calls \in [Senders -> 0..MaxSends]
      /\ spc \in [Senders -> {"idle", "look", "lock", "wait", "insert", "count"}]
      /\ sconn \in [Senders -> Conns]
      /\ ShapeOf(p, spc[s], calls[s], sconn[s], bindOf)
      /\ LockOf(s, p, spc[s], <<s, calls[s]>>, held, waited) /\ ReachOf(p, bindOf)
      /\ LookOf(p, spc[s], writing, wantWcond, Casting)
  BY <1>1, CallParts
<1>3. /\ p.pc = "send" => held \subseteq {s} /\ held' = {s}
      /\ p.pc # "send" => held' = held
      /\ spc[s] = "insert" /\ spc' = [spc EXCEPT ![s] = "count"]
      /\ UNCHANGED <<calls, sconn, wh, writing, wantWcond, pub, bindOf, waited>>
  BY <1>1 DEF InsertFrame, Locked, CanLock, Holds, SendInsert, sockVars
<1>4. spc'[s] = "count" /\ calls'[s] = calls[s] /\ sconn'[s] = sconn[s] /\ pub'[s] = p
  BY <1>1, <1>2, <1>3
<1>5. Others(s)
  BY <1>2, <1>3 DEF Others
<1>6. ShapeOf(p, "count", calls[s], sconn[s], bindOf)
  BY <1>2, <1>3 DEF ShapeOf
<1>7. LockOf(s, p, "count", <<s, calls[s]>>, held', waited)
  BY <1>2, <1>3 DEF LockOf, ShapeOf
<1>8. LookOf(p, "count", writing, wantWcond, Casting)
  BY <1>2, <1>3 DEF LookOf
<1>9. Casting' = Casting
  BY <1>3 DEF Casting
<1>10. held' = held \/ (held \subseteq {s} /\ held' \subseteq {s})
  BY <1>3
<1>11. Calls'
  BY <1>2, <1>3, <1>4, <1>5, <1>6, <1>7, <1>8, <1>9, <1>10, ActorCall
<1>12. <<s, calls[s]>> \in CallIds
  BY <1>2, <1>3, SendAssumption DEF ShapeOf, CallIds
<1> QED
  BY <1>2, <1>11, <1>12

\* A call without memory for its list item is refused there.
LEMMA CallNoMem ==
    ASSUME SendInv, DispatchShape, Calls, NEW s \in Senders, NoMem(s)
    PROVE  /\ Calls' /\ pub' \in [Senders -> PubRecord]
           /\ pub[s].pc # "send" => pub[s].pc = "off" /\ pub' = pub
           /\ pub[s].pc = "send" => pub'[s].pc \in {"each", "left"} /\ pub'[s].i = pub[s].i + 1
           /\ \A r \in Senders : r # s => pub'[r] = pub[r]
<1>1. PICK p, c : p = pub[s] /\ c = sconn[s]
  OBVIOUS
<1>2. /\ p \in PubRecord /\ pub \in [Senders -> PubRecord]
      /\ spc \in [Senders -> {"idle", "look", "lock", "wait", "insert", "count"}]
      /\ ShapeOf(p, spc[s], calls[s], c, bindOf)
      /\ LockOf(s, p, spc[s], <<s, calls[s]>>, held, waited) /\ ReachOf(p, bindOf)
      /\ calls[s] \in Nat
  BY <1>1, CallParts
<1>3. /\ p.pc = "send" => held \subseteq {s} /\ held' = {s}
      /\ p.pc # "send" => held' = held
      /\ spc[s] = "insert" /\ spc' = [spc EXCEPT ![s] = "idle"]
      /\ UNCHANGED <<calls, sconn, wh, writing, wantWcond, bindOf, log, waited>>
  BY <1>1 DEF NoMem, Locked, CanLock, Holds, SendNoMem, sockVars
<1>4. Casting' = Casting
  BY <1>3 DEF Casting
<1>5. CASE p.pc # "send"
  <2>1. pub' = pub
    BY <1>1, <1>5 DEF NoMem, Locked
  <2>2. p.pc = "off"
    BY <1>2, <1>3, <1>5, PubFields DEF ShapeOf
  <2>3. Others(s) /\ spc'[s] = "idle" /\ pub'[s] = p
    BY <1>1, <1>2, <1>3, <2>1 DEF Others
  <2>4. /\ ShapeOf(p, "idle", calls[s], c, bindOf)
        /\ LockOf(s, p, "idle", <<s, calls[s]>>, held, waited)
        /\ LookOf(p, "idle", writing, wantWcond, Casting)
    BY <1>2, <2>2 DEF ShapeOf, LockOf, LookOf
  <2>5. Calls'
    BY <1>1, <1>2, <1>3, <1>4, <1>5, <2>1, <2>3, <2>4, ActorCall
  <2> QED
    BY <1>1, <1>2, <1>5, <2>1, <2>2, <2>5
<1>6. CASE p.pc = "send"
  <2>1. c = p.i /\ c \in Conns /\ Wants(bindOf, p.i, p.req.dflags) /\ p.i <= Spans(bindOf, p.req)
        /\ p.i \in Nat /\ p.req.type # "BINDCONN"
    BY <1>2, <1>6, PubFields DEF ShapeOf
  <2>2. PICK r : r = Refuse(p, c)
    OBVIOUS
  <2>3. /\ r \in PubRecord /\ r.pc \in {"each", "left"} /\ r.req = p.req /\ r.i = p.i + 1
        /\ r.got = p.got /\ r.refused = p.refused \cup {c}
    <3>1. p.i \in Conns /\ c \in Conns /\ p \in PubRecord
      BY <1>2, <2>1
    <3> HIDE <1>1
    <3> QED
      BY <2>2, <3>1, RecordRefused
  <2>4. ReachOf(r, bindOf)
    BY <1>2, <1>6, <2>1, <2>3, PassOne
  <2>5. pub' = [pub EXCEPT ![s] = r]
    BY <1>1, <1>6, <2>2 DEF NoMem, Locked, Continue
  <2>6. pub' \in [Senders -> PubRecord] /\ pub'[s] = r /\ spc'[s] = "idle"
    BY <1>2, <1>3, <2>3, <2>5
  <2>7. Others(s)
    BY <1>2, <1>3, <2>5 DEF Others
  <2>8. ShapeOf(r, "idle", calls[s], c, bindOf)
    <3>1. Spans(bindOf, p.req) \in Nat
      BY SpansBound
    <3> QED
      BY <1>2, <1>6, <2>1, <2>3, <3>1 DEF ShapeOf
  <2>9. LockOf(s, r, "idle", <<s, calls[s]>>, held', waited) /\ LookOf(r, "idle", writing, wantWcond, Casting)
    BY <1>3, <1>6, <2>3 DEF LockOf, LookOf
  <2>10. held' = held \/ (held \subseteq {s} /\ held' \subseteq {s})
    BY <1>3, <1>6
  <2>11. Calls'
    BY <1>1, <1>3, <1>4, <2>4, <2>6, <2>7, <2>8, <2>9, <2>10, ActorCall
  <2> QED
    BY <1>1, <1>2, <1>6, <2>3, <2>5, <2>6, <2>11
<1> QED
  BY <1>5, <1>6

\* Counting ends the call of fsock_send and leads to the next element.
LEMMA CallCount ==
    ASSUME SendInv, DispatchShape, Calls, NEW s \in Senders, Count(s)
    PROVE  Calls' /\ pub' \in [Senders -> PubRecord]
<1>1. PICK p, c, n : p = pub[s] /\ c = sconn[s] /\ n = [NextElement(p) EXCEPT !.got = Append(@, c)]
  OBVIOUS
<1>2. /\ p \in PubRecord /\ pub \in [Senders -> PubRecord]
      /\ spc \in [Senders -> {"idle", "look", "lock", "wait", "insert", "count"}]
      /\ ShapeOf(p, spc[s], calls[s], c, bindOf)
      /\ LockOf(s, p, spc[s], <<s, calls[s]>>, held, waited) /\ ReachOf(p, bindOf)
      /\ calls[s] \in Nat
  BY <1>1, CallParts
<1>3. /\ held \subseteq {s} /\ spc[s] = "count" /\ spc' = [spc EXCEPT ![s] = "idle"]
      /\ writing' = writing \/ writing' = STOP_OP
      /\ UNCHANGED <<calls, sconn, wh, wantWcond, bindOf, held, log, waited>>
  BY DEF Count, CanLock, SendCount
<1>4. PICK r : /\ pub' = [pub EXCEPT ![s] = r]
               /\ p.pc # "send" => r = p
               /\ p.pc = "send" => r = n \/ r = [n EXCEPT !.pc = "left"]
  <2>1. CASE p.pc # "send"
    <3>1. pub' = pub
      BY <1>1, <2>1 DEF Count, Locked
    <3>2. pub' = [pub EXCEPT ![s] = p]
      BY <1>1, <1>2, <3>1
    <3> QED
      BY <2>1, <3>2
  <2>2. CASE p.pc = "send"
    BY <1>1, <2>2 DEF Count, Locked, Continue
  <2> QED
    BY <2>1, <2>2
<1>5. CASE p.pc # "send"
  <2>1. r = p /\ pub' \in [Senders -> PubRecord] /\ pub'[s] = p /\ spc'[s] = "idle"
    BY <1>2, <1>4, <1>5, <1>3
  <2>2. Others(s)
    BY <1>2, <1>3, <1>4 DEF Others
  <2>3. p.pc = "off"
    BY <1>2, <1>3, <1>5, PubFields DEF ShapeOf
  <2>4. /\ ShapeOf(p, "idle", calls[s], c, bindOf)
        /\ LockOf(s, p, "idle", <<s, calls[s]>>, held, waited)
        /\ LookOf(p, "idle", writing', wantWcond, Casting)
    BY <1>2, <2>3 DEF ShapeOf, LockOf, LookOf
  <2>5. Casting' = Casting
    BY <1>3 DEF Casting
  <2>6. Calls'
    BY <1>1, <1>2, <1>3, <2>1, <2>2, <2>4, <2>5, ActorCall
  <2> QED
    BY <2>1, <2>6
<1>6. CASE p.pc = "send"
  <2>1. c = p.i /\ c \in Conns /\ Wants(bindOf, p.i, p.req.dflags) /\ p.i <= Spans(bindOf, p.req)
        /\ held = {s} /\ p.i \in Nat /\ p.req.type # "BINDCONN"
    BY <1>2, <1>3, <1>6, PubFields DEF ShapeOf, LockOf
  <2>2. /\ n \in PubRecord /\ n.pc = "each" /\ n.req = p.req /\ n.i = p.i + 1
        /\ n.got = Append(p.got, c) /\ n.refused = p.refused
    BY <1>1, <1>2, <2>1, RecordGot
  <2>3. /\ r \in PubRecord /\ r.pc \in {"each", "left"} /\ r.req = p.req /\ r.i = p.i + 1
        /\ r.got = Append(p.got, c) /\ r.refused = p.refused
    <3>1. CASE r = n
      BY <2>2, <3>1
    <3>2. CASE r = [n EXCEPT !.pc = "left"]
      <4>1. /\ r \in PubRecord /\ r.pc = "left" /\ r.req = n.req /\ r.i = n.i /\ r.got = n.got
            /\ r.refused = n.refused
        BY <2>2, <3>2, RecordTo
      <4> QED
        BY <2>2, <4>1
    <3> QED
      BY <1>4, <1>6, <3>1, <3>2
  <2>4. ReachOf(r, bindOf)
    BY <1>2, <1>6, <2>1, <2>3, PassOne
  <2>5. pub' \in [Senders -> PubRecord] /\ pub'[s] = r /\ spc'[s] = "idle"
    BY <1>2, <1>3, <1>4, <2>3
  <2>6. Others(s)
    BY <1>2, <1>3, <1>4 DEF Others
  <2>7. ShapeOf(r, "idle", calls[s], c, bindOf)
    <3>1. Spans(bindOf, p.req) \in Nat
      BY SpansBound
    <3> QED
      BY <1>2, <1>6, <2>1, <2>3, <3>1 DEF ShapeOf
  <2>8. LockOf(s, r, "idle", <<s, calls[s]>>, held, waited) /\ LookOf(r, "idle", writing', wantWcond, Casting)
    BY <2>1, <2>3 DEF LockOf, LookOf
  <2>9. Casting' = Casting
    BY <1>3 DEF Casting
  <2>10. Calls'
    BY <1>1, <1>3, <2>4, <2>5, <2>6, <2>7, <2>8, <2>9, ActorCall
  <2> QED
    BY <2>5, <2>10
<1> QED
  BY <1>5, <1>6

\* The handlers and the environment change no call but by the broadcast, and
\* settle their account only when nobody holds the lock.
LEMMA CallHandler ==
    ASSUME SendInv, DispatchShape, Calls, NEW t \in Threads, Handler(t)
    PROVE  Calls'
<1> USE DEF sendVars, sockVars
<1>1. UNCHANGED <<bindOf, pub, held, log, waited, calls, sconn>>
  BY DEF Handler, dispatchVars, WriteTop, Writev, WriteAgain, WriteError, WriteAcct, WriteBroadcast,
         WriteStop
<1>2. Shaped /\ wh \in [Threads -> WHandler]
  BY DEF SendInv, Shaped, HandlersOK
<1>3. PICK g : wh' = [wh EXCEPT ![t] = g]
  <2>1. WriteHandler(t)
    BY DEF Handler, WriteHandler
  <2> QED
    BY <1>2, <2>1, HandlerStep
<1>4. CASE WriteTop(t) \/ Writev(t) \/ WriteAgain(t) \/ WriteError(t) \/ WriteStop(t)
  <2>1. UNCHANGED <<spc, writing, wantWcond>> /\ wh[t].pc # "bcast"
    BY <1>4 DEF WriteTop, Writev, WriteAgain, WriteError, WriteStop
  <2>2. Casting \subseteq Casting'
    BY <1>2, <1>3, <2>1 DEF Casting
  <2>3. ASSUME NEW r \in Senders PROVE CallOK(r)'
    <3>1. CallOK(r) /\ spc'[r] = spc[r] /\ pub'[r] = pub[r] /\ calls'[r] = calls[r] /\ sconn'[r] = sconn[r]
      BY <1>1, <2>1 DEF Calls
    <3> QED
      BY <1>1, <2>1, <2>2, <3>1, OtherCall
  <2> QED
    BY <2>3 DEF Calls
<1>5. CASE WriteAcct(t) /\ held = {}
  <2>1. UNCHANGED spc /\ wh[t].pc = "acct"
        /\ \/ writing' = writing /\ wantWcond' = wantWcond
           \/ wantWcond = 1 => wh'[t].pc = "bcast"
    BY <1>2, <1>5 DEF WriteAcct, WHandler
  <2>2. Casting \subseteq Casting'
    BY <1>2, <1>3, <2>1 DEF Casting
  <2>3. ASSUME NEW r \in Senders PROVE CallOK(r)'
    <3>1. CallOK(r)
      BY DEF Calls
    <3>2. pub[r].pc # "again" /\ ~(pub[r].pc = "send" /\ spc[r] = "lock")
      BY <1>5, <3>1 DEF CallOK, LockOf
    <3>3. LookOf(pub[r], spc[r], writing', wantWcond', Casting')
      <4>1. LookOf(pub[r], spc[r], writing, wantWcond, Casting)
        BY <3>1 DEF CallOK
      <4>2. CASE writing' = writing /\ wantWcond' = wantWcond
        BY <2>2, <4>1, <4>2 DEF LookOf
      <4>3. CASE wantWcond = 1 => wh'[t].pc = "bcast"
        <5>1. wantWcond = 1 => Casting' # {}
          BY <4>3 DEF Casting
        <5> QED
          BY <2>2, <3>2, <4>1, <5>1 DEF LookOf
      <4> QED
        BY <2>1, <4>2, <4>3
    <3>4. spc'[r] = spc[r] /\ pub'[r] = pub[r] /\ calls'[r] = calls[r] /\ sconn'[r] = sconn[r]
      BY <1>1, <2>1
    <3> QED
      BY <1>1, <3>1, <3>3, <3>4, CallOKNext DEF CallOK
  <2> QED
    BY <2>3 DEF Calls
<1>6. CASE WriteBroadcast(t)
  <2>1. /\ spc' = [s \in Senders |-> IF spc[s] = "wait" THEN "insert" ELSE spc[s]]
        /\ UNCHANGED <<writing, wantWcond>>
    BY <1>6 DEF WriteBroadcast
  <2>2. ASSUME NEW r \in Senders PROVE CallOK(r)'
    <3>1. PICK p, q, x, z : p = pub[r] /\ q = spc[r] /\ x = <<r, calls[r]>> /\ z = spc'[r]
      OBVIOUS
    <3>2. /\ ShapeOf(p, q, calls[r], sconn[r], bindOf) /\ LockOf(r, p, q, x, held, waited)
          /\ LookOf(p, q, writing, wantWcond, Casting) /\ ReachOf(p, bindOf)
      BY <3>1 DEF Calls, CallOK
    <3>3. z = IF q = "wait" THEN "insert" ELSE q
      BY <2>1, <3>1
    <3>4. ShapeOf(p, z, calls[r], sconn[r], bindOf)
      BY <3>2, <3>3 DEF ShapeOf
    <3>5. LockOf(r, p, z, x, held, waited)
      BY <3>2, <3>3 DEF LockOf
    <3>6. LookOf(p, z, writing, wantWcond, Casting')
      BY <3>2, <3>3 DEF LookOf
    <3> QED
      BY <1>1, <2>1, <3>1, <3>2, <3>4, <3>5, <3>6, CallOKNext
  <2> QED
    BY <2>2 DEF Calls
<1> QED
  BY <1>4, <1>5, <1>6 DEF Handler

\* Steps of others that touch neither lock nor flags keep all calls, as long as
\* broadcasts stay pending.
LEMMA CallAside ==
    ASSUME Calls, UNCHANGED <<bindOf, pub, held, waited, calls, sconn, spc, writing, wantWcond>>,
           Casting \subseteq Casting'
    PROVE  Calls'
<1>1. ASSUME NEW r \in Senders PROVE CallOK(r)'
  <2>1. CallOK(r) /\ spc'[r] = spc[r] /\ pub'[r] = pub[r] /\ calls'[r] = calls[r] /\ sconn'[r] = sconn[r]
    BY DEF Calls
  <2> QED
    BY <2>1, OtherCall
<1> QED
  BY <1>1 DEF Calls

\* So do handlers, workers and peers.
LEMMA CallEnvironment ==
    ASSUME SendInv, DispatchShape, Calls, Environment
    PROVE  Calls'
<1> USE DEF sendVars, sockVars
<1>1. UNCHANGED <<bindOf, pub, held, log, waited, calls, sconn, spc, writing, wantWcond>>
  BY DEF Environment, dispatchVars, WriteReady, CloseConn, PeerReads, PeerCloses, Async, Run
<1>2. Casting \subseteq Casting'
  <2>1. CASE wh' = wh
    BY <2>1 DEF Casting
  <2>2. CASE \E c \in Conns : WriteReady(c)
    <3>1. PICK c \in Conns : WriteReady(c)
      BY <2>2
    <3>2. PICK t \in Threads : wh[t].pc = "idle" /\ \E g : wh' = [wh EXCEPT ![t] = g]
      BY <3>1, ThreadAssumption DEF WriteReady, Idle
    <3>3. wh \in [Threads -> WHandler]
      BY DEF SendInv, Shaped, HandlersOK
    <3> QED
      BY <3>2, <3>3 DEF Casting
  <2> QED
    BY <2>1, <2>2 DEF Environment, CloseConn, PeerReads, PeerCloses, Async, Run
<1> QED
  BY <1>1, <1>2, CallAside

\* Every step keeps the invariant of the calls.
LEMMA CallsNext ==
    ASSUME SendInv, DispatchShape, Calls, [DispatchNext]_allVars
    PROVE  Calls' /\ DispatchShape'
<1>1. Calls'
  <2>1. CASE UNCHANGED allVars
    <3>1. UNCHANGED <<bindOf, pub, held, waited, calls, sconn, spc, writing, wantWcond>> /\ Casting' = Casting
      BY <2>1 DEF allVars, vars, dispatchVars, sendVars, sockVars, Casting
    <3> QED
      BY <3>1, CallAside
  <2> QED
    BY <2>1, CallSendAll, CallSendEach, CallSendAgain, CallSendAllEnd, CallBindConn, CallLook, CallWait,
       CallSpurious, CallInsert, CallNoMem, CallCount, CallHandler, CallEnvironment DEF DispatchNext, Publisher
<1>2. bindOf' \in Topologies
  BY DEF DispatchShape, DispatchNext, Publisher, SendAll, SendEach, SendAgain, SendAllEnd,
         SendBindConn, Look, Wait, Spurious, InsertFrame, NoMem, Count, Handler, Environment, allVars,
         dispatchVars
<1>3. pub' \in [Senders -> PubRecord]
  <2>1. CASE UNCHANGED pub
    BY <2>1 DEF DispatchShape
  <2>2. ASSUME NEW s \in Senders, Look(s) \/ Wait(s) \/ InsertFrame(s) \/ Spurious(s)
        PROVE  UNCHANGED pub
    BY <2>2 DEF Look, Wait, InsertFrame, Spurious, dispatchVars
  <2>3. ASSUME NEW s \in Senders, NEW req \in Requests, SendBindConn(s, req)
        PROVE  UNCHANGED pub
    BY <2>3 DEF SendBindConn, dispatchVars
  <2>4. ASSUME NEW t \in Threads, Handler(t)
        PROVE  UNCHANGED pub
    BY <2>4 DEF Handler, dispatchVars
  <2>5. ASSUME Environment PROVE UNCHANGED pub
    BY <2>5 DEF Environment, dispatchVars
  <2>6. ASSUME UNCHANGED allVars PROVE UNCHANGED pub
    BY <2>6 DEF allVars, dispatchVars
  <2> QED
    BY <2>1, <2>2, <2>3, <2>4, <2>5, <2>6, CallSendAll, CallSendEach, CallSendAgain, CallSendAllEnd,
       CallNoMem, CallCount DEF DispatchNext, Publisher
<1>4. held' = {} \/ \E s \in Senders : held' = {s}
  <2>1. CASE UNCHANGED held
    BY <2>1 DEF DispatchShape
  <2>2. ASSUME NEW s \in Senders, \/ SendEach(s) \/ SendAgain(s) \/ Count(s) \/ Spurious(s) \/ Look(s)
                                  \/ \E req \in Requests : SendBindConn(s, req)
        PROVE  UNCHANGED held
    BY <2>2 DEF SendEach, SendAgain, Count, Spurious, Look, SendBindConn, dispatchVars
  <2>3. ASSUME NEW s \in Senders, NEW req \in Requests, SendAll(s, req)
        PROVE  held' = {s}
    BY <2>3 DEF SendAll, Holds
  <2>4. ASSUME NEW s \in Senders, SendAllEnd(s) \/ Wait(s)
        PROVE  held' = {}
    BY <2>4, CallSendAllEnd DEF Wait
  <2>5. ASSUME NEW s \in Senders, InsertFrame(s) \/ NoMem(s)
        PROVE  held' = {s} \/ UNCHANGED held
    BY <2>5 DEF InsertFrame, NoMem, Holds
  <2>6. ASSUME (\E t \in Threads : Handler(t)) \/ Environment \/ UNCHANGED allVars
        PROVE  UNCHANGED held
    BY <2>6 DEF Handler, Environment, allVars, dispatchVars
  <2> QED
    BY <2>1, <2>2, <2>3, <2>4, <2>5, <2>6 DEF DispatchNext, Publisher
<1>5. log' \in [Conns -> Seq(CallIds)]
  <2>1. CASE UNCHANGED log
    BY <2>1 DEF DispatchShape
  <2>2. ASSUME NEW s \in Senders, InsertFrame(s)
        PROVE  log' \in [Conns -> Seq(CallIds)]
    <3>1. PICK c \in Conns, x \in CallIds : c = sconn[s] /\ x = <<s, calls[s]>>
      BY <2>2, CallInsert
    <3>2. log' = [log EXCEPT ![c] = Append(@, x)]
      BY <2>2, <3>1 DEF InsertFrame, This
    <3>3. log \in [Conns -> Seq(CallIds)] /\ Append(log[c], x) \in Seq(CallIds)
      <4>1. log \in [Conns -> Seq(CallIds)]
        BY DEF DispatchShape
      <4> QED
        BY <4>1, ElemsAppend
    <3> QED
      BY <3>2, <3>3
  <2>3. ASSUME NEW s \in Senders, \/ SendEach(s) \/ SendAgain(s) \/ Count(s) \/ Spurious(s) \/ Wait(s)
                                  \/ SendAllEnd(s) \/ Look(s) \/ NoMem(s)
                                  \/ \E req \in Requests : SendBindConn(s, req) \/ SendAll(s, req)
        PROVE  UNCHANGED log
    BY <2>3 DEF SendEach, SendAgain, Count, Spurious, SendBindConn, Wait, SendAllEnd, Look, NoMem, SendAll,
                dispatchVars
  <2>4. ASSUME (\E t \in Threads : Handler(t)) \/ Environment \/ UNCHANGED allVars
        PROVE  UNCHANGED log
    BY <2>4 DEF Handler, Environment, allVars, dispatchVars
  <2> QED
    BY <2>1, <2>2, <2>3, <2>4 DEF DispatchNext, Publisher
<1>6. waited' \subseteq CallIds
  <2>1. CASE UNCHANGED waited
    BY <2>1 DEF DispatchShape
  <2>2. ASSUME NEW s \in Senders, Wait(s)
        PROVE  waited' \subseteq CallIds
    BY <2>2, CallWait DEF Wait, This, DispatchShape
  <2>3. ASSUME NEW s \in Senders, \/ SendEach(s) \/ SendAgain(s) \/ Count(s) \/ Spurious(s) \/ InsertFrame(s)
                                  \/ SendAllEnd(s) \/ Look(s) \/ NoMem(s)
                                  \/ \E req \in Requests : SendBindConn(s, req) \/ SendAll(s, req)
        PROVE  UNCHANGED waited
    BY <2>3 DEF SendEach, SendAgain, Count, Spurious, SendBindConn, InsertFrame, SendAllEnd, Look, NoMem, SendAll,
                dispatchVars
  <2>4. ASSUME (\E t \in Threads : Handler(t)) \/ Environment \/ UNCHANGED allVars
        PROVE  UNCHANGED waited
    BY <2>4 DEF Handler, Environment, allVars, dispatchVars
  <2> QED
    BY <2>1, <2>2, <2>3, <2>4 DEF DispatchNext, Publisher
<1> QED
  BY <1>1, <1>2, <1>3, <1>4, <1>5, <1>6 DEF DispatchShape

-----------------------------------------------------------------------------
(* The logs: which calls a connection got, in which order.  l is the log   *)
(* of one connection, lg those of all.                                     *)
Precedes(l, a, b) == \E j, k \in 1..Len(l) : j < k /\ l[j] = a /\ l[k] = b

Single(l) == \A a : ~Precedes(l, a, a)

\* Calls that did not wait come in the same order on all connections.
Agreeing(lg, W) ==
    \A a, b \in CallIds \ W : \A c, d \in Conns : ~(Precedes(lg[c], a, b) /\ Precedes(lg[d], b, a))

\* What follows x on connection c has waited, or is on no other connection.
Alone(x, c, lg, W) ==
    \A z : Precedes(lg[c], x, z) => z \in W \/ \A d \in Conns : d # c => z \notin Elems(lg[d])

\* A running call is only on the connections it has reached.
Reached(c, p, q) == /\ p.pc = "off" => q \in {"idle", "count"}
                    /\ p.pc # "off" => c < p.i \/ (c = p.i /\ q = "count")

Logged(s) == \A c \in Conns :
    /\ <<s, calls[s]>> \in Elems(log[c]) => Reached(c, pub[s], spc[s])
    /\ pub[s].pc # "off" /\ <<s, calls[s]>> \notin waited => Alone(<<s, calls[s]>>, c, log, waited)

\* No call from the future: the number of a call that begins is on no log.
Numbered == \A c \in Conns : \A x \in Elems(log[c]) : x[2] <= calls[x[1]]

Logs == /\ \A c \in Conns : Single(log[c])
        /\ Numbered /\ Agreeing(log, waited) /\ \A s \in Senders : Logged(s)

\* The order on a log that gets one more call.
LEMMA PrecedesAppend ==
    ASSUME NEW l \in Seq(CallIds), NEW x \in CallIds
    PROVE  /\ \A a, b : Precedes(Append(l, x), a, b) <=> Precedes(l, a, b) \/ (a \in Elems(l) /\ b = x)
           /\ Elems(Append(l, x)) = Elems(l) \cup {x}
<1> DEFINE r == Append(l, x)
           n == Len(l)
<1>1. /\ Len(r) = n + 1 /\ n \in Nat
      /\ \A j \in 1..n : r[j] = l[j] /\ j \in 1..Len(r)
      /\ r[n + 1] = x /\ n + 1 \in 1..Len(r)
      /\ \A j \in 1..Len(r) : j \in 1..n \/ j = n + 1
  OBVIOUS
<1> HIDE DEF r, n
<1>2. ASSUME NEW a, NEW b, Precedes(r, a, b)
      PROVE  Precedes(l, a, b) \/ (a \in Elems(l) /\ b = x)
  <2>1. PICK j \in 1..Len(r), k \in 1..Len(r) : j < k /\ r[j] = a /\ r[k] = b
    BY <1>2 DEF Precedes
  <2>2. j \in 1..n
    BY <1>1, <2>1
  <2>3. CASE k \in 1..n
    BY <1>1, <2>1, <2>2, <2>3 DEF Precedes, n
  <2>4. CASE k = n + 1
    BY <1>1, <2>1, <2>2, <2>4 DEF Elems, n
  <2> QED
    BY <1>1, <2>3, <2>4
<1>3. ASSUME NEW a, NEW b, Precedes(l, a, b)
      PROVE  Precedes(r, a, b)
  <2>1. PICK j \in 1..n, k \in 1..n : j < k /\ l[j] = a /\ l[k] = b
    BY <1>3 DEF Precedes, n
  <2> QED
    BY <1>1, <2>1 DEF Precedes
<1>4. ASSUME NEW a \in Elems(l)
      PROVE  Precedes(r, a, x)
  <2>1. PICK j \in 1..n : l[j] = a
    BY <1>4 DEF Elems, n
  <2>2. j < n + 1
    BY <1>1
  <2> QED
    BY <1>1, <2>1, <2>2 DEF Precedes
<1> QED
  BY <1>2, <1>3, <1>4, ElemsAppend DEF r

\* What stands before or behind another call is on the log.
LEMMA PrecedesElems ==
    ASSUME NEW l \in Seq(CallIds), NEW a, NEW b, Precedes(l, a, b)
    PROVE  a \in Elems(l) /\ b \in Elems(l)
  BY DEF Precedes, Elems

\* A call that is inserted on connection e, where it was not, keeps the order
\* of the logs, if what follows it elsewhere has waited or is not on e.
LEMMA AgreeInsert ==
    ASSUME NEW lg \in [Conns -> Seq(CallIds)], NEW e \in Conns, NEW x \in CallIds, NEW W,
           x \notin Elems(lg[e]), \A c \in Conns : Single(lg[c]), Agreeing(lg, W),
           x \notin W => \A c \in Conns : c # e => Alone(x, c, lg, W)
    PROVE  LET lh == [lg EXCEPT ![e] = Append(@, x)]
           IN Agreeing(lh, W) /\ \A c \in Conns : Single(lh[c])
<1> DEFINE lh == [lg EXCEPT ![e] = Append(@, x)]
<1>1. lh[e] = Append(lg[e], x) /\ \A c \in Conns : c # e => lh[c] = lg[c]
  OBVIOUS
<1>2. \A a, b : Precedes(lh[e], a, b) <=> Precedes(lg[e], a, b) \/ (a \in Elems(lg[e]) /\ b = x)
  BY <1>1, PrecedesAppend
<1>3. \A c \in Conns : \A a, b : Precedes(lg[c], a, b) => a \in Elems(lg[c]) /\ b \in Elems(lg[c])
  BY PrecedesElems
<1> HIDE DEF lh
<1>4. ASSUME NEW c \in Conns PROVE Single(lh[c])
  BY <1>1, <1>2 DEF Single
<1>5. ASSUME NEW a \in CallIds \ W, NEW c \in Conns, NEW d \in Conns, x \notin W,
             a \in Elems(lg[e]), Precedes(lh[d], x, a)
      PROVE  FALSE
  <2>1. CASE d = e
    BY <1>2, <1>3, <1>5, <2>1
  <2>2. CASE d # e
    <3>1. Precedes(lg[d], x, a)
      BY <1>1, <1>5, <2>2
    <3>2. a \in W \/ a \notin Elems(lg[e])
      BY <1>5, <2>2, <3>1 DEF Alone
    <3> QED
      BY <1>5, <3>2
  <2> QED
    BY <2>1, <2>2
<1>6. ASSUME NEW a \in CallIds \ W, NEW b \in CallIds \ W, NEW c \in Conns, NEW d \in Conns,
             Precedes(lh[c], a, b), Precedes(lh[d], b, a)
      PROVE  FALSE
  <2>1. Precedes(lg[c], a, b) \/ (c = e /\ a \in Elems(lg[e]) /\ b = x)
    BY <1>1, <1>2, <1>6
  <2>2. Precedes(lg[d], b, a) \/ (d = e /\ b \in Elems(lg[e]) /\ a = x)
    BY <1>1, <1>2, <1>6
  <2>3. CASE Precedes(lg[c], a, b) /\ Precedes(lg[d], b, a)
    BY <2>3 DEF Agreeing
  <2>4. CASE a \in Elems(lg[e]) /\ b = x
    BY <1>5, <1>6, <2>4
  <2>5. CASE b \in Elems(lg[e]) /\ a = x
    BY <1>5, <1>6, <2>5
  <2> QED
    BY <2>1, <2>2, <2>3, <2>4, <2>5
<1> QED
  BY <1>4, <1>6 DEF Agreeing, lh

\* The same step leaves what follows a call y as it was, if it inserts y itself
\* or a call that was on no log.
LEMMA AloneInsert ==
    ASSUME NEW lg \in [Conns -> Seq(CallIds)], NEW e \in Conns, NEW x \in CallIds, NEW W, NEW y, NEW c \in Conns,
           x \notin Elems(lg[e]), Single(lg[c]), Alone(y, c, lg, W),
           y = x \/ \A d \in Conns : x \notin Elems(lg[d])
    PROVE  Alone(y, c, [lg EXCEPT ![e] = Append(@, x)], W)
<1> DEFINE lh == [lg EXCEPT ![e] = Append(@, x)]
<1>1. lh[e] = Append(lg[e], x) /\ \A d \in Conns : d # e => lh[d] = lg[d]
  OBVIOUS
<1>2. /\ \A a, b : Precedes(lh[e], a, b) <=> Precedes(lg[e], a, b) \/ (a \in Elems(lg[e]) /\ b = x)
      /\ Elems(lh[e]) = Elems(lg[e]) \cup {x}
  BY <1>1, PrecedesAppend
<1>3. \A a, b : Precedes(lg[c], a, b) => a \in Elems(lg[c]) /\ b \in Elems(lg[c])
  BY PrecedesElems
<1> HIDE DEF lh
<1>4. ASSUME NEW z, Precedes(lh[c], y, z), z \notin W, NEW d \in Conns, d # c
      PROVE  z \notin Elems(lh[d])
  <2>1. Precedes(lg[c], y, z) \/ (c = e /\ y \in Elems(lg[e]) /\ z = x)
    BY <1>1, <1>2, <1>4
  <2>2. CASE Precedes(lg[c], y, z)
    <3>1. z \notin Elems(lg[d])
      BY <1>4, <2>2 DEF Alone
    <3>2. z # x
      BY <1>3, <2>2 DEF Single
    <3> QED
      BY <1>1, <1>2, <3>1, <3>2
  <2>3. CASE c = e /\ y \in Elems(lg[e]) /\ z = x
    <3>1. x \notin Elems(lg[d]) /\ d # e
      BY <1>4, <2>3
    <3> QED
      BY <1>1, <2>3, <3>1
  <2> QED
    BY <2>1, <2>2, <2>3
<1> QED
  BY <1>4 DEF Alone, lh

\* The parts of Logged in the next state.
LEMMA LogsNextIs ==
    /\ \A s \in Senders : Logged(s)' <=> \A c \in Conns :
         /\ <<s, calls'[s]>> \in Elems(log'[c]) => Reached(c, pub'[s], spc'[s])
         /\ pub'[s].pc # "off" /\ <<s, calls'[s]>> \notin waited'
              => Alone(<<s, calls'[s]>>, c, log', waited')
    /\ Numbered' <=> \A c \in Conns : \A x \in Elems(log'[c]) : x[2] <= calls'[x[1]]
    /\ Agreeing(log, waited)' <=> Agreeing(log', waited')
    /\ \A c \in Conns : Single(log[c])' <=> Single(log'[c])
  BY DEF Logged, Numbered, Agreeing, Alone, Single, Precedes, Reached, Elems

\* A sender goes on with its call, or begins a new one.
GoesOn(s) == /\ calls'[s] = calls[s] /\ (pub'[s].pc # "off" => pub[s].pc # "off")
             /\ \A c \in Conns : Reached(c, pub[s], spc[s]) => Reached(c, pub'[s], spc'[s])
Begins(s) == calls'[s] = calls[s] + 1

\* A step that inserts nothing keeps the logs in order.
LEMMA LogsKeep ==
    ASSUME SendInv, DispatchShape, Logs, log' = log, waited \subseteq waited',
           \A s \in Senders : GoesOn(s) \/ Begins(s)
    PROVE  Logs'
<1>1. log \in [Conns -> Seq(CallIds)] /\ calls \in [Senders -> 0..MaxSends] /\ MaxSends \in Nat
  BY SendAssumption DEF SendInv, Shaped, SendersOK, DispatchShape
<1>2. /\ \A c \in Conns : Single(log[c])
      /\ \A c \in Conns : \A x \in Elems(log[c]) : x[2] <= calls[x[1]]
      /\ Agreeing(log, waited) /\ \A s \in Senders : Logged(s)
  BY DEF Logs, Numbered
<1>3. \A c \in Conns : \A x \in Elems(log[c]) : x \in CallIds
  BY <1>1 DEF Elems
<1>4. \A s \in Senders : calls[s] \in Nat /\ calls'[s] \in Nat /\ calls[s] <= calls'[s]
  BY <1>1 DEF GoesOn, Begins
<1>5. ASSUME NEW c \in Conns, NEW x \in Elems(log[c])
      PROVE  x[2] <= calls'[x[1]]
  <2>1. x[1] \in Senders /\ x[2] \in Nat /\ x[2] <= calls[x[1]]
    BY <1>1, <1>2, <1>3 DEF CallIds
  <2> QED
    BY <1>4, <2>1
<1>6. Agreeing(log, waited')
  BY <1>2 DEF Agreeing
<1>7. ASSUME NEW s \in Senders
      PROVE  Logged(s)'
  <2>1. CASE GoesOn(s)
    <3>1. ASSUME NEW c \in Conns, <<s, calls[s]>> \in Elems(log[c])
          PROVE  Reached(c, pub'[s], spc'[s])
      BY <1>2, <2>1, <3>1 DEF GoesOn, Logged
    <3>2. ASSUME NEW c \in Conns, pub'[s].pc # "off", <<s, calls[s]>> \notin waited'
          PROVE  Alone(<<s, calls[s]>>, c, log, waited')
      <4>1. Alone(<<s, calls[s]>>, c, log, waited)
        BY <1>2, <2>1, <3>2 DEF GoesOn, Logged
      <4> QED
        BY <4>1 DEF Alone
    <3> QED
      BY <2>1, <3>1, <3>2, LogsNextIs DEF GoesOn
  <2>2. CASE Begins(s)
    <3>1. PICK x : x = <<s, calls[s] + 1>>
      OBVIOUS
    <3>2. \A c \in Conns : x \notin Elems(log[c])
      BY <1>2, <1>4, <3>1
    <3>3. \A c \in Conns : Alone(x, c, log, waited')
      BY <1>1, <3>2, PrecedesElems DEF Alone
    <3> QED
      BY <2>2, <3>1, <3>2, <3>3, LogsNextIs DEF Begins
  <2> QED
    BY <2>1, <2>2
<1> QED
  BY <1>2, <1>5, <1>6, <1>7, LogsNextIs DEF Logs

\* A publisher that has not waited holds sock->sync until its call ends.
LEMMA PublisherHolds ==
    ASSUME SendInv, DispatchShape, Calls, NEW s \in Senders, pub[s].pc # "off", <<s, calls[s]>> \notin waited
    PROVE  held = {s}
<1>1. PICK p, q, x : p = pub[s] /\ q = spc[s] /\ x = <<s, calls[s]>>
  OBVIOUS
<1>2. /\ p \in PubRecord /\ q \in {"idle", "look", "lock", "wait", "insert", "count"}
      /\ LockOf(s, p, q, x, held, waited) /\ (p.pc = "send" => q \notin {"idle", "look"})
  BY <1>1, CallParts DEF ShapeOf
<1>3. p.pc \in {"off", "each", "again", "send", "left"} /\ p.pc # "off" /\ x \notin waited
  BY <1>1, <1>2, PubFields
<1> QED
  BY <1>2, <1>3 DEF LockOf

\* fsock_send inserts a frame: the call was on this connection's log not, and,
\* unless it is a publisher's, on none.
LEMMA LogsInsert ==
    ASSUME SendInv, DispatchShape, Calls, Logs, NEW s \in Senders, InsertFrame(s)
    PROVE  Logs'
<1>1. PICK e, x, p : e = sconn[s] /\ x = <<s, calls[s]>> /\ p = pub[s]
  OBVIOUS
<1>2. /\ e \in Conns /\ x \in CallIds /\ p \in PubRecord
      /\ log \in [Conns -> Seq(CallIds)] /\ calls \in [Senders -> 0..MaxSends]
      /\ spc \in [Senders -> {"idle", "look", "lock", "wait", "insert", "count"}]
  BY <1>1, CallInsert, CallParts DEF DispatchShape
<1>3. /\ spc[s] = "insert" /\ spc' = [spc EXCEPT ![s] = "count"]
      /\ log' = [log EXCEPT ![e] = Append(@, x)]
      /\ p.pc = "send" => held \subseteq {s}
      /\ UNCHANGED <<calls, pub, waited>>
  BY <1>1 DEF InsertFrame, SendInsert, This, Locked, CanLock
<1>4. p.pc = "off" \/ (p.pc = "send" /\ e = p.i /\ e \in Nat)
  BY <1>1, <1>2, <1>3, CallParts, PubFields, ThreadAssumption DEF ShapeOf, Conns
<1>5. /\ \A c \in Conns : Single(log[c])
      /\ \A c \in Conns : \A y \in Elems(log[c]) : y[2] <= calls[y[1]]
      /\ Agreeing(log, waited) /\ \A r \in Senders : Logged(r)
  BY DEF Logs, Numbered
<1>6. \A c \in Conns : x \in Elems(log[c]) => Reached(c, p, "insert")
  BY <1>1, <1>3, <1>5 DEF Logged
<1>7. x \notin Elems(log[e]) /\ (p.pc = "off" => \A c \in Conns : x \notin Elems(log[c]))
  BY <1>2, <1>4, <1>6 DEF Reached
<1>8. x \notin waited => \A c \in Conns : c # e => Alone(x, c, log, waited)
  <2>1. CASE p.pc = "off"
    BY <1>2, <1>7, <2>1, PrecedesElems DEF Alone
  <2>2. CASE p.pc # "off"
    BY <1>1, <1>5, <2>2 DEF Logged
  <2> QED
    BY <2>1, <2>2
<1>9. Agreeing(log', waited') /\ \A c \in Conns : Single(log'[c])
  BY <1>2, <1>3, <1>5, <1>7, <1>8, AgreeInsert
<1>10. \A c \in Conns : Elems(log'[c]) \subseteq Elems(log[c]) \cup {x}
  BY <1>2, <1>3, PrecedesAppend
<1>11. \A c \in Conns : c # e => log'[c] = log[c]
  BY <1>2, <1>3
<1>12. \A c \in Conns : \A y \in Elems(log'[c]) : y[2] <= calls'[y[1]]
  <2>1. x[2] <= calls[x[1]]
    BY <1>1, <1>2, SendAssumption
  <2> QED
    BY <1>3, <1>5, <1>10, <2>1
<1>13. ASSUME NEW r \in Senders
       PROVE  Logged(r)'
  <2>1. PICK y : y = <<r, calls[r]>>
    OBVIOUS
  <2>2. y = x <=> r = s
    BY <1>1, <2>1
  <2>3. ASSUME NEW c \in Conns, y \in Elems(log'[c])
        PROVE  Reached(c, pub'[r], spc'[r])
    <3>1. CASE r = s /\ c = e
      BY <1>1, <1>2, <1>3, <1>4, <3>1 DEF Reached
    <3>2. CASE r = s /\ c # e
      <4>1. Reached(c, p, "insert") /\ spc'[s] = "count" /\ pub'[s] = p
        BY <1>1, <1>2, <1>3, <1>6, <1>11, <2>2, <2>3, <3>2
      <4> QED
        BY <4>1, <3>2 DEF Reached
    <3>3. CASE r # s
      <4>1. y \in Elems(log[c])
        BY <1>10, <2>2, <2>3, <3>3
      <4>2. Reached(c, pub[r], spc[r]) /\ spc'[r] = spc[r]
        BY <1>2, <1>3, <1>5, <2>1, <3>3, <4>1 DEF Logged
      <4> QED
        BY <1>3, <4>2
    <3> QED
      BY <3>1, <3>2, <3>3
  <2>4. ASSUME NEW c \in Conns, pub[r].pc # "off", y \notin waited
        PROVE  Alone(y, c, log', waited)
    <3>1. Alone(y, c, log, waited)
      BY <1>5, <2>1, <2>4 DEF Logged
    <3>2. y = x \/ \A d \in Conns : x \notin Elems(log[d])
      <4>1. CASE r # s
        <5>1. held = {r}
          BY <2>1, <2>4, PublisherHolds
        <5> QED
          BY <1>3, <1>4, <1>7, <4>1, <5>1
      <4> QED
        BY <2>2, <4>1
    <3> QED
      BY <1>2, <1>3, <1>5, <1>7, <3>1, <3>2, AloneInsert
  <2> QED
    BY <1>3, <2>1, <2>3, <2>4, LogsNextIs
<1> QED
  BY <1>9, <1>12, <1>13, LogsNextIs DEF Logs

\* A publisher's record in a step that moves it: it stays, or the walk goes on
\* from an element at which the call is neither waiting nor counting, or has
\* just counted.
LEMMA ReachedMoves ==
    ASSUME NEW p \in PubRecord, NEW r \in PubRecord, NEW q, NEW z, NEW c \in Conns, Reached(c, p, q),
           \/ r = p /\ (p.pc = "off" /\ q \in {"idle", "count"} => z = "idle") /\ (q # "count")
           \/ p.pc # "off" /\ r.pc # "off" /\ ((r.i = p.i /\ q # "count") \/ r.i = p.i + 1)
           \/ r.pc = "off" /\ z = "idle"
    PROVE  Reached(c, r, z)
<1>1. c \in Nat /\ p.i \in Nat /\ r.i \in Nat
  BY ThreadAssumption, PubFields DEF Conns
<1> QED
  BY <1>1 DEF Reached

\* The steps of a publisher that insert nothing.
LEMMA PublisherGoesOn ==
    ASSUME SendInv, DispatchShape, Calls, NEW s \in Senders,
           \/ SendEach(s) \/ SendAgain(s) \/ SendAllEnd(s) \/ Count(s) \/ Look(s) \/ Wait(s)
           \/ Spurious(s) \/ NoMem(s)
    PROVE  log' = log /\ waited \subseteq waited' /\ \A r \in Senders : GoesOn(r) \/ Begins(r)
<1>1. PICK p, q, z : p = pub[s] /\ q = spc[s] /\ z = spc'[s]
  OBVIOUS
<1>2. /\ p \in PubRecord /\ pub \in [Senders -> PubRecord]
      /\ spc \in [Senders -> {"idle", "look", "lock", "wait", "insert", "count"}]
      /\ (p.pc \in {"each", "again", "left"} => q = "idle") /\ (p.pc = "send" => q # "idle")
  BY <1>1, CallParts DEF ShapeOf
<1>3. log' = log /\ waited \subseteq waited'
  BY DEF SendEach, SendAgain, SendAllEnd, Count, Look, Wait, Spurious, NoMem, dispatchVars
<1>4. /\ calls' = calls
      /\ \A r \in Senders : r # s => pub'[r] = pub[r] /\ spc'[r] = spc[r]
  BY <1>2 DEF SendEach, SendAgain, SendAllEnd, Count, Look, Wait, Spurious, NoMem, SendCount, SendLook,
              SendWait, SpuriousWakeup, SendNoMem, Continue, vars, sendVars, dispatchVars
<1>5. pub' \in [Senders -> PubRecord]
  <2>1. CASE Look(s) \/ Wait(s) \/ Spurious(s)
    BY <1>2, <2>1 DEF Look, Wait, Spurious, dispatchVars
  <2> QED
    BY <2>1, CallSendEach, CallSendAgain, CallSendAllEnd, CallCount, CallNoMem
<1>6. PICK r \in PubRecord : r = pub'[s]
  BY <1>5
<1>7. /\ r.pc # "off" => p.pc # "off"
      /\ \A c \in Conns : Reached(c, p, q) => Reached(c, r, z)
  <2>1. CASE Look(s) \/ Wait(s) \/ Spurious(s)
    <3>1. r = p /\ q \in {"look", "lock", "wait"}
      BY <1>1, <1>6, <2>1 DEF Look, Wait, Spurious, SendLook, SendWait, SpuriousWakeup, dispatchVars
    <3> QED
      BY <1>2, <3>1, ReachedMoves
  <2>2. CASE SendEach(s)
    <3>1. p.pc = "each" /\ q = "idle" /\ z = "idle"
      BY <1>1, <1>2, <2>2 DEF SendEach, vars, sendVars
    <3>2. r \in {NextElement(p), Refuse(p, p.i), [p EXCEPT !.pc = "again"]}
      BY <1>1, <1>2, <1>6, <2>2 DEF SendEach, Continue, Target
    <3>3. p.i \in Conns
      <4>1. p.i <= ArrayLen(p.req)
        BY <1>1, <2>2 DEF SendEach
      <4>2. ArrayLen(p.req) = Spans(bindOf, p.req) /\ Spans(bindOf, p.req) \in Nat /\ Spans(bindOf, p.req) <= NConns
        BY ArrayIs, SpansBound
      <4>3. p.i \in Nat /\ p.i >= 1
        BY <1>2, PubFields
      <4> QED
        BY <4>1, <4>2, <4>3, ThreadAssumption DEF Conns
    <3>4. r.pc \in {"each", "left", "again"} /\ (r.i = p.i \/ r.i = p.i + 1)
      <4>1. CASE r = NextElement(p)
        BY <1>2, <3>3, <4>1, RecordNext
      <4>2. CASE r = Refuse(p, p.i)
        <5>1. PICK c \in Conns : c = p.i
          BY <3>3
        <5>2. r = Refuse(p, c)
          BY <4>2, <5>1
        <5> QED
          BY <1>2, <3>3, <5>2, RecordRefused
      <4>3. CASE r = [p EXCEPT !.pc = "again"]
        BY <1>2, <4>3, RecordTo
      <4> QED
        BY <3>2, <4>1, <4>2, <4>3
    <3> QED
      BY <1>2, <3>1, <3>4, ReachedMoves
  <2>3. CASE SendAgain(s)
    <3>1. p.pc = "again" /\ q = "idle" /\ r = [p EXCEPT !.pc = "send"]
      BY <1>1, <1>2, <1>6, <2>3 DEF SendAgain, Continue
    <3>2. r.pc = "send" /\ r.i = p.i
      BY <1>2, <3>1, RecordTo
    <3> QED
      BY <1>2, <3>1, <3>2, ReachedMoves
  <2>4. CASE SendAllEnd(s)
    <3>1. p.pc \in {"each", "left"} /\ z = q /\ r = Off
      BY <1>1, <1>2, <1>6, <2>4 DEF SendAllEnd, Continue, vars, sendVars
    <3>2. r.pc = "off" /\ z = "idle"
      BY <1>2, <3>1, OffFields
    <3> QED
      BY <1>2, <3>1, <3>2, ReachedMoves
  <2>5. CASE Count(s)
    <3>1. q = "count" /\ z = "idle"
      BY <1>1, <1>2, <2>5 DEF Count, SendCount
    <3>2. CASE p.pc # "send"
      <4>1. r = p /\ p.pc = "off"
        BY <1>1, <1>2, <1>6, <2>5, <3>1, <3>2, PubFields DEF Count, Locked
      <4> QED
        BY <1>2, <3>1, <4>1, ReachedMoves
    <3>3. CASE p.pc = "send"
      <4>1. PICK n, c : c = sconn[s] /\ n = [NextElement(p) EXCEPT !.got = Append(@, c)]
        OBVIOUS
      <4>2. r = n \/ r = [n EXCEPT !.pc = "left"]
        BY <1>1, <1>2, <1>6, <2>5, <3>3, <4>1 DEF Count, Locked, Continue
      <4>3. c \in Conns /\ p.i \in Conns
        BY <1>1, <3>3, <4>1, CallParts DEF ShapeOf
      <4>4. n \in PubRecord /\ n.pc = "each" /\ n.i = p.i + 1
        BY <1>2, <4>1, <4>3, RecordGot
      <4>5. r.pc \in {"each", "left"} /\ r.i = p.i + 1
        <5>1. CASE r = n
          BY <4>4, <5>1
        <5>2. CASE r = [n EXCEPT !.pc = "left"]
          <6>1. r.pc = "left" /\ r.i = n.i
            BY <4>4, <5>2, RecordTo
          <6> QED
            BY <4>4, <6>1
        <5> QED
          BY <4>2, <5>1, <5>2
      <4> QED
        BY <1>2, <3>3, <4>5, ReachedMoves
    <3> QED
      BY <3>2, <3>3
  <2>6. CASE NoMem(s)
    <3>1. q = "insert" /\ z = "idle"
      BY <1>1, <1>2, <2>6 DEF NoMem, SendNoMem
    <3>2. CASE p.pc # "send"
      <4>1. r = p /\ p.pc = "off"
        BY <1>1, <1>6, <2>6, <3>2, CallNoMem
      <4> QED
        BY <1>2, <3>1, <4>1, ReachedMoves
    <3>3. CASE p.pc = "send"
      <4>1. r.pc \in {"each", "left"} /\ r.i = p.i + 1
        BY <1>1, <1>6, <2>6, <3>3, CallNoMem
      <4> QED
        BY <1>2, <3>3, <4>1, ReachedMoves
    <3> QED
      BY <3>2, <3>3
  <2> QED
    BY <2>1, <2>2, <2>3, <2>4, <2>5, <2>6
<1>8. GoesOn(s)
  BY <1>1, <1>4, <1>6, <1>7 DEF GoesOn
<1>9. \A u \in Senders : GoesOn(u)
  BY <1>4, <1>8 DEF GoesOn
<1> QED
  BY <1>3, <1>9

\* Every other step leaves the logs alone.
LEMMA LogsNext ==
    ASSUME SendInv, DispatchShape, Calls, Logs, [DispatchNext]_allVars
    PROVE  Logs'
<1>1. ASSUME NEW s \in Senders, NEW req \in Requests, SendAll(s, req) \/ SendBindConn(s, req)
      PROVE  log' = log /\ waited \subseteq waited' /\ \A r \in Senders : GoesOn(r) \/ Begins(r)
  <2>1. /\ pub \in [Senders -> PubRecord] /\ calls \in [Senders -> 0..MaxSends]
        /\ spc \in [Senders -> {"idle", "look", "lock", "wait", "insert", "count"}]
    BY CallParts
  <2>2. log' = log /\ waited' = waited
    BY <1>1 DEF SendAll, SendBindConn, dispatchVars
  <2>3. /\ calls' = [calls EXCEPT ![s] = @ + 1]
        /\ \A r \in Senders : r # s => pub'[r] = pub[r] /\ spc'[r] = spc[r]
    BY <1>1, <2>1 DEF SendAll, SendBindConn, SendCall, Continue, dispatchVars
  <2>4. Begins(s) /\ \A r \in Senders : r # s => GoesOn(r)
    BY <2>1, <2>3 DEF Begins, GoesOn
  <2> QED
    BY <2>2, <2>4
<1>2. ASSUME NEW t \in Threads, Handler(t)
      PROVE  log' = log /\ waited \subseteq waited' /\ \A r \in Senders : GoesOn(r) \/ Begins(r)
  <2>1. UNCHANGED <<log, waited, pub, calls>>
    BY <1>2 DEF Handler, WriteTop, Writev, WriteAgain, WriteError, WriteAcct, WriteBroadcast,
                WriteStop, dispatchVars, sendVars
  <2>2. \A r \in Senders : spc'[r] = spc[r] \/ spc[r] = "wait"
    BY <1>2 DEF Handler, WriteTop, Writev, WriteAgain, WriteError, WriteAcct, WriteBroadcast,
                WriteStop, sendVars
  <2>3. \A r \in Senders : GoesOn(r)
    BY <2>1, <2>2 DEF GoesOn, Reached
  <2> QED
    BY <2>1, <2>3
<1>3. ASSUME Environment \/ UNCHANGED allVars
      PROVE  log' = log /\ waited \subseteq waited' /\ \A r \in Senders : GoesOn(r) \/ Begins(r)
  <2>1. UNCHANGED <<log, waited, pub, calls, spc>>
    BY <1>3 DEF Environment, WriteReady, CloseConn, PeerReads, PeerCloses, Async, Run, dispatchVars,
                sendVars, allVars, vars
  <2>2. \A r \in Senders : GoesOn(r)
    BY <2>1 DEF GoesOn, Reached
  <2> QED
    BY <2>1, <2>2
<1>4. ASSUME NEW s \in Senders,
             \/ SendEach(s) \/ SendAgain(s) \/ SendAllEnd(s) \/ Count(s) \/ Look(s) \/ Wait(s)
             \/ Spurious(s) \/ NoMem(s)
      PROVE  log' = log /\ waited \subseteq waited' /\ \A r \in Senders : GoesOn(r) \/ Begins(r)
  BY <1>4, PublisherGoesOn
<1>5. CASE \E s \in Senders : InsertFrame(s)
  BY <1>5, LogsInsert
<1>6. CASE ~\E s \in Senders : InsertFrame(s)
  <2>1. log' = log /\ waited \subseteq waited' /\ \A r \in Senders : GoesOn(r) \/ Begins(r)
    BY <1>1, <1>2, <1>3, <1>4, <1>6 DEF DispatchNext, Publisher
  <2> QED
    BY <2>1, LogsKeep
<1> QED
  BY <1>5, <1>6

-----------------------------------------------------------------------------
(* What holds of the dispatch.                                             *)
DispatchInv == SendInv /\ DispatchShape /\ Calls /\ Logs

\* The initial states satisfy the whole invariant.
LEMMA DispatchInvInit ==
    DispatchInit => DispatchInv
<1> SUFFICES ASSUME DispatchInit PROVE DispatchInv
  OBVIOUS
<1>1. /\ Init /\ bindOf \in Topologies /\ pub = [s \in Senders |-> Off] /\ held = {}
      /\ log = [c \in Conns |-> << >>] /\ waited = {}
  BY DEF DispatchInit
<1>2. SendInv
  BY <1>1, SendInvInit
<1>3. /\ spc = [s \in Senders |-> "idle"]
  BY <1>1 DEF Init
<1>4. DispatchShape
  <2>1. << >> \in Seq(CallIds)
    OBVIOUS
  <2> QED
    BY <1>1, <2>1, OffFields DEF DispatchShape
<1>5. Calls
  BY <1>1, <1>3, OffFields DEF Calls, CallOK, ShapeOf, LockOf, LookOf, ReachOf
<1>6. Logs
  <2>1. \A c \in Conns : log[c] = << >> /\ Elems(log[c]) = {} /\ \A a, b : ~Precedes(log[c], a, b)
    BY <1>1 DEF Elems, Precedes
  <2> QED
    BY <2>1 DEF Logs, Single, Numbered, Agreeing, Logged, Alone
<1> QED
  BY <1>2, <1>4, <1>5, <1>6 DEF DispatchInv

\* Every step preserves the whole invariant.
LEMMA DispatchInvNext ==
    DispatchInv /\ [DispatchNext]_allVars => DispatchInv'
  BY SendInvDispatch, CallsNext, LogsNext DEF DispatchInv

\* A call that has gone through its array has passed all connections selected.
LEMMA ThroughReaches ==
    ASSUME SendInv, DispatchShape, Calls, NEW s \in Senders, Through(s),
           pub[s].req.type = "BIND" => Aligned(pub[s].req.b)
    PROVE  Reaches(s)
<1>1. PICK p : p = pub[s]
  OBVIOUS
<1>2. p \in PubRecord /\ ShapeOf(p, spc[s], calls[s], sconn[s], bindOf) /\ ReachOf(p, bindOf)
  BY <1>1, CallParts
<1>3. p.pc = "each" /\ p.i > ArrayLen(p.req)
  BY <1>1 DEF Through
<1>4. p.req \in RequestType /\ p.i \in Nat /\ p.req.type # "BINDCONN"
  BY <1>2, <1>3, PubFields DEF ShapeOf
<1>5. p.req.type \in {"ALL", "BIND"}
  BY <1>4 DEF RequestType
<1>6. p.i = Spans(bindOf, p.req) + 1 /\ Spans(bindOf, p.req) \in Nat
  <2>1. ArrayLen(p.req) = Spans(bindOf, p.req) /\ Spans(bindOf, p.req) \in Nat
    BY ArrayIs, SpansBound
  <2>2. p.i <= Spans(bindOf, p.req) + 1
    BY <1>2, <1>3 DEF ShapeOf
  <2> QED
    BY <1>3, <1>4, <2>1, <2>2
<1>7. {c \in Conns : c < p.i /\ Wants(bindOf, c, p.req.dflags)} = Selected(p.req)
  <2>1. CASE p.req.type = "ALL"
    <3>1. \A c \in Conns : c < p.i
      BY <1>6, <2>1, ThreadAssumption DEF Spans, Conns
    <3> QED
      BY <2>1, <3>1 DEF Selected, Wants, Kind
  <2>2. CASE p.req.type = "BIND"
    <3>1. PICK n : n = Spans(bindOf, p.req)
      OBVIOUS
    <3>2. Local(p.req.b) = 1..n /\ n \in Nat
      BY <1>1, <1>6, <2>2, <3>1 DEF Aligned, Spans, Local
    <3>3. \A c \in Conns : c < p.i <=> bindOf[c] = p.req.b
      <4>1. \A c \in Conns : c \in 1..n <=> bindOf[c] = p.req.b
        BY <3>2 DEF Local
      <4>2. \A c \in Conns : c < p.i <=> c \in 1..n
        BY <1>6, <3>1, <3>2, ThreadAssumption DEF Conns
      <4> QED
        BY <4>1, <4>2
    <3> QED
      BY <2>2, <3>3 DEF Selected, Wants, Kind
  <2> QED
    BY <1>5, <2>1, <2>2
<1>8. /\ Elems(p.got) \cup p.refused = Selected(p.req)
      /\ Elems(p.got) \cap p.refused = {} /\ Len(p.got) = Cardinality(Elems(p.got))
  BY <1>2, <1>3, <1>7 DEF ReachOf
<1> QED
  BY <1>1, <1>8 DEF Reaches, Elems

\* The invariant gives the properties of the dispatch.
LEMMA DispatchInvGives ==
    DispatchInv => DispatchTypeOK /\ SelectedOnce /\ SameOrder /\ DonwaitNeverWaits /\ PublisherWoken
<1> SUFFICES ASSUME DispatchInv
             PROVE  DispatchTypeOK /\ SelectedOnce /\ SameOrder /\ DonwaitNeverWaits /\ PublisherWoken
  OBVIOUS
<1>1. SendInv /\ DispatchShape /\ Calls /\ Logs
  BY DEF DispatchInv
<1>2. DispatchTypeOK
  <2>1. SendTypeOK
    BY <1>1, SendInvGives
  <2>2. held \subseteq Senders /\ Cardinality(held) <= 1
    <3>1. held = {} \/ \E s \in Senders : held = {s}
      BY <1>1 DEF DispatchShape
    <3>2. CASE held = {}
      BY <3>2, FS_EmptySet
    <3>3. ASSUME NEW s \in Senders, held = {s}
          PROVE  held \subseteq Senders /\ Cardinality(held) <= 1
      <4>1. Cardinality(held) = 1
        BY <3>3, FS_Singleton
      <4> QED
        BY <3>3, <4>1
    <3> QED
      BY <3>1, <3>2, <3>3
  <2> QED
    BY <1>1, <2>1, <2>2 DEF DispatchTypeOK, DispatchShape, PubRecord
<1>3. SelectedOnce
  BY <1>1, ThroughReaches DEF SelectedOnce
<1>4. SameOrder
  BY <1>1 DEF SameOrder, Before, Logs, Agreeing, Precedes
<1>5. ASSUME NEW s \in Senders
      PROVE  /\ Publishing(s) /\ pub[s].req.donwait => spc[s] \notin {"lock", "wait"}
             /\ Publishing(s) /\ spc[s] = "wait" =>
                  \/ writing = STOP_OP /\ wantWcond = 1
                  \/ \E t \in Threads : wh[t].pc = "bcast"
  <2>1. PICK p, q : p = pub[s] /\ q = spc[s]
    OBVIOUS
  <2>2. /\ p \in PubRecord /\ (p.pc \in {"each", "again", "left"} => q = "idle")
        /\ LookOf(p, q, writing, wantWcond, Casting)
    BY <1>1, <2>1, CallParts DEF ShapeOf
  <2>3. p.pc \in {"off", "each", "again", "send", "left"}
    BY <2>2, PubFields
  <2>4. p.pc # "off" /\ p.req.donwait => q \notin {"lock", "wait"}
    BY <2>2, <2>3 DEF LookOf
  <2>5. p.pc # "off" /\ q = "wait" => (writing = STOP_OP /\ wantWcond = 1) \/ Casting # {}
    BY <2>2, <2>3 DEF LookOf
  <2> QED
    BY <2>1, <2>4, <2>5 DEF Publishing, Casting
<1> QED
  BY <1>2, <1>3, <1>4, <1>5 DEF DonwaitNeverWaits, PublisherWoken

\* The types of the dispatch, and that at most one publisher holds sock->sync,
\* for every topology, set of requests and number of publishers.
THEOREM DispatchTypes == DispatchSpec => []DispatchTypeOK
<1>1. DispatchInv => DispatchTypeOK
  BY DispatchInvGives
<1> QED
  BY <1>1, DispatchInvInit, DispatchInvNext, PTL DEF DispatchSpec

\* fsock_send_all that went through its array has offered the frame to each
\* connection selected exactly once, and to no other.
THEOREM SelectedExactlyOnce == DispatchSpec => []SelectedOnce
<1>1. DispatchInv => SelectedOnce
  BY DispatchInvGives
<1> QED
  BY <1>1, DispatchInvInit, DispatchInvNext, PTL DEF DispatchSpec

\* Two calls that did not wait are in the same order on all connections.
THEOREM OrderAgrees == DispatchSpec => []SameOrder
<1>1. DispatchInv => SameOrder
  BY DispatchInvGives
<1> QED
  BY <1>1, DispatchInvInit, DispatchInvNext, PTL DEF DispatchSpec

\* With FSOCK_DONWAIT a dispatch never waits, although the flag and
\* sock->writing are looked at twice.
THEOREM DonwaitIsKept == DispatchSpec => []DonwaitNeverWaits
<1>1. DispatchInv => DonwaitNeverWaits
  BY DispatchInvGives
<1> QED
  BY <1>1, DispatchInvInit, DispatchInvNext, PTL DEF DispatchSpec

\* A waiting publisher is announced while the stop lasts, and a broadcast is on
\* its way once it was lifted.
THEOREM PublishersAreWoken == DispatchSpec => []PublisherWoken
<1>1. DispatchInv => PublisherWoken
  BY DispatchInvGives
<1> QED
  BY <1>1, DispatchInvInit, DispatchInvNext, PTL DEF DispatchSpec

=============================================================================
