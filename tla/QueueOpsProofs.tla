--------------------------- MODULE QueueOpsProofs ---------------------------
(***************************************************************************)
(* What the operations on the sequences of queue items do to the set of    *)
(* their elements, their order and their distinctness: the facts the       *)
(* proofs about the queues of every component rest on.                     *)
(***************************************************************************)
EXTENDS QueueOps, TLAPS

\* No item stands twice in s.
Distinct(s) == \A j, k \in 1..Len(s) : s[j] = s[k] => j = k

\* Taking one element out of a sequence yields a sequence.
LEMMA RemoveAtType ==
    ASSUME NEW S, NEW s \in Seq(S), NEW k \in 1..Len(s)
    PROVE  /\ RemoveAt(s, k) \in Seq(S)
           /\ Len(RemoveAt(s, k)) = Len(s) - 1
           /\ \A j \in 1..(Len(s) - 1) :
                 RemoveAt(s, k)[j] = IF j < k THEN s[j] ELSE s[j + 1]
<1> DEFINE r == RemoveAt(s, k)
<1>1. Len(s) \in Nat /\ Len(s) - 1 \in Nat
  OBVIOUS
<1>2. r = [j \in 1..(Len(s) - 1) |-> IF j < k THEN s[j] ELSE s[j + 1]]
  BY DEF RemoveAt
<1>3. \A j \in 1..(Len(s) - 1) : (IF j < k THEN s[j] ELSE s[j + 1]) \in S
  OBVIOUS
<1>4. r \in Seq(S)
  BY <1>1, <1>2, <1>3
<1>5. Len(r) = Len(s) - 1
  BY <1>1, <1>2, <1>4
<1> QED
  BY <1>2, <1>4, <1>5

\* A position of a concatenation belongs to exactly one of its parts.
LEMMA ConcatPositions ==
    ASSUME NEW S, NEW s \in Seq(S), NEW t \in Seq(S)
    PROVE  /\ s \o t \in Seq(S)
           /\ Len(s \o t) = Len(s) + Len(t)
           /\ \A m \in 1..Len(s) : (s \o t)[m] = s[m] /\ m \in 1..(Len(s) + Len(t))
           /\ \A n \in 1..Len(t) : /\ (s \o t)[Len(s) + n] = t[n]
                                   /\ Len(s) + n \in 1..(Len(s) + Len(t))
           /\ \A m \in 1..(Len(s) + Len(t)) :
                 m \in 1..Len(s) \/ \E n \in 1..Len(t) : m = Len(s) + n
<1>1. PICK a \in Nat, b \in Nat : a = Len(s) /\ b = Len(t)
  OBVIOUS
<1>2. /\ s \o t \in Seq(S) /\ Len(s \o t) = Len(s) + Len(t)
      /\ \A m \in 1..(Len(s) + Len(t)) :
            (s \o t)[m] = IF m <= Len(s) THEN s[m] ELSE t[m - Len(s)]
  OBVIOUS
<1>3. \A m \in 1..a : m \in 1..(a + b) /\ m <= a
  OBVIOUS
<1>4. \A n \in 1..b : a + n \in 1..(a + b) /\ ~(a + n <= a) /\ (a + n) - a = n
  OBVIOUS
<1>5. ASSUME NEW m \in 1..(a + b)
      PROVE  m \in 1..a \/ \E n \in 1..b : m = a + n
  <2>1. CASE m <= a
    BY <2>1
  <2>2. CASE ~(m <= a)
    <3>1. m - a \in 1..b /\ m = a + (m - a)
      BY <2>2
    <3> QED
      BY <3>1
  <2> QED
    BY <2>1, <2>2
<1> QED
  BY <1>1, <1>2, <1>3, <1>4, <1>5

-----------------------------------------------------------------------------
(* Elements.                                                               *)

\* A sequence has no elements exactly when it is empty.
LEMMA ElemsEmpty ==
    ASSUME NEW S, NEW s \in Seq(S)
    PROVE  /\ Elems(s) \subseteq S
           /\ Elems(s) = {} <=> s = << >>
<1>1. Elems(s) \subseteq S
  BY DEF Elems
<1>2. s = << >> => Elems(s) = {}
  BY DEF Elems
<1>3. s # << >> => s[1] \in Elems(s)
  BY DEF Elems
<1> QED
  BY <1>1, <1>2, <1>3

\* A sequence of length 0 is the empty one.
LEMMA LenZero ==
    ASSUME NEW S, NEW s \in Seq(S)
    PROVE  Len(s) = 0 <=> s = << >>
  OBVIOUS

\* A push adds its item.
LEMMA ElemsAppend ==
    ASSUME NEW S, NEW s \in Seq(S), NEW x \in S
    PROVE  /\ Append(s, x) \in Seq(S) /\ Append(s, x) # << >>
           /\ Elems(Append(s, x)) = Elems(s) \cup {x}
           /\ Distinct(s) /\ x \notin Elems(s) => Distinct(Append(s, x))
<1> DEFINE r == Append(s, x)
<1>1. /\ r \in Seq(S) /\ Len(r) = Len(s) + 1 /\ Len(s) \in Nat
      /\ \A j \in 1..Len(s) : r[j] = s[j] /\ j \in 1..Len(r)
      /\ r[Len(s) + 1] = x /\ Len(s) + 1 \in 1..Len(r)
      /\ \A j \in 1..Len(r) : j \in 1..Len(s) \/ j = Len(s) + 1
  OBVIOUS
<1> HIDE DEF r
<1>2. r # << >>
  BY <1>1
<1>3. Elems(r) = Elems(s) \cup {x}
  BY <1>1 DEF Elems
<1>4. Distinct(s) /\ x \notin Elems(s) => Distinct(r)
  BY <1>1 DEF Elems, Distinct
<1> QED
  BY <1>1, <1>2, <1>3, <1>4 DEF r

\* A pop takes the head, and the rest keeps its order.
LEMMA ElemsTail ==
    ASSUME NEW S, NEW s \in Seq(S), s # << >>
    PROVE  /\ Tail(s) \in Seq(S) /\ Head(s) \in S
           /\ Len(s) \in Nat /\ Len(Tail(s)) = Len(s) - 1
           /\ \A j \in 1..Len(Tail(s)) : Tail(s)[j] = s[j + 1] /\ j + 1 \in 1..Len(s)
           /\ Head(s) = s[1] /\ 1 \in 1..Len(s)
           /\ Elems(s) = {Head(s)} \cup Elems(Tail(s))
           /\ Distinct(s) => /\ Distinct(Tail(s))
                             /\ Elems(Tail(s)) = Elems(s) \ {Head(s)}
<1> DEFINE r == Tail(s)
           h == Head(s)
<1>1. /\ r \in Seq(S) /\ h \in S /\ Len(s) \in Nat /\ Len(r) = Len(s) - 1
      /\ \A j \in 1..Len(r) : r[j] = s[j + 1] /\ j + 1 \in 1..Len(s) /\ j + 1 # 1
      /\ h = s[1] /\ 1 \in 1..Len(s)
      /\ \A j \in 1..Len(s) : j = 1 \/ (j - 1 \in 1..Len(r) /\ (j - 1) + 1 = j)
      /\ \A j, k \in 1..Len(r) : j + 1 = k + 1 => j = k
  OBVIOUS
<1> HIDE DEF r, h
<1>2. Elems(s) = {h} \cup Elems(r)
  <2>1. \A j \in 1..Len(s) : s[j] = h \/ s[j] \in Elems(r)
    <3> TAKE j \in 1..Len(s)
    <3>1. CASE j = 1
      BY <1>1, <3>1
    <3>2. CASE j # 1
      <4>1. j - 1 \in 1..Len(r) /\ r[j - 1] = s[j]
        BY <1>1, <3>2
      <4> QED
        BY <4>1 DEF Elems
    <3> QED
      BY <3>1, <3>2
  <2>2. \A j \in 1..Len(r) : r[j] \in Elems(s)
    BY <1>1 DEF Elems
  <2>3. h \in Elems(s)
    BY <1>1 DEF Elems
  <2> QED
    BY <2>1, <2>2, <2>3 DEF Elems
<1>3. ASSUME Distinct(s)
      PROVE  Distinct(r) /\ h \notin Elems(r)
  <2>1. \A j \in 1..Len(r) : r[j] # h
    BY <1>1, <1>3 DEF Distinct
  <2>2. \A j, k \in 1..Len(r) : r[j] = r[k] => j + 1 = k + 1
    BY <1>1, <1>3 DEF Distinct
  <2>3. Distinct(r)
    BY <1>1, <2>2 DEF Distinct
  <2> QED
    BY <2>1, <2>3 DEF Elems
<1> QED
  BY <1>1, <1>2, <1>3 DEF r, h

\* A removal takes the item out, wherever it stands, and keeps the rest.
LEMMA WithoutElems ==
    ASSUME NEW S, NEW s \in Seq(S), NEW i
    PROVE  /\ Without(s, i) \in Seq(S)
           /\ Elems(Without(s, i)) \subseteq Elems(s)
           /\ Elems(s) \subseteq Elems(Without(s, i)) \cup {i}
           /\ i \notin Elems(s) => Without(s, i) = s
           /\ Distinct(s) => /\ Distinct(Without(s, i))
                             /\ Elems(Without(s, i)) = Elems(s) \ {i}
<1> DEFINE at == {k \in 1..Len(s) : s[k] = i}
<1>1. CASE at = {}
  <2>1. Without(s, i) = s
    BY <1>1 DEF Without
  <2>2. i \notin Elems(s)
    BY <1>1 DEF Elems
  <2> QED
    BY <2>1, <2>2
<1>2. CASE at # {}
  <2>1. PICK p \in at : p = CHOOSE k \in at : TRUE
    BY <1>2
  <2> DEFINE r == RemoveAt(s, p)
  <2>2. Without(s, i) = r
    BY <1>2, <2>1 DEF Without
  <2>3. p \in 1..Len(s) /\ s[p] = i
    OBVIOUS
  <2>4. /\ r \in Seq(S) /\ Len(r) = Len(s) - 1 /\ Len(s) \in Nat
        /\ \A j \in 1..(Len(s) - 1) : r[j] = IF j < p THEN s[j] ELSE s[j + 1]
    BY <2>3, RemoveAtType
  <2> HIDE DEF r, at
  <2>5. ASSUME NEW j \in 1..Len(r)
        PROVE  /\ j < p => j \in 1..Len(s) /\ r[j] = s[j]
               /\ ~(j < p) => j + 1 \in 1..Len(s) /\ r[j] = s[j + 1]
    <3>1. j \in 1..(Len(s) - 1)
      BY <2>4
    <3>2. j \in 1..Len(s) /\ j + 1 \in 1..Len(s)
      BY <2>4, <3>1
    <3> QED
      BY <2>4, <3>1, <3>2
  <2>6. Elems(r) \subseteq Elems(s)
    <3>1. \A j \in 1..Len(r) : r[j] \in Elems(s)
      <4> TAKE j \in 1..Len(r)
      <4>1. CASE j < p
        BY <2>5, <4>1 DEF Elems
      <4>2. CASE ~(j < p)
        <5>1. j + 1 \in 1..Len(s) /\ r[j] = s[j + 1]
          BY <2>5, <4>2
        <5> QED
          BY <5>1 DEF Elems
      <4> QED
        BY <4>1, <4>2
    <3> QED
      BY <3>1 DEF Elems
  <2>7. ASSUME NEW j \in 1..Len(s), j # p
        PROVE  s[j] \in Elems(r)
    <3>1. CASE j < p
      <4>1. j \in 1..Len(r) /\ r[j] = s[j]
        BY <2>3, <2>4, <3>1
      <4> QED
        BY <4>1 DEF Elems
    <3>2. CASE ~(j < p)
      <4>1. j - 1 \in 1..Len(r) /\ r[j - 1] = s[j]
        BY <2>3, <2>4, <2>7, <3>2
      <4> QED
        BY <4>1 DEF Elems
    <3> QED
      BY <3>1, <3>2
  <2>8. Elems(s) \subseteq Elems(r) \cup {i}
    BY <2>3, <2>7 DEF Elems
  <2>9. i \in Elems(s)
    BY <2>3 DEF Elems
  <2>10. ASSUME Distinct(s)
         PROVE  Distinct(r) /\ i \notin Elems(r)
    <3>1. \A j, k \in 1..Len(r) : r[j] = r[k] => j = k
      BY <2>3, <2>4, <2>5, <2>10 DEF Distinct
    <3>2. \A j \in 1..Len(r) : r[j] # i
      BY <2>3, <2>4, <2>5, <2>10 DEF Distinct
    <3> QED
      BY <3>1, <3>2 DEF Distinct, Elems
  <2> QED
    BY <2>2, <2>4, <2>6, <2>8, <2>9, <2>10
<1> QED
  BY <1>1, <1>2

\* Two queues in a row hold no item twice exactly when neither does and they
\* share none.
LEMMA DistinctConcat ==
    ASSUME NEW S, NEW s \in Seq(S), NEW t \in Seq(S)
    PROVE  /\ Distinct(s \o t) <=> Distinct(s) /\ Distinct(t) /\ Elems(s) \cap Elems(t) = {}
           /\ Elems(s \o t) = Elems(s) \cup Elems(t)
<1> DEFINE r == s \o t
<1>1. PICK a \in Nat, b \in Nat : a = Len(s) /\ b = Len(t)
  OBVIOUS
<1>2. /\ r \in Seq(S) /\ Len(r) = a + b
      /\ \A j \in 1..a : r[j] = s[j] /\ j \in 1..(a + b)
      /\ \A k \in 1..b : r[a + k] = t[k] /\ a + k \in 1..(a + b)
      /\ \A j \in 1..(a + b) : j \in 1..a \/ \E k \in 1..b : j = a + k
  BY <1>1, ConcatPositions
<1> HIDE DEF r
<1>3. Elems(r) = Elems(s) \cup Elems(t)
  <2>1. \A j \in 1..(a + b) : r[j] \in Elems(s) \cup Elems(t)
    <3> TAKE j \in 1..(a + b)
    <3>1. CASE j \in 1..a
      BY <1>1, <1>2, <3>1 DEF Elems
    <3>2. CASE j \notin 1..a
      <4>1. PICK k \in 1..b : j = a + k
        BY <1>2, <3>2
      <4>2. r[j] = t[k]
        BY <1>2, <4>1
      <4> QED
        BY <1>1, <4>2 DEF Elems
    <3> QED
      BY <3>1, <3>2
  <2>2. \A j \in 1..a : s[j] \in Elems(r)
    BY <1>2 DEF Elems
  <2>3. \A k \in 1..b : t[k] \in Elems(r)
    <3> TAKE k \in 1..b
    <3>1. a + k \in 1..Len(r) /\ r[a + k] = t[k]
      BY <1>2
    <3> QED
      BY <3>1 DEF Elems
  <2>4. Elems(r) \subseteq Elems(s) \cup Elems(t)
    <3>1. \A x \in Elems(r) : \E j \in 1..(a + b) : x = r[j]
      BY <1>2 DEF Elems
    <3> QED
      BY <2>1, <3>1
  <2>5. Elems(s) \subseteq Elems(r) /\ Elems(t) \subseteq Elems(r)
    <3>1. \A x \in Elems(s) : \E j \in 1..a : x = s[j]
      BY <1>1 DEF Elems
    <3>2. \A x \in Elems(t) : \E k \in 1..b : x = t[k]
      BY <1>1 DEF Elems
    <3> QED
      BY <2>2, <2>3, <3>1, <3>2
  <2> QED
    BY <2>4, <2>5
<1>4. \A j \in 1..a, k, l \in 1..b : j # a + k /\ (a + k = a + l => k = l)
  OBVIOUS
<1>5. ASSUME Distinct(r)
      PROVE  Distinct(s) /\ Distinct(t) /\ Elems(s) \cap Elems(t) = {}
  <2>1. Distinct(s)
    BY <1>1, <1>2, <1>5 DEF Distinct
  <2>2. Distinct(t)
    <3> SUFFICES ASSUME NEW j \in 1..b, NEW k \in 1..b, t[j] = t[k]
                 PROVE  j = k
      BY <1>1 DEF Distinct
    <3>1. r[a + j] = r[a + k]
      BY <1>2
    <3>2. a + j = a + k
      BY <1>2, <1>5, <3>1 DEF Distinct
    <3> QED
      BY <3>2
  <2>3. \A j \in 1..a, k \in 1..b : s[j] # t[k]
    <3> TAKE j \in 1..a, k \in 1..b
    <3>1. r[j] = s[j] /\ r[a + k] = t[k] /\ j \in 1..Len(r) /\ a + k \in 1..Len(r)
      BY <1>2
    <3>2. j # a + k
      OBVIOUS
    <3> QED
      BY <1>5, <3>1, <3>2 DEF Distinct
  <2> QED
    BY <1>1, <2>1, <2>2, <2>3 DEF Elems
<1>6. ASSUME Distinct(s), Distinct(t), Elems(s) \cap Elems(t) = {}
      PROVE  Distinct(r)
  <2>1. \A j \in 1..a, k \in 1..b : s[j] # t[k]
    BY <1>1, <1>6 DEF Elems
  <2> SUFFICES ASSUME NEW j \in 1..(a + b), NEW k \in 1..(a + b), r[j] = r[k]
               PROVE  j = k
    BY <1>2 DEF Distinct
  <2>2. CASE j \in 1..a /\ k \in 1..a
    BY <1>1, <1>2, <1>6, <2>2 DEF Distinct
  <2>3. CASE j \in 1..a /\ k \notin 1..a
    <3>1. PICK l \in 1..b : k = a + l
      BY <1>2, <2>3
    <3>2. r[j] = s[j] /\ r[k] = t[l]
      BY <1>2, <2>3, <3>1
    <3> QED
      BY <2>1, <2>3, <3>2
  <2>4. CASE j \notin 1..a /\ k \in 1..a
    <3>1. PICK l \in 1..b : j = a + l
      BY <1>2, <2>4
    <3>2. r[k] = s[k] /\ r[j] = t[l]
      BY <1>2, <2>4, <3>1
    <3> QED
      BY <2>1, <2>4, <3>2
  <2>5. CASE j \notin 1..a /\ k \notin 1..a
    BY <1>1, <1>2, <1>6, <2>5 DEF Distinct
  <2> QED
    BY <2>2, <2>3, <2>4, <2>5
<1> QED
  BY <1>3, <1>5, <1>6 DEF r
=============================================================================
