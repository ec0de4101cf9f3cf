------------------------- MODULE FloorControlProofs -------------------------
(***************************************************************************)
(* TLAPS proofs about FloorControl, for every set of users and priorities, *)
(* every queue size, every timer setting and every clock lag.              *)
(***************************************************************************)
EXTENDS FloorControl, SequenceTheorems, WellFoundedInduction, TLAPS

-----------------------------------------------------------------------------
(* Lemmas on the queue operators *)

\* Every non-empty set of naturals has a least element, which Min returns.
LEMMA LeastNat ==
  ASSUME NEW T, T \subseteq Nat, T # {}
  PROVE  /\ \E m \in T : \A n \in T : m <= n
         /\ Min(T) \in T
         /\ \A n \in T : Min(T) <= n
<1>1. PICK m \in T : \A n \in T : ~(<<n, m>> \in OpToRel(<, Nat))
  <2>1. \E m \in T : \A n \in T : ~(<<n, m>> \in OpToRel(<, Nat))
    BY NatLessThanWellFounded, WFMin, Zenon
  <2> QED
    BY <2>1
<1>2. \A n \in T : m <= n
  <2> SUFFICES ASSUME NEW n \in T PROVE m <= n
    OBVIOUS
  <2>1. ~(n < m)
    BY <1>1 DEF OpToRel
  <2> QED
    BY <2>1
<1>3. \E x \in T : \A y \in T : x <= y
  BY <1>2
<1> QED
  BY <1>3, Zenon DEF Min

\* What RemoveAt does to a sequence.
LEMMA RemoveAtProps ==
  ASSUME NEW S, NEW q \in Seq(S), NEW k \in 1..Len(q)
  PROVE  /\ RemoveAt(q, k) \in Seq(S)
         /\ Len(RemoveAt(q, k)) = Len(q) - 1
         /\ \A i \in 1..(Len(q) - 1) : RemoveAt(q, k)[i] = IF i < k THEN q[i] ELSE q[i + 1]
<1> DEFINE a == SubSeq(q, 1, k - 1)
           b == SubSeq(q, k + 1, Len(q))
           c == a \o b
<1>0. Len(q) \in Nat /\ \A i \in 1..Len(q) : q[i] \in S
  OBVIOUS
<1>1. /\ a \in Seq(S) /\ Len(a) = k - 1
      /\ \A i \in 1..(k - 1) : a[i] = q[i]
  BY <1>0, SubSeqProperties
<1>2. /\ b \in Seq(S) /\ Len(b) = Len(q) - k
      /\ \A i \in 1..(Len(q) - k) : b[i] = q[k + i]
  BY <1>0, SubSeqProperties
<1>3. /\ c \in Seq(S)
      /\ Len(c) = Len(a) + Len(b)
      /\ \A i \in 1..(Len(a) + Len(b)) : c[i] = IF i <= Len(a) THEN a[i] ELSE b[i - Len(a)]
  BY <1>1, <1>2, ConcatProperties
<1>4. RemoveAt(q, k) = c
  BY DEF RemoveAt
<1> HIDE DEF a, b, c
<1>5. ASSUME NEW i \in 1..(Len(q) - 1)
      PROVE  c[i] = IF i < k THEN q[i] ELSE q[i + 1]
  <2>0. c[i] = IF i <= k - 1 THEN a[i] ELSE b[i - (k - 1)]
    <3>1. Len(a) = k - 1 /\ i \in 1..(Len(a) + Len(b))
      BY <1>0, <1>1, <1>2
    <3> QED
      BY <1>3, <3>1
  <2>1. CASE i < k
    BY <1>1, <2>0, <2>1
  <2>2. CASE ~(i < k)
    <3>1. c[i] = b[i - (k - 1)]
      BY <2>0, <2>2
    <3>2. i - (k - 1) \in 1..(Len(q) - k) /\ k + (i - (k - 1)) = i + 1
      BY <1>0, <2>2
    <3> QED
      BY <1>2, <2>2, <3>1, <3>2
  <2> QED
    BY <2>1, <2>2
<1>6. Len(c) = Len(q) - 1
  BY <1>0, <1>1, <1>2, <1>3
<1> QED
  BY <1>3, <1>4, <1>5, <1>6

\* What InsertAt does to a sequence.
LEMMA InsertAtProps ==
  ASSUME NEW q \in Seq(QueueEntry), NEW k \in 1..(Len(q) + 1), NEW e \in QueueEntry
  PROVE  /\ InsertAt(q, k, e) \in Seq(QueueEntry)
         /\ Len(InsertAt(q, k, e)) = Len(q) + 1
         /\ \A i \in 1..(Len(q) + 1) :
              InsertAt(q, k, e)[i] = IF i < k THEN q[i] ELSE IF i = k THEN e ELSE q[i - 1]
<1> DEFINE a == SubSeq(q, 1, k - 1)
           b == SubSeq(q, k, Len(q))
           m == <<e>>
           c == a \o m
           d == c \o b
<1>0. Len(q) \in Nat /\ \A i \in 1..Len(q) : q[i] \in QueueEntry
  OBVIOUS
<1>1. /\ a \in Seq(QueueEntry) /\ Len(a) = k - 1
      /\ \A i \in 1..(k - 1) : a[i] = q[i]
  BY <1>0, SubSeqProperties
<1>2. /\ b \in Seq(QueueEntry) /\ Len(b) = Len(q) - k + 1
      /\ \A i \in 1..(Len(q) - k + 1) : b[i] = q[k + i - 1]
  BY <1>0, SubSeqProperties
<1>3. m \in Seq(QueueEntry) /\ Len(m) = 1 /\ m[1] = e
  OBVIOUS
<1>4. InsertAt(q, k, e) = d
  BY DEF InsertAt
<1> HIDE DEF a, b, m
<1>5. /\ c \in Seq(QueueEntry)
      /\ Len(c) = Len(a) + Len(m)
      /\ \A i \in 1..(Len(a) + Len(m)) : c[i] = IF i <= Len(a) THEN a[i] ELSE m[i - Len(a)]
  BY <1>1, <1>3, ConcatProperties
<1> HIDE DEF c
<1>6. /\ d \in Seq(QueueEntry)
      /\ Len(d) = Len(c) + Len(b)
      /\ \A i \in 1..(Len(c) + Len(b)) : d[i] = IF i <= Len(c) THEN c[i] ELSE b[i - Len(c)]
  <2>1. b \in Seq(QueueEntry) /\ c \in Seq(QueueEntry)
    BY <1>2, <1>5
  <2> QED
    BY <2>1, ConcatProperties
<1> HIDE DEF d
<1>7. Len(c) = k /\ Len(d) = Len(q) + 1
  BY <1>0, <1>1, <1>2, <1>3, <1>5, <1>6
<1>8. ASSUME NEW i \in 1..(Len(q) + 1)
      PROVE  d[i] = IF i < k THEN q[i] ELSE IF i = k THEN e ELSE q[i - 1]
  <2>1. CASE i < k
    BY <1>0, <1>1, <1>3, <1>5, <1>6, <1>7, <2>1
  <2>2. CASE i = k
    <3>1. k - Len(a) = 1 /\ k \in 1..(Len(a) + Len(m)) /\ ~(k <= Len(a))
      BY <1>0, <1>1, <1>3
    <3>2. c[k] = e
      BY <1>3, <1>5, <3>1
    <3>3. k \in 1..(Len(c) + Len(b)) /\ k <= Len(c)
      BY <1>0, <1>2, <1>7
    <3>4. d[k] = c[k]
      BY <1>6, <3>3
    <3> QED
      BY <2>2, <3>2, <3>4
  <2>3. CASE i > k
    <3>1. d[i] = b[i - k]
      BY <1>0, <1>2, <1>6, <1>7, <2>3
    <3>2. i - k \in 1..(Len(q) - k + 1) /\ k + (i - k) - 1 = i - 1
      BY <1>0, <2>3
    <3> QED
      BY <1>2, <2>3, <3>1, <3>2
  <2> QED
    BY <2>1, <2>2, <2>3
<1> QED
  BY <1>4, <1>6, <1>7, <1>8

\* Retain leaves the queue alone or takes out one entry of u.
LEMMA RetainProps ==
  ASSUME NEW S, NEW q \in Seq(S), NEW u
  PROVE  \/ Retain(q, u) = q /\ ~IsQueued(q, u)
         \/ \E k \in 1..Len(q) : q[k].user_id = u /\ Retain(q, u) = RemoveAt(q, k)
<1> DEFINE T == {i \in 1..Len(q) : q[i].user_id = u}
<1>1. CASE ~IsQueued(q, u)
  BY <1>1 DEF Retain, RemoveFirstMatch, IsQueued
<1>2. CASE IsQueued(q, u)
  <2>1. T \subseteq Nat /\ T # {}
    BY <1>2 DEF IsQueued
  <2>2. Min(T) \in T
    BY <2>1, LeastNat
  <2>3. Retain(q, u) = RemoveAt(q, Min(T))
    BY <1>2, <2>1 DEF Retain, RemoveFirstMatch, SelectInSeq, IsQueued
  <2> QED
    BY <2>2, <2>3
<1> QED
  BY <1>1, <1>2

\* InsertPos exists: it is the place of the first entry the new one comes before.
LEMMA InsertPosProps ==
  ASSUME NEW S, NEW q \in Seq(S), NEW e
  PROVE  /\ InsertPos(q, e) \in 1..(Len(q) + 1)
         /\ InsertPos(q, e) <= Len(q) => Before(e, q[InsertPos(q, e)])
         /\ \A i \in 1..(InsertPos(q, e) - 1) : ~Before(e, q[i])
<1> DEFINE T == {i \in 1..(Len(q) + 1) : i <= Len(q) => Before(e, q[i])}
<1>1. T \subseteq Nat /\ Len(q) + 1 \in T
  OBVIOUS
<1>2. PICK k \in T : \A i \in T : k <= i
  BY <1>1, LeastNat
<1>3. \A i \in 1..(k - 1) : ~Before(e, q[i])
  BY <1>2
<1>4. \E x \in 1..(Len(q) + 1) : /\ x <= Len(q) => Before(e, q[x])
                                 /\ \A i \in 1..(x - 1) : ~Before(e, q[i])
  BY <1>2, <1>3
<1> QED
  BY <1>4, Zenon DEF InsertPos

-----------------------------------------------------------------------------
(* What the queue operators preserve *)

GoodQueue(q) ==
  /\ q \in Seq(QueueEntry)
  /\ Len(q) <= MaxQueue
  /\ InOrder(q)
  /\ OneEach(q)

\* Entries are compared by their priorities and ages, which are naturals.
LEMMA EntryFields ==
  ASSUME NEW e \in QueueEntry
  PROVE  /\ e.user_id \in Users
         /\ e.priority \in Priorities
         /\ e.priority \in Nat
         /\ e.age \in 0..QueueCap
         /\ e.age \in Nat
<1>1. e.user_id \in Users /\ e.priority \in Priorities /\ e.age \in 0..QueueCap
  BY DEF QueueEntry
<1>2. e.priority \in Nat
  BY <1>1, FloorAssumption
<1>3. e.age \in Nat
  BY <1>1, FloorAssumption DEF QueueCap
<1> QED
  BY <1>1, <1>2, <1>3

\* "Not after" is transitive: the comparator of sort_by is a weak order.
LEMMA BeforeWeakOrder ==
  ASSUME NEW e \in QueueEntry, NEW f \in QueueEntry, NEW g \in QueueEntry
  PROVE  /\ Before(e, f) => ~Before(f, e)
         /\ ~Before(f, e) /\ ~Before(g, f) => ~Before(g, e)
BY EntryFields DEF Before

\* Taking any one entry out keeps a good queue good.
LEMMA RemoveAtGood ==
  ASSUME NEW q, GoodQueue(q), NEW k \in 1..Len(q)
  PROVE  GoodQueue(RemoveAt(q, k))
<1> DEFINE r == RemoveAt(q, k)
<1>0. Len(q) \in Nat /\ MaxQueue \in Nat /\ q \in Seq(QueueEntry)
  BY FloorAssumption DEF GoodQueue
<1>1. /\ r \in Seq(QueueEntry) /\ Len(r) = Len(q) - 1
      /\ \A i \in 1..(Len(q) - 1) : r[i] = IF i < k THEN q[i] ELSE q[i + 1]
  BY <1>0, RemoveAtProps
<1> HIDE DEF r
<1>2. InOrder(r)
  <2>1. ASSUME NEW i \in 1..Len(r), NEW j \in 1..Len(r), i < j
        PROVE  ~Before(r[j], r[i])
    <3> DEFINE x == IF i < k THEN i ELSE i + 1
               y == IF j < k THEN j ELSE j + 1
    <3>1. x \in 1..Len(q) /\ y \in 1..Len(q) /\ x < y
      BY <1>0, <1>1, <2>1
    <3>2. r[i] = q[x] /\ r[j] = q[y]
      BY <1>1
    <3> HIDE DEF x, y
    <3> QED
      BY <3>1, <3>2 DEF GoodQueue, InOrder
  <2> QED
    BY <2>1 DEF InOrder
<1>3. OneEach(r)
  <2>1. ASSUME NEW i \in 1..Len(r), NEW j \in 1..Len(r), r[i].user_id = r[j].user_id
        PROVE  i = j
    <3> DEFINE x == IF i < k THEN i ELSE i + 1
               y == IF j < k THEN j ELSE j + 1
    <3>1. x \in 1..Len(q) /\ y \in 1..Len(q) /\ (x = y => i = j)
      BY <1>0, <1>1
    <3>2. r[i] = q[x] /\ r[j] = q[y]
      BY <1>1
    <3> HIDE DEF x, y
    <3> QED
      BY <2>1, <3>1, <3>2 DEF GoodQueue, OneEach
  <2> QED
    BY <2>1 DEF OneEach
<1>4. Len(r) <= MaxQueue
  BY <1>0, <1>1 DEF GoodQueue
<1> QED
  BY <1>1, <1>2, <1>3, <1>4 DEF GoodQueue, r

\* retain() keeps a good queue good.
LEMMA RetainGood ==
  ASSUME NEW q, GoodQueue(q), NEW u
  PROVE  GoodQueue(Retain(q, u)) /\ (q = <<>> => Retain(q, u) = <<>>)
<1>1. q \in Seq(QueueEntry)
  BY DEF GoodQueue
<1>2. \/ Retain(q, u) = q
      \/ \E k \in 1..Len(q) : Retain(q, u) = RemoveAt(q, k)
  BY <1>1, RetainProps
<1>3. q = <<>> => Retain(q, u) = q
  BY <1>2
<1> QED
  BY <1>2, <1>3, RemoveAtGood

\* queue.remove(0) keeps a good queue good.
LEMMA TailGood ==
  ASSUME NEW q, GoodQueue(q), q # <<>>
  PROVE  /\ GoodQueue(Tail(q))
         /\ Head(q) = q[1] /\ 1 \in 1..Len(q) /\ Head(q) \in QueueEntry
<1>0. Len(q) \in Nat /\ MaxQueue \in Nat /\ q \in Seq(QueueEntry)
  BY FloorAssumption DEF GoodQueue
<1>1. /\ Tail(q) \in Seq(QueueEntry) /\ Len(Tail(q)) = Len(q) - 1
      /\ \A i \in 1..Len(Tail(q)) : Tail(q)[i] = q[i + 1]
      /\ Head(q) \in QueueEntry
  BY <1>0, HeadTailProperties DEF GoodQueue
<1> DEFINE r == Tail(q)
<1>2. Head(q) = q[1] /\ 1 \in 1..Len(q)
  BY <1>0
<1> HIDE DEF r
<1>3. /\ r \in Seq(QueueEntry) /\ Len(r) = Len(q) - 1
      /\ \A i \in 1..Len(r) : r[i] = q[i + 1]
  BY <1>1 DEF r
<1>4. InOrder(r)
  BY <1>0, <1>3 DEF GoodQueue, InOrder
<1>5. OneEach(r)
  <2> SUFFICES ASSUME NEW i \in 1..Len(r), NEW j \in 1..Len(r), r[i].user_id = r[j].user_id
               PROVE  i = j
    BY DEF OneEach
  <2>1. i + 1 \in 1..Len(q) /\ j + 1 \in 1..Len(q) /\ r[i] = q[i + 1] /\ r[j] = q[j + 1]
    BY <1>0, <1>3
  <2>2. i + 1 = j + 1
    BY <2>1 DEF GoodQueue, OneEach
  <2> QED
    BY <2>2
<1>6. Len(r) <= MaxQueue
  BY <1>0, <1>3 DEF GoodQueue
<1> QED
  BY <1>1, <1>2, <1>3, <1>4, <1>5, <1>6 DEF GoodQueue, r

\* push and sort_by keep a good queue good, if there is room and the user is new.
LEMMA PushGood ==
  ASSUME NEW q, GoodQueue(q), NEW e \in QueueEntry,
         ~IsQueued(q, e.user_id), ~IsFull(q)
  PROVE  GoodQueue(PushSorted(q, e)) /\ PushSorted(q, e) # <<>>
<1> DEFINE k == InsertPos(q, e)
           r == PushSorted(q, e)
<1>0. Len(q) \in Nat /\ MaxQueue \in Nat /\ q \in Seq(QueueEntry)
  BY FloorAssumption DEF GoodQueue
<1>1. /\ k \in 1..(Len(q) + 1)
      /\ k <= Len(q) => Before(e, q[k])
      /\ \A i \in 1..(k - 1) : ~Before(e, q[i])
  BY <1>0, InsertPosProps
<1> HIDE DEF k
<1>2. /\ InsertAt(q, k, e) \in Seq(QueueEntry)
      /\ Len(InsertAt(q, k, e)) = Len(q) + 1
      /\ \A i \in 1..(Len(q) + 1) :
           InsertAt(q, k, e)[i] = IF i < k THEN q[i] ELSE IF i = k THEN e ELSE q[i - 1]
  <2>1. q \in Seq(QueueEntry) /\ k \in 1..(Len(q) + 1) /\ e \in QueueEntry
    BY <1>0, <1>1
  <2>2. InsertAt(q, k, e) \in Seq(QueueEntry)
    BY <2>1, InsertAtProps
  <2>3. Len(InsertAt(q, k, e)) = Len(q) + 1
    BY <2>1, InsertAtProps
  <2>4. ASSUME NEW i \in 1..(Len(q) + 1)
        PROVE  InsertAt(q, k, e)[i] = IF i < k THEN q[i] ELSE IF i = k THEN e ELSE q[i - 1]
    BY <2>1, InsertAtProps
  <2> QED
    BY <2>2, <2>3, <2>4
<1>3. r = InsertAt(q, k, e)
  BY DEF PushSorted, k
<1> HIDE DEF r
<1>4. /\ r \in Seq(QueueEntry) /\ Len(r) = Len(q) + 1
      /\ \A i \in 1..(Len(q) + 1) : r[i] = IF i < k THEN q[i] ELSE IF i = k THEN e ELSE q[i - 1]
  BY <1>2, <1>3
<1>5. \A i \in 1..Len(q) : q[i] \in QueueEntry
  BY <1>0
<1>6. \A i \in 1..Len(q) : k <= i => ~Before(q[i], e)
  <2> SUFFICES ASSUME NEW i \in 1..Len(q), k <= i PROVE ~Before(q[i], e)
    OBVIOUS
  <2>1. k \in 1..Len(q) /\ Before(e, q[k])
    BY <1>0, <1>1
  <2>2. i = k \/ ~Before(q[i], q[k])
    BY <1>0, <2>1 DEF GoodQueue, InOrder
  <2>3. ~Before(q[k], e)
    BY <1>5, <2>1, BeforeWeakOrder
  <2> QED
    BY <1>5, <2>1, <2>2, <2>3, BeforeWeakOrder
<1>7. InOrder(r)
  <2> SUFFICES ASSUME NEW i \in 1..Len(r), NEW j \in 1..Len(r), i < j
               PROVE  ~Before(r[j], r[i])
    BY DEF InOrder
  <2>1. CASE j < k
    BY <1>0, <1>1, <1>4, <2>1 DEF GoodQueue, InOrder
  <2>2. CASE j = k
    <3>1. r[j] = e /\ r[i] = q[i] /\ i \in 1..(k - 1)
      BY <1>0, <1>1, <1>4, <2>2
    <3> QED
      BY <1>1, <3>1
  <2>3. CASE j > k /\ i = k
    <3>1. r[j] = q[j - 1] /\ r[i] = e /\ j - 1 \in 1..Len(q) /\ k <= j - 1
      BY <1>0, <1>1, <1>4, <2>3
    <3> QED
      BY <1>6, <3>1
  <2>4. CASE j > k /\ i < k
    <3>1. r[j] = q[j - 1] /\ r[i] = q[i] /\ j - 1 \in 1..Len(q) /\ i \in 1..Len(q) /\ i < j - 1
      BY <1>0, <1>1, <1>4, <2>4
    <3> QED
      BY <3>1 DEF GoodQueue, InOrder
  <2>5. CASE j > k /\ i > k
    <3>1. r[j] = q[j - 1] /\ r[i] = q[i - 1] /\ j - 1 \in 1..Len(q) /\ i - 1 \in 1..Len(q) /\ i - 1 < j - 1
      BY <1>0, <1>1, <1>4, <2>5
    <3> QED
      BY <3>1 DEF GoodQueue, InOrder
  <2> QED
    BY <1>1, <1>4, <2>1, <2>2, <2>3, <2>4, <2>5
<1>8. OneEach(r)
  <2>1. \A i \in 1..Len(q) : q[i].user_id # e.user_id
    BY DEF IsQueued
  <2> DEFINE src(i) == IF i < k THEN i ELSE i - 1
  <2>2. \A i \in 1..Len(r) :
          i # k => src(i) \in 1..Len(q) /\ r[i] = q[src(i)]
    BY <1>0, <1>1, <1>4
  <2>3. \A i, j \in 1..Len(r) : i # k /\ j # k /\ src(i) = src(j) => i = j
    BY <1>0, <1>1, <1>4
  <2>4. k \in 1..Len(r) /\ r[k] = e
    BY <1>0, <1>1, <1>4
  <2> HIDE DEF src
  <2> SUFFICES ASSUME NEW i \in 1..Len(r), NEW j \in 1..Len(r), r[i].user_id = r[j].user_id
               PROVE  i = j
    BY DEF OneEach
  <2>5. CASE i # k /\ j # k
    <3>1. src(i) \in 1..Len(q) /\ src(j) \in 1..Len(q) /\ q[src(i)].user_id = q[src(j)].user_id
      BY <2>2, <2>5
    <3>2. src(i) = src(j)
      BY <3>1 DEF GoodQueue, OneEach
    <3> QED
      BY <2>3, <2>5, <3>2
  <2>6. CASE i = k \/ j = k
    BY <2>1, <2>2, <2>4, <2>6
  <2> QED
    BY <2>5, <2>6
<1>9. Len(r) <= MaxQueue /\ r # <<>>
  BY <1>0, <1>4 DEF IsFull
<1> QED
  BY <1>4, <1>7, <1>8, <1>9 DEF GoodQueue, r

\* One tick ages a good queue and keeps it good: the ages keep their order.
LEMMA TickGood ==
  ASSUME NEW q, GoodQueue(q)
  PROVE  GoodQueue([i \in 1..Len(q) |-> [q[i] EXCEPT !.age = Capped(@, QueueCap)]])
<1> DEFINE r == [i \in 1..Len(q) |-> [q[i] EXCEPT !.age = Capped(@, QueueCap)]]
<1>0. Len(q) \in Nat /\ q \in Seq(QueueEntry) /\ MaxQueue \in Nat /\ QueueCap \in Nat
  BY FloorAssumption DEF GoodQueue, QueueCap
<1>1. ASSUME NEW i \in 1..Len(q)
      PROVE  /\ q[i] \in QueueEntry
             /\ r[i] \in QueueEntry
             /\ r[i].user_id = q[i].user_id
             /\ r[i].priority = q[i].priority
             /\ r[i].age = Capped(q[i].age, QueueCap)
  <2>1. q[i] \in QueueEntry
    BY <1>0
  <2>2. Capped(q[i].age, QueueCap) \in 0..QueueCap
    BY <1>0, <2>1, EntryFields DEF Capped
  <2> DEFINE c == Capped(q[i].age, QueueCap)
  <2>3. r[i] = [q[i] EXCEPT !.age = c]
    OBVIOUS
  <2> HIDE DEF c, r
  <2> QED
    BY <2>1, <2>2, <2>3 DEF QueueEntry, c
<1>2. r \in Seq(QueueEntry) /\ Len(r) = Len(q)
  <2>1. r \in [1..Len(q) -> QueueEntry]
    BY <1>1
  <2> QED
    BY <1>0, <2>1
<1> HIDE DEF r
<1>3. InOrder(r)
  <2> SUFFICES ASSUME NEW i \in 1..Len(q), NEW j \in 1..Len(q), i < j
               PROVE  ~Before(r[j], r[i])
    BY <1>2 DEF InOrder
  <2>1. ~Before(q[j], q[i])
    BY DEF GoodQueue, InOrder
  <2>2. q[i].age \in Nat /\ q[j].age \in Nat /\ q[i].priority \in Nat /\ q[j].priority \in Nat
        /\ q[i].age <= QueueCap /\ q[j].age <= QueueCap
    BY <1>0, <1>1, EntryFields
  <2> QED
    BY <1>0, <1>1, <2>1, <2>2 DEF Before, Capped
<1>4. OneEach(r)
  BY <1>1, <1>2 DEF GoodQueue, OneEach
<1>5. Len(r) <= MaxQueue
  BY <1>2 DEF GoodQueue
<1> QED
  BY <1>2, <1>3, <1>4, <1>5 DEF GoodQueue, r

-----------------------------------------------------------------------------
(* The invariant *)

\* TypeOK and FloorInv, as the steps of the proof use them.
IInv ==
  /\ state \in FloorState
  /\ GoodQueue(queue)
  /\ prev_speaker \in Users \cup {NoOne}
  /\ actions \in Seq(FloorAction)
  /\ NoWaiterOnFreeFloor

\* The inductive invariant is the type invariant with the three floor properties.
LEMMA IInvMeaning == IInv <=> TypeOK /\ FloorInv
BY DEF IInv, TypeOK, FloorInv, GoodQueue, QueueInOrder, OneEntryPerUser

\* A grant puts the floor into a well-typed state with the grantee as speaker.
LEMMA TakenState ==
  ASSUME NEW u \in Users, NEW p \in Priorities, NEW lag \in Lags
  PROVE  /\ Taken(u, p, lag) \in FloorState
         /\ Taken(u, p, lag).speaker = u
         /\ Taken(u, p, lag).priority = p
         /\ Taken(u, p, lag).speaker # NoOne
<1>1. lag \in 0..BurstCap /\ lag \in 0..PingCap
  BY FloorAssumption DEF Lags, BurstCap, PingCap
<1> QED
  BY <1>1, FloorAssumption DEF Taken, FloorState

\* The fields of a well-typed floor state, held or idle.
LEMMA StateFields ==
  ASSUME state \in FloorState
  PROVE  /\ IsTaken <=> state.speaker \in Users
         /\ ~IsTaken <=> state = Idle
         /\ state.speaker \in Users \cup {NoOne}
         /\ state.priority \in Nat
         /\ IsTaken => state \in [speaker: Users, priority: Priorities,
                                  burst_age: 0..BurstCap, ping_age: 0..PingCap]
<1>1. CASE state = Idle
  BY <1>1, FloorAssumption DEF Idle, IsTaken
<1>2. CASE state \in [speaker: Users, priority: Priorities,
                      burst_age: 0..BurstCap, ping_age: 0..PingCap]
  <2>1. state.speaker \in Users /\ state.priority \in Priorities
    BY <1>2
  <2>2. state.priority \in Nat /\ state.speaker # NoOne
    BY <2>1, FloorAssumption
  <2> QED
    BY <1>2, <2>1, <2>2 DEF Idle, IsTaken
<1> QED
  BY <1>1, <1>2 DEF FloorState

\* Results are well-typed actions.
LEMMA ResultType ==
  ASSUME NEW t \in ActionTypes, NEW u \in Users
  PROVE  Result(t, u) \in FloorAction /\ <<Result(t, u)>> \in Seq(FloorAction)
BY DEF Result, FloorAction

\* Giving the floor up and granting it to the head of the queue.
LEMMA VacateInv ==
  ASSUME NEW u \in Users, NEW q, GoodQueue(q), NEW r \in FloorAction, Vacate(u, q, r)
  PROVE  IInv'
<1>1. CASE q = <<>>
  <2>1. state' = Idle /\ queue' = <<>> /\ prev_speaker' = u /\ actions' = <<r>>
    BY <1>1 DEF Vacate
  <2>2. Idle \in FloorState /\ <<r>> \in Seq(FloorAction)
    BY DEF FloorState
  <2> QED
    BY <1>1, <2>1, <2>2 DEF IInv, NoWaiterOnFreeFloor
<1>2. CASE q # <<>>
  <2>1. /\ state' = Taken(Head(q).user_id, Head(q).priority, 0)
        /\ queue' = Tail(q) /\ prev_speaker' = NoOne
        /\ actions' = <<r, Result("Granted", Head(q).user_id)>>
    BY <1>2 DEF Vacate
  <2>2. GoodQueue(Tail(q)) /\ Head(q) \in QueueEntry
    BY <1>2, TailGood
  <2>3. Head(q).user_id \in Users /\ Head(q).priority \in Priorities /\ 0 \in Lags
    BY <2>2, EntryFields, FloorAssumption DEF Lags
  <2>4. state' \in FloorState /\ IsTaken'
    BY <2>1, <2>3, TakenState DEF IsTaken
  <2>5. Result("Granted", Head(q).user_id) \in FloorAction
    BY <2>3, ResultType DEF ActionTypes
  <2>6. actions' \in Seq(FloorAction)
    BY <2>1, <2>5
  <2> QED
    BY <2>1, <2>2, <2>4, <2>6 DEF IInv, NoWaiterOnFreeFloor
<1> QED
  BY <1>1, <1>2

\* One step of the controller: one case per operation.
LEMMA InvStep == IInv /\ [Next]_floorVars => IInv'
<1> SUFFICES ASSUME IInv, [Next]_floorVars PROVE IInv'
  OBVIOUS
<1>0. /\ state \in FloorState /\ GoodQueue(queue)
      /\ prev_speaker \in Users \cup {NoOne} /\ actions \in Seq(FloorAction)
      /\ NoWaiterOnFreeFloor
  BY DEF IInv
<1>f. /\ IsTaken <=> state.speaker \in Users
      /\ IsTaken => state \in [speaker: Users, priority: Priorities,
                               burst_age: 0..BurstCap, ping_age: 0..PingCap]
  BY <1>0, StateFields
<1>1. ASSUME NEW u \in Users, NEW p \in Priorities, NEW lag \in Lags, request(u, p, lag)
      PROVE  IInv'
  <2>0. \A t \in ActionTypes : Result(t, u) \in FloorAction /\ <<Result(t, u)>> \in Seq(FloorAction)
    BY ResultType
  <2>t. Taken(u, p, lag) \in FloorState /\ Taken(u, p, lag).speaker # NoOne
    BY TakenState
  <2>1. CASE RequestIdle(u, p, lag)
    BY <1>0, <2>0, <2>t, <2>1 DEF RequestIdle, IInv, NoWaiterOnFreeFloor, IsTaken, ActionTypes
  <2>2. CASE RequestAgain(u)
    BY <1>0, <2>0, <2>2 DEF RequestAgain, IInv, NoWaiterOnFreeFloor, IsTaken, ActionTypes
  <2>3. CASE RequestPreempt(u, p, lag)
    <3>1. state.speaker \in Users
      BY <1>f, <2>3 DEF RequestPreempt
    <3>2. Result("Revoked", state.speaker) \in FloorAction /\ Result("Granted", u) \in FloorAction
      BY <3>1, ResultType DEF ActionTypes
    <3>3. <<Result("Revoked", state.speaker), Result("Granted", u)>> \in Seq(FloorAction)
      BY <3>2
    <3>4. /\ state' = Taken(u, p, lag) /\ queue' = queue /\ prev_speaker' = state.speaker
          /\ actions' = <<Result("Revoked", state.speaker), Result("Granted", u)>>
      BY <2>3 DEF RequestPreempt
    <3> QED
      BY <1>0, <2>t, <3>1, <3>3, <3>4 DEF IInv, NoWaiterOnFreeFloor, IsTaken
  <2>4. CASE RequestWait(u, p, lag)
    <3>1. /\ state' = state /\ prev_speaker' = prev_speaker /\ IsTaken
          /\ actions' \in {<<Result("Queued", u)>>, <<Result("Denied", u)>>}
      BY <2>4 DEF RequestWait
    <3>2. actions' \in Seq(FloorAction)
      BY <2>0, <3>1 DEF ActionTypes
    <3> DEFINE e == [user_id |-> u, priority |-> p, age |-> lag]
    <3>3. e \in QueueEntry /\ e.user_id = u
      BY DEF QueueEntry, QueueCap, Lags
    <3>4. \/ queue' = queue
          \/ ~IsQueued(queue, u) /\ ~IsFull(queue) /\ queue' = PushSorted(queue, e)
      BY <2>4 DEF RequestWait
    <3>5. GoodQueue(queue')
      BY <1>0, <3>3, <3>4, PushGood
    <3> QED
      BY <1>0, <3>1, <3>2, <3>5 DEF IInv, NoWaiterOnFreeFloor, IsTaken
  <2> QED
    BY <1>1, <2>1, <2>2, <2>3, <2>4 DEF request
<1>2. ASSUME NEW u \in Users, release(u) PROVE IInv'
  <2>0. Result("Released", u) \in FloorAction /\ <<Result("Released", u)>> \in Seq(FloorAction)
    BY ResultType DEF ActionTypes
  <2>1. CASE state.speaker = u /\ Vacate(u, queue, Result("Released", u))
    BY <1>0, <2>0, <2>1, VacateInv
  <2>2. CASE /\ IsTaken /\ state' = state /\ prev_speaker' = prev_speaker
             /\ queue' = Retain(queue, u) /\ actions' = <<>>
    <3>1. GoodQueue(Retain(queue, u)) /\ <<>> \in Seq(FloorAction)
      BY <1>0, RetainGood
    <3> QED
      BY <1>0, <2>2, <3>1 DEF IInv, NoWaiterOnFreeFloor, IsTaken
  <2>3. CASE actions' = <<Result("Released", u)>> /\ UNCHANGED <<state, queue, prev_speaker>>
    BY <1>0, <2>0, <2>3 DEF IInv, NoWaiterOnFreeFloor, IsTaken
  <2> QED
    BY <1>2, <2>1, <2>2, <2>3 DEF release
<1>3. ASSUME NEW u \in Users, NEW lag \in Lags, ping(u, lag) PROVE IInv'
  <2>1. /\ queue' = queue /\ prev_speaker' = prev_speaker
        /\ actions' \in {<<Result("PingOk", u)>>, <<Result("PingDenied", u)>>}
    BY <1>3 DEF ping
  <2>2. actions' \in Seq(FloorAction)
    BY <2>1, ResultType DEF ActionTypes
  <2>3. state' \in FloorState /\ (IsTaken' <=> IsTaken)
    <3>1. CASE state.speaker = u
      <4>1. lag \in 0..PingCap
        BY FloorAssumption DEF Lags, PingCap
      <4>2. state' = [state EXCEPT !.ping_age = lag]
        BY <1>3, <3>1 DEF ping
      <4> QED
        BY <1>f, <3>1, <4>1, <4>2 DEF FloorState, IsTaken
    <3>2. CASE state.speaker # u
      BY <1>0, <1>3, <3>2 DEF ping, IsTaken
    <3> QED
      BY <3>1, <3>2
  <2> QED
    BY <1>0, <2>1, <2>2, <2>3 DEF IInv, NoWaiterOnFreeFloor
<1>4. ASSUME NEW u \in Users, cancel_queue(u) PROVE IInv'
  <2>1. GoodQueue(Retain(queue, u)) /\ (queue = <<>> => Retain(queue, u) = <<>>)
        /\ <<>> \in Seq(FloorAction)
    BY <1>0, RetainGood
  <2> QED
    BY <1>0, <1>4, <2>1 DEF cancel_queue, IInv, NoWaiterOnFreeFloor, IsTaken
<1>5. ASSUME NEW lag \in Lags, check_timers(lag) PROVE IInv'
  <2>1. CASE IsTaken /\ Vacate(state.speaker, queue, Result("Revoked", state.speaker))
    <3>1. state.speaker \in Users /\ Result("Revoked", state.speaker) \in FloorAction
      BY <1>f, <2>1, ResultType DEF ActionTypes
    <3> QED
      BY <1>0, <2>1, <3>1, VacateInv
  <2>2. CASE actions' = <<>> /\ UNCHANGED <<state, queue, prev_speaker>>
    BY <1>0, <2>2 DEF IInv, NoWaiterOnFreeFloor, IsTaken
  <2> QED
    BY <1>5, <2>1, <2>2 DEF check_timers
<1>6. ASSUME NEW u \in Users, on_participant_leave(u) PROVE IInv'
  <2>1. GoodQueue(Retain(queue, u)) /\ (queue = <<>> => Retain(queue, u) = <<>>)
        /\ <<>> \in Seq(FloorAction)
    BY <1>0, RetainGood
  <2>2. CASE state.speaker = u
    <3>1. Vacate(u, Retain(queue, u), Result("Released", u)) /\ Result("Released", u) \in FloorAction
      BY <1>6, <2>2, ResultType DEF on_participant_leave, ActionTypes
    <3> QED
      BY <2>1, <3>1, VacateInv
  <2>3. CASE state.speaker # u
    BY <1>0, <1>6, <2>1, <2>3 DEF on_participant_leave, IInv, NoWaiterOnFreeFloor, IsTaken
  <2> QED
    BY <2>2, <2>3
<1>7. CASE Tick
  <2>1. prev_speaker' = prev_speaker /\ actions' = actions
    BY <1>7 DEF Tick
  <2>2. GoodQueue(queue') /\ (queue = <<>> => queue' = <<>>)
    BY <1>0, <1>7, TickGood DEF Tick
  <2>3. state' \in FloorState /\ (IsTaken' <=> IsTaken)
    <3>1. CASE IsTaken
      <4> DEFINE b == Capped(state.burst_age, BurstCap)
                 g == Capped(state.ping_age, PingCap)
      <4>1. state.burst_age \in 0..BurstCap /\ state.ping_age \in 0..PingCap
        BY <1>f, <3>1
      <4>2. b \in 0..BurstCap /\ g \in 0..PingCap
        BY <4>1, FloorAssumption DEF BurstCap, PingCap, Capped
      <4>3. state' = [state EXCEPT !.burst_age = b, !.ping_age = g]
        BY <1>7, <3>1 DEF Tick
      <4> HIDE DEF b, g
      <4> QED
        BY <1>f, <3>1, <4>2, <4>3 DEF FloorState, IsTaken
    <3>2. CASE ~IsTaken
      BY <1>0, <1>7, <3>2 DEF Tick, IsTaken
    <3> QED
      BY <3>1, <3>2
  <2> QED
    BY <1>0, <2>1, <2>2, <2>3 DEF IInv, NoWaiterOnFreeFloor
<1>8. CASE UNCHANGED floorVars
  BY <1>0, <1>8 DEF floorVars, IInv, NoWaiterOnFreeFloor, IsTaken
<1> QED
  BY <1>1, <1>2, <1>3, <1>4, <1>5, <1>6, <1>7, <1>8 DEF Next

\* with_config establishes the inductive invariant.
LEMMA InvInit == Init => IInv
<1> SUFFICES ASSUME Init PROVE IInv
  OBVIOUS
<1>1. <<>> \in Seq(QueueEntry) /\ <<>> \in Seq(FloorAction) /\ Len(<<>>) = 0
  OBVIOUS
<1>2. GoodQueue(<<>>)
  BY <1>1, FloorAssumption DEF GoodQueue, InOrder, OneEach
<1> QED
  BY <1>1, <1>2 DEF Init, IInv, FloorState, NoWaiterOnFreeFloor

\* The controller's state keeps its types and the queue its size limit.
THEOREM TypeCorrect == Spec => []TypeOK
<1>1. Spec => []IInv
  BY InvInit, InvStep, PTL DEF Spec
<1>2. IInv => TypeOK
  BY IInvMeaning
<1> QED
  BY <1>1, <1>2, PTL

\* Whatever clock samples the requests come with, _try_grant_next takes the
\* entry that the comparator of sort_by puts first: for any number of users,
\* priorities and queue places the queue stays sorted.
THEOREM QueueStaysSorted == Spec => []QueueInOrder
<1>1. Spec => []IInv
  BY InvInit, InvStep, PTL DEF Spec
<1>2. IInv => QueueInOrder
  BY IInvMeaning DEF FloorInv
<1> QED
  BY <1>1, <1>2, PTL

\* A request of a user that waits already gets no second entry, so a cancel or
\* a leave takes the user out of the queue for good.
THEOREM NobodyWaitsTwice == Spec => []OneEntryPerUser
<1>1. Spec => []IInv
  BY InvInit, InvStep, PTL DEF Spec
<1>2. IInv => OneEntryPerUser
  BY IInvMeaning DEF FloorInv
<1> QED
  BY <1>1, <1>2, PTL

\* Release, T2, ping timeout and leave all serve the queue: the floor is never
\* free while somebody waits, for any number of users, priorities and places.
THEOREM FreeFloorServesQueue == Spec => []NoWaiterOnFreeFloor
<1>1. Spec => []IInv
  BY InvInit, InvStep, PTL DEF Spec
<1>2. IInv => NoWaiterOnFreeFloor
  BY IInvMeaning DEF FloorInv
<1> QED
  BY <1>1, <1>2, PTL

-----------------------------------------------------------------------------
(* What a call does to the speaker and what it tells its caller *)

\* The speaker stays, and nobody has to hear of it.
Unmoved(acts) ==
  /\ state'.speaker = state.speaker
  /\ actions' \in acts

\* x loses the floor, as `what' says, and the next one waiting gets it, or nobody.
HandedOn(what, x) ==
  \/ actions' = <<Result(what, x)>> /\ state'.speaker = NoOne
  \/ \E w \in Users :
       actions' = <<Result(what, x), Result("Granted", w)>> /\ state'.speaker = w

\* _try_grant_next after a holder is gone.
LEMMA VacateOutcome ==
  ASSUME NEW what, NEW x \in Users, NEW q, GoodQueue(q), Vacate(x, q, Result(what, x))
  PROVE  HandedOn(what, x)
<1>1. CASE q = <<>>
  BY <1>1 DEF Vacate, HandedOn, Idle
<1>2. CASE q # <<>>
  <2>1. Head(q) \in QueueEntry
    BY <1>2, TailGood
  <2>2. Head(q).user_id \in Users
    BY <2>1 DEF QueueEntry
  <2>3. /\ state'.speaker = Head(q).user_id
        /\ actions' = <<Result(what, x), Result("Granted", Head(q).user_id)>>
    BY <1>2 DEF Vacate, Taken
  <2> QED
    BY <2>2, <2>3 DEF HandedOn
<1> QED
  BY <1>1, <1>2

\* request: the floor is granted, taken from its holder, or stays as it is.
LEMMA RequestOutcome ==
  ASSUME IInv, NEW u \in Users, NEW p \in Priorities, NEW lag \in Lags, request(u, p, lag)
  PROVE  \/ Unmoved({<<Result("Queued", u)>>, <<Result("Denied", u)>>})
         \/ actions' = <<Result("Granted", u)>> /\ state'.speaker = u
         \/ \E x \in Users : /\ actions' = <<Result("Revoked", x), Result("Granted", u)>>
                             /\ state'.speaker = u
<1>1. CASE RequestIdle(u, p, lag)
  BY <1>1, TakenState DEF RequestIdle
<1>2. CASE RequestAgain(u)
  BY <1>2 DEF RequestAgain
<1>3. CASE RequestPreempt(u, p, lag)
  <2>1. state.speaker \in Users
    BY <1>3, StateFields DEF IInv, RequestPreempt
  <2> QED
    BY <1>3, <2>1, TakenState DEF RequestPreempt
<1>4. CASE RequestWait(u, p, lag)
  BY <1>4 DEF RequestWait, Unmoved
<1> QED
  BY <1>1, <1>2, <1>3, <1>4 DEF request

\* release: the holder hands on; a free floor is announced as free again.
LEMMA ReleaseOutcome ==
  ASSUME IInv, NEW u \in Users, release(u)
  PROVE  Unmoved({<<>>}) \/ HandedOn("Released", u)
<1>1. CASE state.speaker = u
  <2>1. Vacate(u, queue, Result("Released", u))
    BY <1>1, FloorAssumption DEF release, IsTaken
  <2> QED
    BY <2>1, VacateOutcome DEF IInv
<1>2. CASE state.speaker # u /\ IsTaken
  BY <1>2 DEF release, Unmoved
<1>3. CASE ~IsTaken
  BY <1>3, FloorAssumption DEF release, HandedOn, IsTaken
<1> QED
  BY <1>1, <1>2, <1>3

\* on_participant_leave: the holder hands on, others only leave the queue.
LEMMA LeaveOutcome ==
  ASSUME IInv, NEW u \in Users, on_participant_leave(u)
  PROVE  Unmoved({<<>>}) \/ HandedOn("Released", u)
<1>1. CASE state.speaker = u
  <2>1. GoodQueue(Retain(queue, u))
    BY RetainGood DEF IInv
  <2> QED
    BY <1>1, <2>1, VacateOutcome DEF on_participant_leave
<1>2. CASE state.speaker # u
  BY <1>2 DEF on_participant_leave, Unmoved
<1> QED
  BY <1>1, <1>2

\* check_timers: an expired holder is revoked.
LEMMA TimerOutcome ==
  ASSUME IInv, NEW lag \in Lags, check_timers(lag)
  PROVE  Unmoved({<<>>}) \/ \E x \in Users : HandedOn("Revoked", x)
<1>1. CASE IsTaken /\ Vacate(state.speaker, queue, Result("Revoked", state.speaker))
  <2>1. state.speaker \in Users
    BY <1>1, StateFields DEF IInv
  <2> QED
    BY <1>1, <2>1, VacateOutcome DEF IInv
<1>2. CASE actions' = <<>> /\ UNCHANGED state
  BY <1>2 DEF Unmoved
<1> QED
  BY <1>1, <1>2 DEF check_timers

\* ping and the passing of time: the speaker stays.
LEMMA PingOutcome ==
  ASSUME IInv, NEW u \in Users, NEW lag \in Lags, ping(u, lag)
  PROVE  state'.speaker = state.speaker
BY StateFields DEF IInv, ping, FloorState, Idle

\* Time passes and the speaker stays.
LEMMA TickOutcome ==
  ASSUME IInv, Tick
  PROVE  state'.speaker = state.speaker
BY StateFields DEF IInv, Tick, FloorState, Idle

-----------------------------------------------------------------------------
(* The controller implements FloorArbiter *)

\* The set of waiting entries a queue stands for.
AsEntry(e) == [user |-> e.user_id, priority |-> e.priority]
Waiting(q) == {AsEntry(q[i]) : i \in 1..Len(q)}

\* The set the refinement mapping gives the arbiter is that of the queue entries.
LEMMA WaitingIsMapping ==
  {[user |-> queue[i].user_id, priority |-> queue[i].priority] : i \in 1..Len(queue)} = Waiting(queue)
BY DEF Waiting, AsEntry

\* What the arbiter sees of a queue entry.
LEMMA AsEntryFields ==
  ASSUME NEW e
  PROVE  AsEntry(e).user = e.user_id /\ AsEntry(e).priority = e.priority
BY DEF AsEntry

\* retain() withdraws the entry of u.
LEMMA WaitingRetain ==
  ASSUME NEW q, GoodQueue(q), NEW u
  PROVE  Waiting(Retain(q, u)) = {w \in Waiting(q) : w.user # u}
<1>0. q \in Seq(QueueEntry) /\ Len(q) \in Nat /\ OneEach(q)
  BY DEF GoodQueue
<1>1. CASE Retain(q, u) = q /\ ~IsQueued(q, u)
  BY <1>1, AsEntryFields DEF Waiting, IsQueued
<1>2. CASE \E k \in 1..Len(q) : q[k].user_id = u /\ Retain(q, u) = RemoveAt(q, k)
  <2>1. PICK k \in 1..Len(q) : q[k].user_id = u /\ Retain(q, u) = RemoveAt(q, k)
    BY <1>2
  <2> DEFINE r == RemoveAt(q, k)
  <2>2. /\ Len(r) = Len(q) - 1
        /\ \A i \in 1..(Len(q) - 1) : r[i] = IF i < k THEN q[i] ELSE q[i + 1]
    BY <1>0, RemoveAtProps
  <2> HIDE DEF r
  <2>3. \A i \in 1..Len(q) : q[i].user_id = u <=> i = k
    BY <1>0, <2>1 DEF OneEach
  <2>4. ASSUME NEW i \in 1..Len(r)
        PROVE  \E j \in 1..Len(q) : j # k /\ r[i] = q[j]
    <3>1. CASE i < k
      BY <1>0, <2>2, <3>1
    <3>2. CASE ~(i < k)
      <4>1. i + 1 \in 1..Len(q) /\ i + 1 # k /\ r[i] = q[i + 1]
        BY <1>0, <2>2, <3>2
      <4> QED
        BY <4>1
    <3> QED
      BY <3>1, <3>2
  <2>5. ASSUME NEW j \in 1..Len(q), j # k
        PROVE  \E i \in 1..Len(r) : r[i] = q[j]
    <3>1. CASE j < k
      BY <1>0, <2>2, <3>1
    <3>2. CASE j > k
      <4>1. j - 1 \in 1..Len(r) /\ ~(j - 1 < k) /\ (j - 1) + 1 = j
        BY <1>0, <2>2, <3>2
      <4> QED
        BY <2>2, <4>1
    <3> QED
      BY <2>5, <3>1, <3>2
  <2>6. ASSUME NEW w \in Waiting(r) PROVE w \in Waiting(q) /\ w.user # u
    <3>1. PICK i \in 1..Len(r) : w = AsEntry(r[i])
      BY <2>6 DEF Waiting
    <3>2. PICK j \in 1..Len(q) : j # k /\ r[i] = q[j]
      BY <2>4
    <3>3. q[j].user_id # u
      BY <2>3, <3>2
    <3> QED
      BY <3>1, <3>2, <3>3, AsEntryFields DEF Waiting
  <2>7. ASSUME NEW w \in Waiting(q), w.user # u PROVE w \in Waiting(r)
    <3>1. PICK j \in 1..Len(q) : w = AsEntry(q[j])
      BY <2>7 DEF Waiting
    <3>2. j # k
      BY <2>1, <2>7, <3>1, AsEntryFields
    <3>3. PICK i \in 1..Len(r) : r[i] = q[j]
      BY <2>5, <3>2
    <3> QED
      BY <3>1, <3>3 DEF Waiting
  <2>8. Waiting(r) = {w \in Waiting(q) : w.user # u}
    BY <2>6, <2>7
  <2> QED
    BY <2>1, <2>8 DEF r
<1> QED
  BY <1>0, <1>1, <1>2, RetainProps

\* The head of the queue has the highest priority waiting; the tail is the rest.
LEMMA WaitingTail ==
  ASSUME NEW q, GoodQueue(q), q # <<>>
  PROVE  /\ AsEntry(Head(q)) \in Waiting(q)
         /\ \A v \in Waiting(q) : v.priority <= Head(q).priority
         /\ Waiting(Tail(q)) = Waiting(q) \ {AsEntry(Head(q))}
<1>0. q \in Seq(QueueEntry) /\ Len(q) \in Nat /\ OneEach(q) /\ InOrder(q)
  BY DEF GoodQueue
<1>1. Head(q) = q[1] /\ 1 \in 1..Len(q) /\ Head(q) \in QueueEntry
  BY TailGood
<1>2. AsEntry(Head(q)) \in Waiting(q)
  BY <1>1 DEF Waiting
<1>3. \A i \in 1..Len(q) : q[i].priority <= Head(q).priority
  <2> SUFFICES ASSUME NEW i \in 1..Len(q) PROVE q[i].priority <= Head(q).priority
    OBVIOUS
  <2>1. q[i] \in QueueEntry /\ q[i].priority \in Nat /\ Head(q).priority \in Nat
    BY <1>0, <1>1, EntryFields
  <2>2. i = 1 \/ ~Before(q[i], q[1])
    BY <1>0, <1>1 DEF InOrder
  <2> QED
    BY <1>1, <2>1, <2>2 DEF Before
<1>4. \A v \in Waiting(q) : v.priority <= Head(q).priority
  BY <1>3, AsEntryFields DEF Waiting
<1> DEFINE r == Tail(q)
<1>5. Len(r) = Len(q) - 1 /\ \A i \in 1..Len(r) : r[i] = q[i + 1]
  BY <1>0, HeadTailProperties
<1> HIDE DEF r
<1>6. \A i \in 1..Len(q) : AsEntry(q[i]) = AsEntry(q[1]) => i = 1
  BY <1>0, <1>1, AsEntryFields DEF OneEach
<1>7. \A i \in 1..Len(r) : i + 1 \in 1..Len(q) /\ i + 1 # 1 /\ r[i] = q[i + 1]
  BY <1>0, <1>5
<1>8. ASSUME NEW j \in 1..Len(q), j # 1
      PROVE  \E i \in 1..Len(r) : r[i] = q[j]
  <2>1. j - 1 \in 1..Len(r) /\ (j - 1) + 1 = j
    BY <1>0, <1>5, <1>8
  <2> QED
    BY <1>5, <2>1
<1>9. Waiting(r) = Waiting(q) \ {AsEntry(q[1])}
  BY <1>6, <1>7, <1>8 DEF Waiting
<1> QED
  BY <1>1, <1>2, <1>4, <1>9 DEF r

\* push and sort_by add one waiting entry.
LEMMA WaitingPush ==
  ASSUME NEW q, GoodQueue(q), NEW e \in QueueEntry
  PROVE  Waiting(PushSorted(q, e)) = Waiting(q) \cup {AsEntry(e)}
<1> DEFINE k == InsertPos(q, e)
           r == InsertAt(q, k, e)
<1>0. q \in Seq(QueueEntry) /\ Len(q) \in Nat
  BY DEF GoodQueue
<1>1. k \in 1..(Len(q) + 1)
  BY <1>0, InsertPosProps
<1>2. PushSorted(q, e) = r
  BY DEF PushSorted
<1> HIDE DEF k
<1>3. /\ Len(r) = Len(q) + 1
      /\ \A i \in 1..(Len(q) + 1) : r[i] = IF i < k THEN q[i] ELSE IF i = k THEN e ELSE q[i - 1]
  BY <1>0, <1>1, InsertAtProps
<1> HIDE DEF r
<1>4. ASSUME NEW i \in 1..Len(r)
      PROVE  r[i] = e \/ \E j \in 1..Len(q) : r[i] = q[j]
  <2>1. i < k => i \in 1..Len(q) /\ r[i] = q[i]
    BY <1>0, <1>1, <1>3
  <2>2. i > k => i - 1 \in 1..Len(q) /\ r[i] = q[i - 1]
    BY <1>0, <1>1, <1>3
  <2>3. i = k => r[i] = e
    BY <1>1, <1>3
  <2> QED
    BY <1>1, <2>1, <2>2, <2>3
<1>5. ASSUME NEW j \in 1..Len(q)
      PROVE  \E i \in 1..Len(r) : r[i] = q[j]
  <2>1. j < k => j \in 1..Len(r) /\ r[j] = q[j]
    BY <1>0, <1>1, <1>3
  <2>2. j >= k => j + 1 \in 1..Len(r) /\ r[j + 1] = q[(j + 1) - 1] /\ (j + 1) - 1 = j
    BY <1>0, <1>1, <1>3
  <2> QED
    BY <1>1, <2>1, <2>2
<1>6. k \in 1..Len(r) /\ r[k] = e
  BY <1>1, <1>3
<1>7. Waiting(r) = Waiting(q) \cup {AsEntry(e)}
  BY <1>4, <1>5, <1>6 DEF Waiting
<1> QED
  BY <1>2, <1>7

\* The passing of time is invisible to the arbiter.
LEMMA WaitingTick ==
  ASSUME NEW q, GoodQueue(q)
  PROVE  Waiting([i \in 1..Len(q) |-> [q[i] EXCEPT !.age = Capped(@, QueueCap)]]) = Waiting(q)
<1> DEFINE r == [i \in 1..Len(q) |-> [q[i] EXCEPT !.age = Capped(@, QueueCap)]]
<1>0. q \in Seq(QueueEntry) /\ Len(q) \in Nat
  BY DEF GoodQueue
<1>1. Len(r) = Len(q)
  BY <1>0
<1>2. ASSUME NEW i \in 1..Len(q) PROVE AsEntry(r[i]) = AsEntry(q[i])
  <2>1. q[i] \in QueueEntry
    BY <1>0
  <2> DEFINE c == Capped(q[i].age, QueueCap)
  <2>2. r[i] = [q[i] EXCEPT !.age = c]
    OBVIOUS
  <2> HIDE DEF c, r
  <2> QED
    BY <2>1, <2>2 DEF AsEntry, QueueEntry
<1> HIDE DEF r
<1>3. Waiting(r) = Waiting(q)
  BY <1>1, <1>2 DEF Waiting
<1> QED
  BY <1>3 DEF r

\* The floor changing hands is HandOver of the entries still waiting.
LEMMA VacateHandsOver ==
  ASSUME IsTaken, NEW u \in Users, NEW q, GoodQueue(q), NEW r \in FloorAction, Vacate(u, q, r)
  PROVE  Arbiter!HandOver(Waiting(q))
<1>1. CASE q = <<>>
  <2>1. state' = Idle /\ queue' = <<>> /\ Waiting(q) = {} /\ Waiting(queue') = {}
    BY <1>1 DEF Vacate, Waiting
  <2> QED
    BY <2>1, WaitingIsMapping DEF Arbiter!HandOver, Idle, IsTaken, Waiting, AsEntry
<1>2. CASE q # <<>>
  <2> DEFINE w == AsEntry(Head(q))
  <2>1. state' = Taken(Head(q).user_id, Head(q).priority, 0) /\ queue' = Tail(q)
    BY <1>2 DEF Vacate
  <2>2. /\ w \in Waiting(q)
        /\ \A v \in Waiting(q) : v.priority <= w.priority
        /\ Waiting(queue') = Waiting(q) \ {w}
    BY <1>2, <2>1, WaitingTail, AsEntryFields
  <2>3. state'.speaker = w.user /\ state'.priority = w.priority
    BY <2>1, AsEntryFields DEF Taken
  <2> HIDE DEF w
  <2> QED
    BY <2>2, <2>3 DEF Arbiter!HandOver, IsTaken, Waiting, AsEntry
<1> QED
  BY <1>1, <1>2

\* Every step of the controller is a step of the arbiter or leaves its state alone.
LEMMA RefinesStep == IInv /\ [Next]_floorVars => [Arbiter!Next]_(Arbiter!arbiterVars)
<1> SUFFICES ASSUME IInv, [Next]_floorVars PROVE [Arbiter!Next]_(Arbiter!arbiterVars)
  OBVIOUS
<1> DEFINE Same == /\ state'.speaker = state.speaker
                   /\ state'.priority = state.priority
                   /\ Waiting(queue') = Waiting(queue)
<1>0. /\ state \in FloorState /\ GoodQueue(queue) /\ NoWaiterOnFreeFloor
  BY DEF IInv
<1>f. IsTaken <=> state.speaker \in Users
  BY <1>0, StateFields
<1>s. Same => UNCHANGED Arbiter!arbiterVars
  BY DEF Arbiter!arbiterVars, Waiting, AsEntry
<1>w. ASSUME NEW u \in Users, state' = state, queue' = Retain(queue, u)
      PROVE  Arbiter!Next
  <2>1. Waiting(queue') = {w \in Waiting(queue) : w.user # u}
    BY <1>0, <1>w, WaitingRetain
  <2>2. Arbiter!Withdraw(u)
    BY <1>w, <2>1 DEF Arbiter!Withdraw, Arbiter!Without, Waiting, AsEntry
  <2> QED
    BY <2>2 DEF Arbiter!Next
<1>h. ASSUME IsTaken, NEW u \in Users, NEW r \in FloorAction, Vacate(u, queue, r)
      PROVE  Arbiter!Next
  <2>1. Arbiter!HandOver(Waiting(queue))
    BY <1>0, <1>h, VacateHandsOver DEF Arbiter!HandOver
  <2> QED
    BY <2>1 DEF Arbiter!Next, Waiting, AsEntry
<1>1. ASSUME NEW u \in Users, NEW p \in Priorities, NEW lag \in Lags, request(u, p, lag)
      PROVE  Arbiter!Next \/ Same
  <2>1. CASE RequestIdle(u, p, lag)
    <3>1. state' = Taken(u, p, lag) /\ queue' = queue /\ queue = <<>> /\ state.speaker = NoOne
      BY <1>0, <2>1 DEF RequestIdle, NoWaiterOnFreeFloor, IsTaken
    <3>2. Waiting(queue) = {} /\ Waiting(queue') = {}
      BY <3>1 DEF Waiting
    <3>3. Arbiter!Grant(u, p)
      BY <3>1, <3>2, TakenState DEF Arbiter!Grant, Waiting, AsEntry
    <3> QED
      BY <3>3 DEF Arbiter!Next
  <2>2. CASE RequestAgain(u)
    BY <2>2 DEF RequestAgain
  <2>3. CASE RequestPreempt(u, p, lag)
    <3>1. /\ state' = Taken(u, p, lag) /\ queue' = queue
          /\ state.speaker \in Users /\ state.speaker # u /\ p > state.priority
      BY <1>f, <2>3 DEF RequestPreempt, MayPreempt
    <3>2. Arbiter!Preempt(u, p)
      BY <3>1, TakenState DEF Arbiter!Preempt
    <3> QED
      BY <3>2 DEF Arbiter!Next
  <2>4. CASE RequestWait(u, p, lag)
    <3> DEFINE e == [user_id |-> u, priority |-> p, age |-> lag]
    <3>1. e \in QueueEntry /\ AsEntry(e) = [user |-> u, priority |-> p]
      BY DEF QueueEntry, QueueCap, Lags, AsEntry
    <3>2. \/ queue' = queue
          \/ ~IsQueued(queue, u) /\ queue' = PushSorted(queue, e)
      BY <2>4 DEF RequestWait
    <3>3. state' = state /\ state.speaker \in Users \ {u}
      BY <1>f, <2>4 DEF RequestWait
    <3> HIDE DEF e
    <3>4. CASE ~IsQueued(queue, u) /\ queue' = PushSorted(queue, e)
      <4>1. Waiting(queue') = Waiting(queue) \cup {[user |-> u, priority |-> p]}
        BY <1>0, <3>1, <3>4, WaitingPush
      <4>2. \A w \in Waiting(queue) : w.user # u
        BY <3>4, AsEntryFields DEF IsQueued, Waiting
      <4>3. Arbiter!Wait(u, p)
        BY <3>3, <4>1, <4>2 DEF Arbiter!Wait, Waiting, AsEntry
      <4> QED
        BY <4>3 DEF Arbiter!Next
    <3> QED
      BY <3>2, <3>3, <3>4
  <2> QED
    BY <1>1, <2>1, <2>2, <2>3, <2>4 DEF request
<1>2. ASSUME NEW u \in Users, release(u) PROVE Arbiter!Next \/ Same
  <2>1. CASE state.speaker = u /\ Vacate(u, queue, Result("Released", u))
    BY <1>f, <1>h, <2>1, ResultType DEF ActionTypes
  <2>2. CASE state' = state /\ queue' = Retain(queue, u)
    BY <1>w, <2>2
  <2>3. CASE state' = state /\ queue' = queue
    BY <2>3
  <2> QED
    BY <1>2, <2>1, <2>2, <2>3 DEF release
<1>3. ASSUME NEW u \in Users, NEW lag \in Lags, ping(u, lag) PROVE Same
  <2>1. state' = state \/ state' = [state EXCEPT !.ping_age = lag]
    BY <1>3 DEF ping
  <2>2. state'.speaker = state.speaker /\ state'.priority = state.priority
    BY <1>0, <2>1 DEF FloorState, Idle
  <2> QED
    BY <1>3, <2>2 DEF ping
<1>4. ASSUME NEW u \in Users, cancel_queue(u) PROVE Arbiter!Next
  BY <1>4, <1>w DEF cancel_queue
<1>5. ASSUME NEW lag \in Lags, check_timers(lag) PROVE Arbiter!Next \/ Same
  BY <1>5, <1>f, <1>h, ResultType DEF check_timers, ActionTypes
<1>6. ASSUME NEW u \in Users, on_participant_leave(u) PROVE Arbiter!Next
  <2>1. CASE state.speaker = u
    <3>1. /\ GoodQueue(Retain(queue, u)) /\ IsTaken
          /\ Vacate(u, Retain(queue, u), Result("Released", u))
          /\ Result("Released", u) \in FloorAction
      BY <1>0, <1>6, <1>f, <2>1, RetainGood, ResultType DEF on_participant_leave, ActionTypes
    <3>2. Arbiter!HandOver(Waiting(Retain(queue, u)))
      BY <3>1, VacateHandsOver DEF Arbiter!HandOver
    <3>3. Waiting(Retain(queue, u)) = {w \in Waiting(queue) : w.user # state.speaker}
      BY <1>0, <2>1, WaitingRetain
    <3>4. Arbiter!Without(state.speaker) = {w \in Waiting(queue) : w.user # state.speaker}
      BY DEF Arbiter!Without, Waiting, AsEntry
    <3> QED
      BY <3>2, <3>3, <3>4 DEF Arbiter!Next, Arbiter!HandOver
  <2>2. CASE state.speaker # u
    BY <1>6, <1>w, <2>2 DEF on_participant_leave
  <2> QED
    BY <2>1, <2>2
<1>7. CASE Tick
  <2>1. Waiting(queue') = Waiting(queue)
    BY <1>0, <1>7, WaitingTick DEF Tick
  <2>2. state'.speaker = state.speaker /\ state'.priority = state.priority
    BY <1>0, <1>7 DEF Tick, FloorState, Idle
  <2> QED
    BY <1>s, <2>1, <2>2
<1>8. CASE UNCHANGED floorVars
  BY <1>8, <1>s DEF floorVars
<1> QED
  BY <1>1, <1>2, <1>3, <1>4, <1>5, <1>6, <1>7, <1>8, <1>s DEF Next

\* FloorController implements FloorArbiter: one holder, taken from it only by a
\* higher priority, handed on to the highest priority waiting.
THEOREM ControllerRefinesArbiter == Spec => RefinesArbiter
<1>1. Init => Arbiter!Init
  BY DEF Init, Arbiter!Init, Idle
<1>2. Spec => []IInv
  BY InvInit, InvStep, PTL DEF Spec
<1> QED
  BY <1>1, <1>2, RefinesStep, PTL DEF Spec, RefinesArbiter, Arbiter!Spec
=============================================================================
