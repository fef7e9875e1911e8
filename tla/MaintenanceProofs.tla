-------------------------- MODULE MaintenanceProofs --------------------------
(***************************************************************************)
(* Proofs about Maintenance: the due queries and the pages read from them, *)
(* the inductive invariant of the two walks, and that no walk drops what   *)
(* it cannot deal with.                                                    *)
(***************************************************************************)
EXTENDS Maintenance, TLAPS, SequenceTheorems, FiniteSetTheorems

-----------------------------------------------------------------------------
(***************************************************************************)
(* Due queries: no key twice, and in the order of the due times.           *)
(***************************************************************************)
Record(K) == [key : K, due : 0 .. Long]

QueueOK(q, K) ==
  /\ q \in Seq(Record(K))
  /\ \A i, j \in 1 .. Len(q) : q[i].key = q[j].key => i = j
  /\ \A i, j \in 1 .. Len(q) : i < j => q[i].due <= q[j].due

\* The constants are numbers in the order the lemmas use.
LEMMA Bounds ==
  /\ Soon \in Nat \ {0} /\ Long \in Nat \ {0} /\ Soon <= Long /\ MaxFaults \in Nat
  /\ MaxSweepDeletes \in Nat \ {0} /\ MaxRunnerPages \in Nat \ {0}
  /\ Soon \in 0 .. Long /\ Long \in 0 .. Long
BY MaintenanceAssumption

\* The entries of a query, by position.
LEMMA QueueShape ==
  ASSUME NEW K, NEW q, QueueOK(q, K)
  PROVE  /\ Len(q) \in Nat /\ DOMAIN q = 1 .. Len(q)
         /\ \A i \in 1 .. Len(q) : /\ q[i] \in Record(K)
                                   /\ q[i].key \in K /\ q[i].due \in 0 .. Long
<1>1. q \in Seq(Record(K))
  BY DEF QueueOK
<1>2. \A i \in 1 .. Len(q) : q[i] \in Record(K)
  BY <1>1, ElementOfSeq
<1>3. \A i \in 1 .. Len(q) : q[i].key \in K /\ q[i].due \in 0 .. Long
  BY <1>2 DEF Record
<1> QED
  BY <1>1, <1>2, <1>3, LenProperties

\* The keys of a query are those of its entries, and the due ones among them.
LEMMA KeysByPlace ==
  ASSUME NEW K, NEW q, QueueOK(q, K)
  PROVE  /\ Keys(q) = {q[i].key : i \in 1 .. Len(q)}
         /\ Keys(q) \subseteq K
         /\ Due(q) = {q[i].key : i \in {j \in 1 .. Len(q) : q[j].due = 0}}
         /\ Due(q) \subseteq Keys(q)
<1>1. DOMAIN q = 1 .. Len(q) /\ \A i \in 1 .. Len(q) : q[i].key \in K
  BY QueueShape
<1>2. ToSet(q) = {q[i] : i \in 1 .. Len(q)}
  BY <1>1 DEF ToSet
<1>3. Keys(q) = {q[i].key : i \in 1 .. Len(q)}
  BY <1>2 DEF Keys
<1>4. Due(q) = {q[i].key : i \in {j \in 1 .. Len(q) : q[j].due = 0}}
  BY <1>2 DEF Due
<1> QED
  BY <1>1, <1>3, <1>4

\* Place finds the one entry with a key that is in the query.
LEMMA PlaceOfKey ==
  ASSUME NEW K, NEW q, QueueOK(q, K), NEW k \in Keys(q)
  PROVE  /\ Place(q, k) \in 1 .. Len(q)
         /\ q[Place(q, k)].key = k
         /\ \A i \in 1 .. Len(q) : q[i].key = k => i = Place(q, k)
<1>1. DOMAIN q = 1 .. Len(q)
  BY QueueShape
<1>2. \E i \in DOMAIN q : q[i].key = k
  BY <1>1, KeysByPlace
<1>3. Place(q, k) \in DOMAIN q /\ q[Place(q, k)].key = k
  BY <1>2 DEF Place
<1> QED
  BY <1>1, <1>3 DEF QueueOK

\* A query has as many entries as keys.
LEMMA LenIsKeys ==
  ASSUME NEW K, NEW q, QueueOK(q, K)
  PROVE  Len(q) = Cardinality(Keys(q))
<1> DEFINE f == [i \in 1 .. Len(q) |-> q[i].key]
<1>1. Len(q) \in Nat
  BY QueueShape
<1>2. Keys(q) = {q[i].key : i \in 1 .. Len(q)}
  BY KeysByPlace
<1>3. f \in [1 .. Len(q) -> Keys(q)]
  BY <1>2
<1>4. \A i, j \in 1 .. Len(q) : f[i] = f[j] => i = j
  BY DEF QueueOK
<1>5. \A k \in Keys(q) : \E i \in 1 .. Len(q) : f[i] = k
  BY <1>2
<1>6. f \in Bijection(1 .. Len(q), Keys(q))
  BY <1>3, <1>4, <1>5 DEF Bijection, Injection, Surjection, IsInjective
<1>7. ExistsBijection(1 .. Len(q), Keys(q))
  BY <1>6 DEF ExistsBijection
<1> QED
  BY <1>1, <1>7, FS_CountingElements

\* The entries without one of them keep the form of a query.
LEMMA RemovedEntry ==
  ASSUME NEW S, NEW q \in Seq(S), NEW p \in 1 .. Len(q)
  PROVE  /\ RemoveAt(q, p) \in Seq(S)
         /\ Len(RemoveAt(q, p)) = Len(q) - 1
         /\ \A i \in 1 .. Len(q) - 1 : RemoveAt(q, p)[i] = IF i < p THEN q[i] ELSE q[i + 1]
<1> DEFINE front == SubSeq(q, 1, p - 1)
           back == SubSeq(q, p + 1, Len(q))
<1>1. Len(q) \in Nat /\ p \in Nat /\ p >= 1 /\ p <= Len(q)
  BY LenProperties
<1>2. \A i \in 1 .. Len(q) : q[i] \in S
  BY ElementOfSeq
<1>3. /\ front \in Seq(S) /\ Len(front) = p - 1
      /\ \A i \in 1 .. p - 1 : front[i] = q[i]
  <2>1. \A i \in 1 .. p - 1 : q[i] \in S
    BY <1>1, <1>2
  <2>2. /\ front \in Seq(S) /\ Len(front) = IF 1 <= p - 1 THEN p - 1 - 1 + 1 ELSE 0
        /\ \A i \in 1 .. p - 1 - 1 + 1 : front[i] = q[1 + i - 1]
    BY <1>1, <2>1, SubSeqProperties
  <2> HIDE DEF front
  <2> QED
    BY <1>1, <2>2
<1>4. /\ back \in Seq(S) /\ Len(back) = Len(q) - p
      /\ \A i \in 1 .. Len(q) - p : back[i] = q[p + i]
  <2>1. \A i \in p + 1 .. Len(q) : q[i] \in S
    BY <1>1, <1>2
  <2>2. /\ back \in Seq(S)
        /\ Len(back) = IF p + 1 <= Len(q) THEN Len(q) - (p + 1) + 1 ELSE 0
        /\ \A i \in 1 .. Len(q) - (p + 1) + 1 : back[i] = q[p + 1 + i - 1]
    BY <1>1, <2>1, SubSeqProperties
  <2> HIDE DEF back
  <2> QED
    BY <1>1, <2>2
<1>5. RemoveAt(q, p) = front \o back
  BY DEF RemoveAt
<1> HIDE DEF front, back
<1>6. /\ front \o back \in Seq(S) /\ Len(front \o back) = Len(front) + Len(back)
      /\ \A i \in 1 .. Len(front) + Len(back) :
           (front \o back)[i] = IF i <= Len(front) THEN front[i] ELSE back[i - Len(front)]
  BY <1>3, <1>4, ConcatProperties
<1>7. \A i \in 1 .. Len(q) - 1 :
        (front \o back)[i] = IF i < p THEN q[i] ELSE q[i + 1]
  <2> SUFFICES ASSUME NEW i \in 1 .. Len(q) - 1
               PROVE  (front \o back)[i] = IF i < p THEN q[i] ELSE q[i + 1]
    OBVIOUS
  <2>1. CASE i < p
    BY <2>1, <1>1, <1>3, <1>4, <1>6
  <2>2. CASE ~(i < p)
    <3>1. i - (p - 1) \in 1 .. Len(q) - p /\ p + (i - (p - 1)) = i + 1
      BY <2>2, <1>1
    <3>2. back[i - (p - 1)] = q[i + 1]
      BY <3>1, <1>4
    <3> QED
      BY <2>2, <3>2, <1>1, <1>3, <1>4, <1>6
  <2> QED
    BY <2>1, <2>2
<1> QED
  BY <1>1, <1>3, <1>4, <1>5, <1>6, <1>7

\* An entry put between the others.
LEMMA InsertedEntry ==
  ASSUME NEW S, NEW q \in Seq(S), NEW p \in 1 .. Len(q) + 1, NEW e \in S
  PROVE  /\ InsertAt(q, p, e) \in Seq(S)
         /\ Len(InsertAt(q, p, e)) = Len(q) + 1
         /\ \A i \in 1 .. Len(q) + 1 :
              InsertAt(q, p, e)[i] = IF i < p THEN q[i] ELSE IF i = p THEN e ELSE q[i - 1]
<1> DEFINE front == SubSeq(q, 1, p - 1)
           back == SubSeq(q, p, Len(q))
           mid == front \o <<e>>
<1>1. Len(q) \in Nat /\ p \in Nat /\ p >= 1 /\ p <= Len(q) + 1
  BY LenProperties
<1>2. \A i \in 1 .. Len(q) : q[i] \in S
  BY ElementOfSeq
<1>3. /\ front \in Seq(S) /\ Len(front) = p - 1
      /\ \A i \in 1 .. p - 1 : front[i] = q[i]
  <2>1. \A i \in 1 .. p - 1 : q[i] \in S
    BY <1>1, <1>2
  <2>2. /\ front \in Seq(S) /\ Len(front) = IF 1 <= p - 1 THEN p - 1 - 1 + 1 ELSE 0
        /\ \A i \in 1 .. p - 1 - 1 + 1 : front[i] = q[1 + i - 1]
    BY <1>1, <2>1, SubSeqProperties
  <2> HIDE DEF front
  <2> QED
    BY <1>1, <2>2
<1>4. /\ back \in Seq(S) /\ Len(back) = Len(q) - p + 1
      /\ \A i \in 1 .. Len(q) - p + 1 : back[i] = q[p + i - 1]
  <2>1. \A i \in p .. Len(q) : q[i] \in S
    BY <1>1, <1>2
  <2>2. /\ back \in Seq(S)
        /\ Len(back) = IF p <= Len(q) THEN Len(q) - p + 1 ELSE 0
        /\ \A i \in 1 .. Len(q) - p + 1 : back[i] = q[p + i - 1]
    BY <1>1, <2>1, SubSeqProperties
  <2> HIDE DEF back
  <2> QED
    BY <1>1, <2>2
<1>5. InsertAt(q, p, e) = mid \o back
  BY DEF InsertAt
<1>6. <<e>> \in Seq(S) /\ Len(<<e>>) = 1 /\ <<e>>[1] = e
  OBVIOUS
<1> HIDE DEF front, back
<1>7. /\ mid \in Seq(S) /\ Len(mid) = p
      /\ \A i \in 1 .. p : mid[i] = IF i < p THEN q[i] ELSE e
  <2>1. /\ mid \in Seq(S) /\ Len(mid) = Len(front) + Len(<<e>>)
        /\ \A i \in 1 .. Len(front) + Len(<<e>>) :
             mid[i] = IF i <= Len(front) THEN front[i] ELSE <<e>>[i - Len(front)]
    BY <1>3, <1>6, ConcatProperties
  <2> HIDE DEF mid
  <2> QED
    BY <1>1, <1>3, <1>6, <2>1
<1> HIDE DEF mid
<1>8. /\ mid \o back \in Seq(S) /\ Len(mid \o back) = Len(mid) + Len(back)
      /\ \A i \in 1 .. Len(mid) + Len(back) :
           (mid \o back)[i] = IF i <= Len(mid) THEN mid[i] ELSE back[i - Len(mid)]
  BY <1>4, <1>7, ConcatProperties
<1>9. \A i \in 1 .. Len(q) + 1 :
        (mid \o back)[i] = IF i < p THEN q[i] ELSE IF i = p THEN e ELSE q[i - 1]
  <2> SUFFICES ASSUME NEW i \in 1 .. Len(q) + 1
               PROVE  (mid \o back)[i] = IF i < p THEN q[i] ELSE IF i = p THEN e ELSE q[i - 1]
    OBVIOUS
  <2>1. CASE i <= p
    BY <2>1, <1>1, <1>4, <1>7, <1>8
  <2>2. CASE ~(i <= p)
    <3>1. i - p \in 1 .. Len(q) - p + 1 /\ p + (i - p) - 1 = i - 1
      BY <2>2, <1>1
    <3>2. back[i - p] = q[i - 1]
      BY <3>1, <1>4
    <3> QED
      BY <2>2, <3>2, <1>1, <1>4, <1>7, <1>8
  <2> QED
    BY <2>1, <2>2
<1> QED
  BY <1>1, <1>4, <1>5, <1>7, <1>8, <1>9
\* Without takes the entry with the key away, and leaves the others in their order.
LEMMA WithoutQueue ==
  ASSUME NEW K, NEW q, QueueOK(q, K), NEW k
  PROVE  /\ QueueOK(Without(q, k), K)
         /\ Keys(Without(q, k)) = Keys(q) \ {k}
         /\ Due(q) \ {k} \subseteq Due(Without(q, k))
<1>1. CASE k \notin Keys(q)
  BY <1>1 DEF Without
<1>2. CASE k \in Keys(q)
  <2> DEFINE p == Place(q, k)
             r == RemoveAt(q, p)
             to(i) == IF i < p THEN i ELSE i + 1
  <2>1. Without(q, k) = r
    BY <1>2 DEF Without
  <2>2. /\ p \in 1 .. Len(q) /\ q[p].key = k
        /\ \A i \in 1 .. Len(q) : q[i].key = k => i = p
    BY <1>2, PlaceOfKey
  <2>3. Len(q) \in Nat /\ q \in Seq(Record(K))
    BY QueueShape DEF QueueOK
  <2> HIDE DEF p
  <2>4. /\ r \in Seq(Record(K)) /\ Len(r) = Len(q) - 1
        /\ \A i \in 1 .. Len(q) - 1 : r[i] = IF i < p THEN q[i] ELSE q[i + 1]
    BY <2>2, <2>3, RemovedEntry
  <2> HIDE DEF r
  <2>5. \A i \in 1 .. Len(r) : /\ r[i] = q[to(i)] /\ to(i) \in 1 .. Len(q) /\ to(i) # p
    BY <2>2, <2>3, <2>4
  <2>6. \A i, j \in 1 .. Len(r) : (i < j => to(i) < to(j)) /\ (to(i) = to(j) => i = j)
    BY <2>2, <2>3, <2>4
  <2>7. \A j \in 1 .. Len(q) : j # p => \E i \in 1 .. Len(r) : to(i) = j
    <3> SUFFICES ASSUME NEW j \in 1 .. Len(q), j # p
                 PROVE  \E i \in 1 .. Len(r) : to(i) = j
      OBVIOUS
    <3>1. CASE j < p
      <4>1. j \in 1 .. Len(r) /\ to(j) = j
        BY <3>1, <2>2, <2>3, <2>4
      <4> QED
        BY <4>1
    <3>2. CASE j > p
      <4>1. j - 1 \in 1 .. Len(r) /\ to(j - 1) = j
        BY <3>2, <2>2, <2>3, <2>4
      <4> QED
        BY <4>1
    <3> QED
      BY <3>1, <3>2, <2>2, <2>3
  <2> HIDE DEF to
  <2>8. QueueOK(r, K)
    <3>1. \A i, j \in 1 .. Len(r) : r[i].key = r[j].key => i = j
      BY <2>5, <2>6 DEF QueueOK
    <3>2. \A i, j \in 1 .. Len(r) : i < j => r[i].due <= r[j].due
      BY <2>5, <2>6 DEF QueueOK
    <3> QED
      BY <2>4, <3>1, <3>2 DEF QueueOK
  <2>9. Keys(r) = Keys(q) \ {k}
    <3>1. Keys(r) = {r[i].key : i \in 1 .. Len(r)}
      BY <2>8, KeysByPlace
    <3>2. Keys(q) = {q[i].key : i \in 1 .. Len(q)}
      BY KeysByPlace
    <3>3. \A i \in 1 .. Len(r) : r[i].key \in Keys(q) \ {k}
      BY <2>2, <2>5, <3>2
    <3>4. \A j \in 1 .. Len(q) : q[j].key # k => \E i \in 1 .. Len(r) : r[i].key = q[j].key
      BY <2>2, <2>5, <2>7
    <3> QED
      BY <3>1, <3>2, <3>3, <3>4
  <2>10. Due(q) \ {k} \subseteq Due(r)
    <3>1. Due(r) = {r[i].key : i \in {j \in 1 .. Len(r) : r[j].due = 0}}
      BY <2>8, KeysByPlace
    <3>2. Due(q) = {q[i].key : i \in {j \in 1 .. Len(q) : q[j].due = 0}}
      BY KeysByPlace
    <3>3. \A j \in 1 .. Len(q) : q[j].key # k => \E i \in 1 .. Len(r) : r[i] = q[j]
      BY <2>2, <2>5, <2>7
    <3> QED
      BY <3>1, <3>2, <3>3
  <2> QED
    BY <2>1, <2>8, <2>9, <2>10
<1> QED
  BY <1>1, <1>2

\* The entries due no later than d stand in front, as many as there are of them.
LEMMA EarlierInFront ==
  ASSUME NEW K, NEW q, QueueOK(q, K), NEW d \in Nat
  PROVE  LET S == {i \in DOMAIN q : q[i].due <= d}
         IN Cardinality(S) \in 0 .. Len(q) /\ S = 1 .. Cardinality(S)
<1> DEFINE S == {i \in DOMAIN q : q[i].due <= d}
           c == Cardinality(S)
<1>1. /\ Len(q) \in Nat /\ DOMAIN q = 1 .. Len(q)
      /\ \A i \in 1 .. Len(q) : q[i].due \in Nat
  BY QueueShape, Bounds
<1>2. IsFiniteSet(1 .. Len(q)) /\ Cardinality(1 .. Len(q)) = Len(q)
  <2>1. /\ IsFiniteSet(1 .. Len(q))
        /\ Cardinality(1 .. Len(q)) = IF 1 > Len(q) THEN 0 ELSE Len(q) - 1 + 1
    BY <1>1, FS_Interval
  <2> QED
    BY <1>1, <2>1
<1>3. S \subseteq 1 .. Len(q)
  BY <1>1
<1>4. \A i \in S : 1 .. i \subseteq S
  <2> SUFFICES ASSUME NEW i \in S, NEW j \in 1 .. i
               PROVE  j \in S
    OBVIOUS
  <2>1. i \in 1 .. Len(q) /\ j \in 1 .. Len(q) /\ q[i].due <= d
    BY <1>1
  <2>2. q[j].due <= q[i].due
    BY <1>1, <2>1 DEF QueueOK
  <2>3. q[j].due \in Nat /\ q[i].due \in Nat
    BY <1>1, <2>1
  <2> QED
    BY <1>1, <2>1, <2>2, <2>3
<1> HIDE DEF S
<1>5. IsFiniteSet(S) /\ c <= Len(q)
  BY <1>2, <1>3, FS_Subset
<1>6. c \in Nat
  BY <1>5, FS_CardinalityType
<1>7. \A i \in S : i \in 1 .. c
  <2> SUFFICES ASSUME NEW i \in S
               PROVE  i \in 1 .. c
    OBVIOUS
  <2>1. i \in Nat /\ i >= 1
    BY <1>1, <1>3
  <2>2. 1 .. i \in SUBSET S
    BY <1>4
  <2>3. Cardinality(1 .. i) <= c
    BY <1>5, <2>2, FS_Subset
  <2>4. Cardinality(1 .. i) = i
    BY <2>1, FS_Interval
  <2> QED
    BY <1>6, <2>1, <2>3, <2>4
<1>8. S = 1 .. c
  <2>1. IsFiniteSet(1 .. c) /\ Cardinality(1 .. c) = c
    BY <1>6, FS_Interval
  <2> QED
    BY <2>1, <1>7, FS_Subset
<1> QED
  BY <1>1, <1>5, <1>6, <1>8 DEF S

\* PutOff moves a record behind those due no later, and drops none.
LEMMA PutOffQueue ==
  ASSUME NEW K, NEW q, QueueOK(q, K), NEW k, NEW d \in 0 .. Long
  PROVE  /\ QueueOK(PutOff(q, k, d), K)
         /\ Keys(PutOff(q, k, d)) = Keys(q)
         /\ Due(q) \ {k} \subseteq Due(PutOff(q, k, d))
<1>1. CASE k \notin Keys(q)
  BY <1>1 DEF PutOff
<1>2. CASE k \in Keys(q)
  <2> DEFINE r == Without(q, k)
             c == Cardinality({i \in DOMAIN r : r[i].due <= d})
             e == [key |-> k, due |-> d]
             m == InsertAt(r, c + 1, e)
             to(i) == IF i <= c THEN i ELSE i - 1
  <2>1. PutOff(q, k, d) = m
    BY <1>2 DEF PutOff
  <2>2. QueueOK(r, K) /\ Keys(r) = Keys(q) \ {k} /\ Due(q) \ {k} \subseteq Due(r)
    BY WithoutQueue
  <2>3. d \in Nat /\ d <= Long
    BY Bounds
  <2> HIDE DEF r
  <2>4. c \in 0 .. Len(r) /\ {i \in DOMAIN r : r[i].due <= d} = 1 .. c
    BY <2>2, <2>3, EarlierInFront
  <2>5. /\ Len(r) \in Nat /\ r \in Seq(Record(K)) /\ DOMAIN r = 1 .. Len(r)
        /\ \A i \in 1 .. Len(r) : r[i].due \in Nat
    <3>1. /\ Len(r) \in Nat /\ DOMAIN r = 1 .. Len(r)
          /\ \A i \in 1 .. Len(r) : r[i].due \in 0 .. Long
      BY <2>2, QueueShape
    <3>2. r \in Seq(Record(K))
      BY <2>2 DEF QueueOK
    <3> QED
      BY <3>1, <3>2, Bounds
  <2> HIDE DEF c
  <2>6. \A i \in 1 .. Len(r) : r[i].due <= d <=> i <= c
    <3> SUFFICES ASSUME NEW i \in 1 .. Len(r)
                 PROVE  r[i].due <= d <=> i <= c
      OBVIOUS
    <3>1. r[i].due <= d <=> i \in 1 .. c
      BY <2>4, <2>5
    <3> QED
      BY <3>1, <2>4, <2>5
  <2>7. k \in K
    BY <1>2, KeysByPlace
  <2>8. e \in Record(K) /\ e.key = k /\ e.due = d
    BY <2>7 DEF Record
  <2> HIDE DEF e
  <2>9. c + 1 \in 1 .. Len(r) + 1
    BY <2>4, <2>5
  <2>10. /\ m \in Seq(Record(K)) /\ Len(m) = Len(r) + 1
         /\ \A i \in 1 .. Len(r) + 1 :
              m[i] = IF i < c + 1 THEN r[i] ELSE IF i = c + 1 THEN e ELSE r[i - 1]
    <3>1. r \in Seq(Record(K)) /\ e \in Record(K)
      BY <2>5, <2>8
    <3>2. \A p \in 1 .. Len(r) + 1 :
            /\ InsertAt(r, p, e) \in Seq(Record(K))
            /\ Len(InsertAt(r, p, e)) = Len(r) + 1
            /\ \A i \in 1 .. Len(r) + 1 : InsertAt(r, p, e)[i] =
                 IF i < p THEN r[i] ELSE IF i = p THEN e ELSE r[i - 1]
      BY <3>1, InsertedEntry
    <3> QED
      BY <2>9, <3>2
  <2> HIDE DEF m
  <2>11. m[c + 1] = e /\ c + 1 \in 1 .. Len(m)
    BY <2>4, <2>5, <2>9, <2>10
  <2>12. \A i \in 1 .. Len(m) : i # c + 1 => to(i) \in 1 .. Len(r) /\ m[i] = r[to(i)]
    BY <2>4, <2>5, <2>10
  <2>13. \A i, j \in 1 .. Len(m) : i # c + 1 /\ j # c + 1 =>
           (i < j => to(i) < to(j)) /\ (to(i) = to(j) => i = j)
    BY <2>4, <2>5, <2>10
  <2>14. \A i \in 1 .. Len(m) : i # c + 1 => (to(i) <= c <=> i < c + 1)
    BY <2>4, <2>5, <2>10
  <2>15. \A j \in 1 .. Len(r) : \E i \in 1 .. Len(m) : i # c + 1 /\ to(i) = j
    <3> SUFFICES ASSUME NEW j \in 1 .. Len(r)
                 PROVE  \E i \in 1 .. Len(m) : i # c + 1 /\ to(i) = j
      OBVIOUS
    <3>1. CASE j <= c
      <4>1. j \in 1 .. Len(m) /\ j # c + 1 /\ to(j) = j
        BY <3>1, <2>4, <2>5, <2>10
      <4> QED
        BY <4>1
    <3>2. CASE ~(j <= c)
      <4>1. j + 1 \in 1 .. Len(m) /\ j + 1 # c + 1 /\ to(j + 1) = j
        BY <3>2, <2>4, <2>5, <2>10
      <4> QED
        BY <4>1
    <3> QED
      BY <3>1, <3>2
  <2> HIDE DEF to
  <2>16. \A i \in 1 .. Len(r) : r[i].key # k
    <3>1. Keys(r) = {r[i].key : i \in 1 .. Len(r)}
      BY <2>2, KeysByPlace
    <3> QED
      BY <2>2, <3>1
  <2>17. \A i, j \in 1 .. Len(m) : m[i].key = m[j].key => i = j
    <3> SUFFICES ASSUME NEW i \in 1 .. Len(m), NEW j \in 1 .. Len(m), m[i].key = m[j].key
                 PROVE  i = j
      OBVIOUS
    <3>1. CASE i = c + 1
      BY <3>1, <2>8, <2>11, <2>12, <2>16
    <3>2. CASE j = c + 1
      BY <3>2, <2>8, <2>11, <2>12, <2>16
    <3>3. CASE i # c + 1 /\ j # c + 1
      <4>1. to(i) = to(j)
        BY <3>3, <2>2, <2>12 DEF QueueOK
      <4> QED
        BY <3>3, <4>1, <2>13
    <3> QED
      BY <3>1, <3>2, <3>3
  <2>18. \A i, j \in 1 .. Len(m) : i < j => m[i].due <= m[j].due
    <3> SUFFICES ASSUME NEW i \in 1 .. Len(m), NEW j \in 1 .. Len(m), i < j
                 PROVE  m[i].due <= m[j].due
      OBVIOUS
    <3>1. CASE i = c + 1
      <4>1. j # c + 1 /\ to(j) \in 1 .. Len(r) /\ ~(to(j) <= c) /\ m[j] = r[to(j)]
        BY <3>1, <2>4, <2>5, <2>10, <2>12, <2>14
      <4>2. ~(r[to(j)].due <= d) /\ r[to(j)].due \in Nat
        BY <4>1, <2>5, <2>6
      <4> QED
        BY <3>1, <4>1, <4>2, <2>3, <2>8, <2>11
    <3>2. CASE j = c + 1
      <4>1. i # c + 1 /\ to(i) \in 1 .. Len(r) /\ to(i) <= c /\ m[i] = r[to(i)]
        BY <3>2, <2>4, <2>5, <2>10, <2>12, <2>14
      <4> QED
        BY <3>2, <4>1, <2>6, <2>8, <2>11
    <3>3. CASE i # c + 1 /\ j # c + 1
      BY <3>3, <2>2, <2>12, <2>13 DEF QueueOK
    <3> QED
      BY <3>1, <3>2, <3>3
  <2>19. QueueOK(m, K)
    BY <2>10, <2>17, <2>18 DEF QueueOK
  <2>20. Keys(m) = Keys(q)
    <3>1. Keys(m) = {m[i].key : i \in 1 .. Len(m)}
      BY <2>19, KeysByPlace
    <3>2. Keys(r) = {r[i].key : i \in 1 .. Len(r)}
      BY <2>2, KeysByPlace
    <3>3. \A i \in 1 .. Len(m) : m[i].key \in Keys(r) \cup {k}
      BY <2>8, <2>11, <2>12, <3>2
    <3>4. \A j \in 1 .. Len(r) : r[j].key \in Keys(m)
      BY <2>12, <2>15, <3>1
    <3>5. k \in Keys(m)
      BY <2>8, <2>11, <3>1
    <3>6. Keys(r) \subseteq Keys(m) /\ Keys(m) \subseteq Keys(r) \cup {k}
      BY <3>1, <3>2, <3>3, <3>4
    <3> QED
      BY <1>2, <2>2, <3>5, <3>6
  <2>21. Due(r) \subseteq Due(m)
    <3>1. Due(m) = {m[i].key : i \in {j \in 1 .. Len(m) : m[j].due = 0}}
      BY <2>19, KeysByPlace
    <3>2. Due(r) = {r[i].key : i \in {j \in 1 .. Len(r) : r[j].due = 0}}
      BY <2>2, KeysByPlace
    <3>3. \A j \in 1 .. Len(r) : \E i \in 1 .. Len(m) : m[i] = r[j]
      BY <2>12, <2>15
    <3> QED
      BY <3>1, <3>2, <3>3
  <2> QED
    BY <2>1, <2>2, <2>19, <2>20, <2>21
<1> QED
  BY <1>1, <1>2

\* A tick brings every record nearer and keeps their order.
LEMMA SoonerQueue ==
  ASSUME NEW K, NEW q, QueueOK(q, K)
  PROVE  /\ QueueOK(Sooner(q), K)
         /\ Keys(Sooner(q)) = Keys(q)
         /\ Due(q) \subseteq Due(Sooner(q))
<1> DEFINE s == Sooner(q)
           near(x) == IF x > 0 THEN x - 1 ELSE 0
<1>1. /\ Len(q) \in Nat /\ DOMAIN q = 1 .. Len(q) /\ q \in Seq(Record(K))
      /\ \A i \in 1 .. Len(q) : /\ q[i] \in Record(K)
                                /\ q[i].key \in K /\ q[i].due \in 0 .. Long
  BY QueueShape DEF QueueOK
<1>2. \A i \in 1 .. Len(q) : /\ s[i] \in Record(K)
                             /\ s[i].key = q[i].key /\ s[i].due = near(q[i].due)
  BY <1>1, Bounds DEF Sooner, Record
<1>3. s = [i \in 1 .. Len(q) |-> s[i]]
  BY <1>1 DEF Sooner
<1> HIDE DEF s
<1>4. s \in [1 .. Len(q) -> Record(K)]
  BY <1>2, <1>3
<1>5. s \in Seq(Record(K))
  BY <1>1, <1>4, SeqDef
<1>6. Len(s) = Len(q)
  BY <1>1, <1>4, <1>5, LenProperties
<1>7. \A i, j \in 1 .. Len(s) : s[i].key = s[j].key => i = j
  BY <1>2, <1>6 DEF QueueOK
<1>8. \A i, j \in 1 .. Len(s) : i < j => s[i].due <= s[j].due
  <2> SUFFICES ASSUME NEW i \in 1 .. Len(s), NEW j \in 1 .. Len(s), i < j
               PROVE  s[i].due <= s[j].due
    OBVIOUS
  <2>1. q[i].due <= q[j].due
    BY <1>6 DEF QueueOK
  <2>2. q[i].due \in Nat /\ q[j].due \in Nat
    BY <1>1, <1>6, Bounds
  <2> QED
    BY <1>2, <1>6, <2>1, <2>2
<1>9. QueueOK(s, K)
  BY <1>5, <1>7, <1>8 DEF QueueOK
<1>10. Keys(s) = Keys(q)
  <2>1. Keys(s) = {s[i].key : i \in 1 .. Len(s)}
    BY <1>9, KeysByPlace
  <2>2. Keys(q) = {q[i].key : i \in 1 .. Len(q)}
    BY KeysByPlace
  <2> QED
    BY <1>2, <1>6, <2>1, <2>2
<1>11. Due(q) \subseteq Due(s)
  <2>1. Due(s) = {s[i].key : i \in {j \in 1 .. Len(s) : s[j].due = 0}}
    BY <1>9, KeysByPlace
  <2>2. Due(q) = {q[i].key : i \in {j \in 1 .. Len(q) : q[j].due = 0}}
    BY KeysByPlace
  <2>3. \A i \in 1 .. Len(q) : q[i].due = 0 => s[i].due = 0
    BY <1>2
  <2> QED
    BY <1>2, <1>6, <2>1, <2>2, <2>3
<1> QED
  BY <1>9, <1>10, <1>11 DEF s

\* A query that holds nothing, and one of keys that are all due.
LEMMA FirstQueues ==
  ASSUME NEW K, IsFiniteSet(K), NEW k \in SetToSeqs(K)
  PROVE  QueueOK(<<>>, K) /\ QueueOK(AllDue(k), K)
<1> DEFINE a == AllDue(k)
           n == Cardinality(K)
<1>1. n \in Nat
  BY FS_CardinalityType
<1>2. k \in [1 .. n -> K] /\ \A i, j \in 1 .. n : i # j => k[i] # k[j]
  BY DEF SetToSeqs
<1> HIDE DEF n
<1>3. \A i \in 1 .. n : a[i] \in Record(K) /\ a[i].key = k[i] /\ a[i].due = 0
  BY <1>2, Bounds DEF AllDue, Record
<1>4. a = [i \in 1 .. n |-> a[i]]
  BY <1>2 DEF AllDue
<1> HIDE DEF a
<1>5. a \in [1 .. n -> Record(K)]
  BY <1>3, <1>4
<1>6. a \in Seq(Record(K))
  BY <1>1, <1>5, SeqDef
<1>7. Len(a) = n
  BY <1>1, <1>5, <1>6, LenProperties
<1>8. QueueOK(a, K)
  BY <1>2, <1>3, <1>6, <1>7 DEF QueueOK
<1>9. QueueOK(<<>>, K)
  BY EmptySeq DEF QueueOK
<1> QED
  BY <1>8, <1>9 DEF a

-----------------------------------------------------------------------------
(***************************************************************************)
(* Pages: what Limit lets through, in the order of the query.              *)
(***************************************************************************)
Distinct(s) == \A i, j \in 1 .. Len(s) : s[i] = s[j] => i = j

\* Numbers that satisfy a condition have a least one.
LEMMA LeastNumber ==
  ASSUME NEW T \in SUBSET Nat, T # {}
  PROVE  \E x \in T : \A y \in T : x <= y
<1>1. PICK less : less = OpToRel(<, Nat)
  OBVIOUS
<1>2. IsWellFoundedOn(less, Nat)
  BY <1>1, NatLessThanWellFounded
<1>3. PICK x \in T : \A y \in T : ~(<<y, x>> \in less)
  BY <1>2, WFMin
<1>4. \A m, k \in Nat : m < k => <<m, k>> \in less
  BY <1>1 DEF OpToRel
<1>5. \A y \in T : y \in Nat /\ x \in Nat /\ ~(y < x)
  BY <1>3, <1>4
<1> QED
  BY <1>5

\* A page holds due keys of the query among those asked for, none of them twice; and
\* one that is shorter than the limit holds them all.
LEMMA PageOfQuery ==
  ASSUME NEW K, IsFiniteSet(K), NEW q, QueueOK(q, K), NEW keys, NEW n \in Nat,
         NEW page \in Pages(q, keys, n)
  PROVE  /\ page \in Seq(K) /\ Distinct(page)
         /\ ToSet(page) \subseteq Due(q) \cap keys
         /\ Len(page) <= n
         /\ Len(page) < n => ToSet(page) = Due(q) \cap keys
<1> DEFINE due == Due(q) \cap keys
           at(k) == Place(q, k)
           upto(k) == {l \in due : at(l) <= at(k)}
           S == {k \in due : Cardinality(upto(k)) <= n}
           c == Cardinality(S)
<1>1. due \subseteq K /\ due \subseteq Keys(q)
  BY KeysByPlace
<1>2. \A k \in due : at(k) \in 1 .. Len(q) /\ q[at(k)].key = k
  BY <1>1, PlaceOfKey
<1>3. \A k \in due : at(k) \in Nat
  BY <1>2
<1>4. \A k, l \in due : at(k) = at(l) => k = l
  BY <1>2
<1>5. /\ page \in SetToSeqs(S)
      /\ \A i, j \in DOMAIN page : i < j => at(page[i]) < at(page[j])
  BY DEF Pages
<1> HIDE DEF due, at
<1>6. IsFiniteSet(due)
  BY <1>1, FS_Subset
<1>7. \A k : upto(k) \subseteq due /\ \A l \in due : l \in upto(k) <=> at(l) <= at(k)
  OBVIOUS
<1>8. S \subseteq due /\ \A k \in due : k \in S <=> Cardinality(upto(k)) <= n
  OBVIOUS
<1> HIDE DEF upto
<1>9. \A k : IsFiniteSet(upto(k)) /\ Cardinality(upto(k)) \in Nat
  BY <1>6, <1>7, FS_Subset, FS_CardinalityType
<1> HIDE DEF S
<1>10. IsFiniteSet(S) /\ c \in Nat
  BY <1>6, <1>8, FS_Subset, FS_CardinalityType
<1>11. page \in [1 .. c -> S] /\ \A i, j \in 1 .. c : i # j => page[i] # page[j]
  BY <1>5 DEF SetToSeqs
<1> HIDE DEF c
<1>12. /\ page \in Seq(S) /\ Len(page) = c /\ DOMAIN page = 1 .. c
  <2>1. page \in Seq(S) /\ DOMAIN page = 1 .. c
    BY <1>10, <1>11, SeqDef
  <2> QED
    BY <1>10, <2>1, LenProperties
<1>13. Distinct(page)
  BY <1>11, <1>12 DEF Distinct
<1>14. ToSet(page) = S
  <2>1. IsFiniteSet(1 .. c) /\ Cardinality(1 .. c) = c
    <3>1. /\ IsFiniteSet(1 .. c)
          /\ Cardinality(1 .. c) = IF 1 > c THEN 0 ELSE c - 1 + 1
      BY <1>10, FS_Interval
    <3> QED
      BY <1>10, <3>1
  <2>2. page \in Injection(1 .. c, S)
    BY <1>11 DEF Injection, IsInjective
  <2>3. Cardinality(S) = c
    BY DEF c
  <2>4. page \in Surjection(1 .. c, S)
    BY <1>10, <2>1, <2>2, <2>3, FS_Injection
  <2> QED
    BY <1>11, <2>4 DEF Surjection, ToSet
<1>15. c <= n
  <2>1. CASE c = 0
    BY <2>1
  <2>2. CASE c # 0
    <3> DEFINE last == page[c]
    <3>1. c \in 1 .. c /\ last \in S
      BY <2>2, <1>10, <1>11
    <3>2. \A i \in 1 .. c : i < c \/ i = c
      BY <1>10
    <3>3. \A i \in 1 .. c : at(page[i]) <= at(last)
      <4> SUFFICES ASSUME NEW i \in 1 .. c
                   PROVE  at(page[i]) <= at(last)
        OBVIOUS
      <4>1. at(page[i]) \in Nat /\ at(last) \in Nat
        BY <1>3, <1>8, <1>11, <3>1
      <4>2. i < c => at(page[i]) < at(last)
        BY <1>5, <1>12, <3>1
      <4> QED
        BY <3>2, <4>1, <4>2
    <3>4. \A k \in S : k \in upto(last)
      <4>1. \A k \in S : \E i \in 1 .. c : page[i] = k
        BY <1>12, <1>14 DEF ToSet
      <4> QED
        BY <1>7, <1>8, <3>3, <4>1
    <3> HIDE DEF last
    <3>5. S \in SUBSET upto(last)
      BY <3>4
    <3>6. Cardinality(S) <= Cardinality(upto(last))
      BY <1>9, <3>5, FS_Subset
    <3>7. Cardinality(upto(last)) <= n
      BY <1>8, <3>1
    <3>8. Cardinality(upto(last)) \in Nat
      BY <1>9
    <3> QED
      BY <1>10, <3>6, <3>7, <3>8 DEF c
  <2> QED
    BY <2>1, <2>2
<1>16. ASSUME c < n
       PROVE  due \subseteq S
  <2> DEFINE T == {at(k) : k \in due \ S}
  <2> SUFFICES ASSUME due \ S # {}
               PROVE  FALSE
    OBVIOUS
  <2>1. T \in SUBSET Nat /\ T # {}
    BY <1>3
  <2>2. PICK x \in T : \A y \in T : x <= y
    BY <2>1, LeastNumber
  <2>3. PICK k \in due \ S : x = at(k)
    BY <2>2
  <2>4. \A l \in due \ S : at(k) <= at(l)
    BY <2>2, <2>3
  <2> HIDE DEF T
  <2>5. upto(k) \in SUBSET (S \cup {k})
    <3> SUFFICES ASSUME NEW l \in due, l \in upto(k), l \notin S
                 PROVE  l = k
      BY <1>7
    <3>1. at(l) <= at(k) /\ at(k) <= at(l)
      BY <1>7, <2>4
    <3>2. at(l) = at(k)
      BY <1>3, <3>1
    <3> QED
      BY <1>4, <3>2
  <2>6. IsFiniteSet(S \cup {k}) /\ Cardinality(S \cup {k}) = c + 1
    BY <1>10, <2>3, FS_AddElement DEF c
  <2>7. Cardinality(upto(k)) <= c + 1
    BY <2>5, <2>6, FS_Subset
  <2>8. Cardinality(upto(k)) <= n
    BY <1>9, <1>10, <1>16, <2>7
  <2> QED
    BY <1>8, <2>3, <2>8
<1>17. page \in Seq(K)
  BY <1>1, <1>8, <1>12, SeqMonotonic
<1> QED
  BY <1>8, <1>12, <1>13, <1>14, <1>15, <1>16, <1>17 DEF due

-----------------------------------------------------------------------------
(***************************************************************************)
(* The inductive invariant: the queries have the form their pages rely on, *)
(* a page holds keys that are still in its query, rows a sweep has yet to  *)
(* deal with stay due, and a walk has passed skipped jobs only.            *)
(***************************************************************************)
Statuses == [VMs -> {"up", "stopped", "gone"}]

SweepStates ==
  [pc : {"idle", "list", "reclaim", "release", "page", "row"},
   zone : 0 .. Len(Zones), listed : SUBSET VMs, vm : VMs \cup {NoVM},
   deleted : 0 .. MaxSweepDeletes, failed : BOOLEAN, due : SUBSET VMs,
   page : Seq(VMs), full : BOOLEAN, pages : 0 .. MaxRunnerPages]

WalkStates ==
  [pc : {"idle", "read", "job"}, before : SUBSET Skipped, page : Seq(Jobs),
   full : BOOLEAN, passed : SUBSET Skipped]

SweepOK(s, status, q) ==
  /\ s \in SweepStates
  /\ s.pc \in {"list", "reclaim", "release"} => s.zone \in 1 .. Len(Zones)
  /\ s.pc = "release" => s.vm \in VMs /\ status[s.vm] = "gone"
  /\ s.pc # "row" => s.page = <<>>
  /\ Distinct(s.page) /\ ToSet(s.page) \subseteq Keys(q)
  /\ s.due \cap Keys(q) \subseteq Due(q)

WalkOK(w, q) ==
  /\ w \in WalkStates
  /\ Distinct(w.page) /\ ToSet(w.page) \subseteq Keys(q)

MaintenanceInv ==
  /\ vm \in Statuses
  /\ QueueOK(rows, VMs) /\ QueueOK(jobs, Jobs)
  /\ SweepOK(sweep, vm, rows) /\ WalkOK(walk, jobs)
  /\ faults \in 0 .. MaxFaults

\* A page that is empty.
LEMMA EmptyPage ==
  /\ \A S : <<>> \in Seq(S)
  /\ Len(<<>>) = 0 /\ ToSet(<<>>) = {} /\ Distinct(<<>>)
<1>1. Len(<<>>) = 0 /\ \A S : <<>> \in Seq(S)
  BY EmptySeq
<1>2. DOMAIN <<>> = {}
  OBVIOUS
<1> QED
  BY <1>1, <1>2 DEF ToSet, Distinct

\* A page without its first element.
LEMMA PageTail ==
  ASSUME NEW S, NEW page \in Seq(S), page # <<>>, Distinct(page)
  PROVE  /\ Head(page) \in ToSet(page) /\ Head(page) \in S
         /\ Tail(page) \in Seq(S) /\ Distinct(Tail(page))
         /\ ToSet(Tail(page)) \subseteq ToSet(page) \ {Head(page)}
<1>1. /\ Len(page) \in Nat \ {0} /\ DOMAIN page = 1 .. Len(page)
  BY EmptySeq, LenProperties
<1>2. /\ Tail(page) \in Seq(S) /\ Len(Tail(page)) = Len(page) - 1
      /\ \A i \in 1 .. Len(Tail(page)) : Tail(page)[i] = page[i + 1]
      /\ Head(page) \in S
  BY HeadTailProperties
<1>3. Head(page) = page[1]
  BY <1>1 DEF Head
<1>4. DOMAIN Tail(page) = 1 .. Len(Tail(page))
  BY <1>2, LenProperties
<1>5. \A i \in 1 .. Len(Tail(page)) : i + 1 \in 1 .. Len(page) /\ i + 1 # 1
  BY <1>1, <1>2
<1>6. Distinct(Tail(page))
  <2> SUFFICES ASSUME NEW i \in 1 .. Len(Tail(page)), NEW j \in 1 .. Len(Tail(page)),
                      Tail(page)[i] = Tail(page)[j]
               PROVE  i = j
    BY DEF Distinct
  <2>1. i + 1 = j + 1
    BY <1>2, <1>5 DEF Distinct
  <2> QED
    BY <2>1
<1>7. 1 \in 1 .. Len(page)
  BY <1>1
<1>8. Head(page) \in ToSet(page)
  BY <1>1, <1>3, <1>7 DEF ToSet
<1>9. \A i \in 1 .. Len(Tail(page)) : Tail(page)[i] \in ToSet(page) \ {Head(page)}
  BY <1>1, <1>2, <1>3, <1>5, <1>7 DEF ToSet, Distinct
<1>10. ToSet(Tail(page)) \subseteq ToSet(page) \ {Head(page)}
  BY <1>4, <1>9 DEF ToSet
<1> QED
  BY <1>2, <1>6, <1>8, <1>10

\* The state between two sweeps, and the one in which the rows' turn begins.
LEMMA BetweenSweeps ==
  ASSUME NEW status, NEW q, QueueOK(q, VMs)
  PROVE  /\ SweepOK(NoSweep, status, q)
         /\ SweepOK([NoSweep EXCEPT !.pc = "page", !.due = Due(q)], status, q)
<1> DEFINE rowsTurn == [NoSweep EXCEPT !.pc = "page", !.due = Due(q)]
<1>1. 0 \in 0 .. Len(Zones) /\ 0 \in 0 .. MaxSweepDeletes /\ 0 \in 0 .. MaxRunnerPages
  BY Bounds, MaintenanceAssumption, LenProperties
<1>2. NoSweep \in SweepStates
  BY <1>1, EmptyPage DEF NoSweep, SweepStates
<1>3. Due(q) \in SUBSET VMs
  BY KeysByPlace
<1>4. rowsTurn \in SweepStates
  BY <1>2, <1>3 DEF SweepStates
<1>5. /\ NoSweep.pc = "idle" /\ NoSweep.page = <<>> /\ NoSweep.due = {}
      /\ rowsTurn.pc = "page" /\ rowsTurn.page = <<>> /\ rowsTurn.due = Due(q)
  BY DEF NoSweep
<1> HIDE DEF rowsTurn
<1>6. SweepOK(NoSweep, status, q)
  BY <1>2, <1>5, EmptyPage DEF SweepOK
<1>7. SweepOK(rowsTurn, status, q)
  BY <1>4, <1>5, EmptyPage DEF SweepOK
<1> QED
  BY <1>6, <1>7 DEF rowsTurn

\* A walk that starts a page, behind skipped jobs.
LEMMA BetweenPages ==
  ASSUME NEW q, NEW before \in SUBSET Skipped
  PROVE  /\ WalkOK(NoWalk, q)
         /\ WalkOK([NoWalk EXCEPT !.pc = "read"], q)
         /\ WalkOK([NoWalk EXCEPT !.pc = "read", !.before = before], q)
<1>1. NoWalk \in WalkStates /\ NoWalk.page = <<>>
  BY EmptyPage DEF NoWalk, WalkStates
<1>2. \A w \in {NoWalk, [NoWalk EXCEPT !.pc = "read"],
                [NoWalk EXCEPT !.pc = "read", !.before = before]} :
        w \in WalkStates /\ w.page = <<>>
  BY <1>1 DEF WalkStates
<1>3. \A w : w \in WalkStates /\ w.page = <<>> => WalkOK(w, q)
  BY EmptyPage DEF WalkOK
<1> QED
  BY <1>2, <1>3

\* The invariant holds at first.
LEMMA MaintenanceInit ==
  ASSUME Init
  PROVE  MaintenanceInv
<1>1. IsFiniteSet(VMs) /\ IsFiniteSet(Jobs)
  BY MaintenanceAssumption
<1>2. QueueOK(rows, VMs) /\ QueueOK(jobs, Jobs)
  <2>1. \A s \in SetToSeqs(VMs) : QueueOK(AllDue(s), VMs)
    BY <1>1, FirstQueues
  <2>2. \A s \in SetToSeqs(Jobs) : QueueOK(AllDue(s), Jobs)
    BY <1>1, FirstQueues
  <2>3. \A K : QueueOK(<<>>, K)
    BY EmptySeq DEF QueueOK
  <2> QED
    BY <2>1, <2>2, <2>3 DEF Init
<1>3. vm \in Statuses
  BY DEF Init, Statuses
<1>4. SweepOK(sweep, vm, rows) /\ WalkOK(walk, jobs)
  BY <1>2, BetweenSweeps, BetweenPages DEF Init
<1>5. faults \in 0 .. MaxFaults
  BY Bounds DEF Init
<1> QED
  BY <1>2, <1>3, <1>4, <1>5 DEF MaintenanceInv

\* The parts of the invariant, and the ranges of the sweep's fields.
LEMMA SweepFields ==
  ASSUME MaintenanceInv
  PROVE  /\ sweep \in SweepStates /\ sweep.listed \subseteq VMs
         /\ sweep.zone \in 0 .. Len(Zones) /\ sweep.deleted \in 0 .. MaxSweepDeletes
         /\ sweep.pages \in 0 .. MaxRunnerPages /\ sweep.page \in Seq(VMs)
         /\ sweep.due \subseteq VMs
BY DEF MaintenanceInv, SweepOK, SweepStates

\* Only the sweep has changed, and the rest of the invariant stands.
LEMMA SweepOnly ==
  ASSUME MaintenanceInv, UNCHANGED <<vm, rows, jobs, walk>>, faults' \in 0 .. MaxFaults,
         SweepOK(sweep', vm, rows)
  PROVE  MaintenanceInv'
BY DEF MaintenanceInv

\* The count of the failures stays within its bound.
LEMMA FaultCounted ==
  ASSUME MaintenanceInv, Fault \/ UNCHANGED faults
  PROVE  faults' \in 0 .. MaxFaults
BY Bounds DEF MaintenanceInv, Fault

\* A sweep starts with the first zone: there is one if there are VMs at all.
LEMMA StartSweepStep ==
  ASSUME MaintenanceInv, StartSweep, UNCHANGED <<jobs, walk>>
  PROVE  MaintenanceInv'
<1>1. QueueOK(rows, VMs)
  BY DEF MaintenanceInv
<1>2. VMs # {}
  <2>1. CASE rows # <<>>
    <3>1. Len(rows) \in Nat /\ rows \in Seq(Record(VMs))
      BY <1>1, QueueShape DEF QueueOK
    <3>2. Len(rows) >= 1
      BY <2>1, <3>1, EmptySeq
    <3>3. rows[1].key \in VMs
      BY <1>1, <3>1, <3>2, QueueShape
    <3> QED
      BY <3>3
  <2> QED
    BY <2>1 DEF StartSweep
<1>3. Zones \in Seq(ToSet(Zones)) /\ ToSet(Zones) # {}
  BY <1>2, MaintenanceAssumption
<1>4. 1 \in 1 .. Len(Zones)
  <2>1. Len(Zones) \in Nat /\ DOMAIN Zones = 1 .. Len(Zones)
    BY <1>3, LenProperties
  <2>2. Len(Zones) # 0
    BY <1>3, <2>1 DEF ToSet
  <2> QED
    BY <2>1, <2>2
<1>5. SweepOK(NoSweep, vm, rows)
  BY <1>1, BetweenSweeps
<1> DEFINE s == [NoSweep EXCEPT !.pc = "list", !.zone = 1]
<1>6. s \in SweepStates
  <2>1. 1 \in 0 .. Len(Zones)
    BY <1>3, <1>4, LenProperties
  <2>2. NoSweep \in SweepStates
    BY <1>5 DEF SweepOK
  <2> QED
    BY <2>1, <2>2 DEF SweepStates
<1>7. s.pc = "list" /\ s.zone = 1 /\ s.page = <<>> /\ s.due = {}
  BY DEF NoSweep
<1> HIDE DEF s
<1>8. SweepOK(s, vm, rows)
  BY <1>4, <1>6, <1>7, EmptyPage DEF SweepOK
<1>9. faults' \in 0 .. MaxFaults /\ sweep' = s /\ UNCHANGED <<vm, rows>>
  BY FaultCounted DEF StartSweep, s
<1> QED
  BY <1>8, <1>9, SweepOnly

\* The zones' end: the next zone, the rows' turn, or no more of this sweep.
LEMMA AfterZone ==
  ASSUME QueueOK(rows, VMs), NEW s \in SweepStates, s.zone \in 1 .. Len(Zones),
         s.page = <<>>, s.due \cap Keys(rows) \subseteq Due(rows)
  PROVE  SweepOK(EndZone(s), vm, rows) /\ SweepOK(EndZones(s), vm, rows)
<1>1. SweepOK(EndZones(s), vm, rows)
  BY BetweenSweeps DEF EndZones
<1>2. CASE s.zone < Len(Zones)
  <2> DEFINE t == [s EXCEPT !.pc = "list", !.zone = @ + 1]
  <2>1. Len(Zones) \in Nat
    BY MaintenanceAssumption, LenProperties
  <2>2. s.zone + 1 \in 1 .. Len(Zones) /\ s.zone + 1 \in 0 .. Len(Zones)
    BY <1>2, <2>1
  <2>3. t \in SweepStates
    BY <2>2 DEF SweepStates
  <2>4. t.pc = "list" /\ t.zone = s.zone + 1 /\ t.page = <<>> /\ t.due = s.due
    BY DEF SweepStates
  <2> HIDE DEF t
  <2>5. SweepOK(t, vm, rows)
    BY <2>2, <2>3, <2>4, EmptyPage DEF SweepOK
  <2>6. EndZone(s) = t
    BY <1>2 DEF EndZone, t
  <2> QED
    BY <1>1, <2>5, <2>6
<1>3. CASE ~(s.zone < Len(Zones))
  BY <1>1, <1>3 DEF EndZone
<1> QED
  BY <1>2, <1>3

\* A zone is listed, or its listing fails.
LEMMA ListStep ==
  ASSUME MaintenanceInv, ListZone \/ ListingFails, UNCHANGED <<jobs, walk>>
  PROVE  MaintenanceInv'
<1>1. SweepOK(sweep, vm, rows) /\ QueueOK(rows, VMs)
  BY DEF MaintenanceInv
<1>2. /\ sweep.pc = "list" /\ sweep \in SweepStates /\ sweep.zone \in 1 .. Len(Zones)
      /\ sweep.page = <<>> /\ sweep.due \cap Keys(rows) \subseteq Due(rows)
  BY <1>1 DEF SweepOK, ListZone, ListingFails
<1>3. CASE ListZone
  <2> DEFINE L == {v \in VMs : ZoneOf[v] = Zones[sweep.zone] /\ vm[v] = "stopped"}
             s == [sweep EXCEPT !.pc = "reclaim", !.listed = L]
  <2>1. L \in SUBSET VMs
    OBVIOUS
  <2> HIDE DEF L
  <2>2. s \in SweepStates
    BY <1>2, <2>1 DEF SweepStates
  <2>3. s.pc = "reclaim" /\ s.zone = sweep.zone /\ s.page = <<>> /\ s.due = sweep.due
    BY <1>2 DEF SweepStates
  <2>4. sweep' = s /\ faults' \in 0 .. MaxFaults /\ UNCHANGED <<vm, rows>>
    BY <1>3, FaultCounted DEF ListZone, L
  <2> HIDE DEF s
  <2>5. SweepOK(s, vm, rows)
    BY <1>2, <2>2, <2>3, EmptyPage DEF SweepOK
  <2> QED
    BY <2>4, <2>5, SweepOnly
<1>4. CASE ListingFails
  <2>1. Failed(sweep) \in SweepStates
    BY <1>2 DEF Failed, SweepStates
  <2>2. /\ Failed(sweep).zone = sweep.zone /\ Failed(sweep).page = <<>>
        /\ Failed(sweep).due = sweep.due
    BY <1>2 DEF Failed, SweepStates
  <2>3. SweepOK(EndZone(Failed(sweep)), vm, rows)
    BY <1>1, <1>2, <2>1, <2>2, AfterZone
  <2>4. /\ sweep' = EndZone(Failed(sweep)) /\ faults' \in 0 .. MaxFaults
        /\ UNCHANGED <<vm, rows>>
    BY <1>4, FaultCounted DEF ListingFails
  <2> QED
    BY <2>3, <2>4, SweepOnly
<1> QED
  BY <1>3, <1>4

\* A zone's VM is deleted, or is not.
LEMMA ReclaimStep ==
  ASSUME MaintenanceInv, Reclaim \/ ReclaimFails, UNCHANGED <<jobs, walk>>
  PROVE  MaintenanceInv'
<1>1. SweepOK(sweep, vm, rows) /\ QueueOK(rows, VMs) /\ vm \in Statuses
  BY DEF MaintenanceInv
<1>2. /\ sweep.pc = "reclaim" /\ sweep.deleted < MaxSweepDeletes
      /\ sweep \in SweepStates /\ sweep.zone \in 1 .. Len(Zones)
      /\ sweep.page = <<>> /\ sweep.due \cap Keys(rows) \subseteq Due(rows)
  BY <1>1 DEF SweepOK, Reclaim, ReclaimFails
<1>3. \A v \in sweep.listed : v \in VMs
  BY SweepFields
<1>4. faults' \in 0 .. MaxFaults
  BY FaultCounted DEF Reclaim, ReclaimFails
<1>5. ASSUME NEW v \in sweep.listed
      PROVE  SweepOK(NotDeleted([sweep EXCEPT !.listed = @ \ {v}]), vm, rows)
  <2> DEFINE s == [sweep EXCEPT !.listed = @ \ {v}, !.failed = TRUE]
  <2>1. NotDeleted([sweep EXCEPT !.listed = @ \ {v}]) = s
    BY <1>2 DEF NotDeleted, Failed, SweepStates
  <2>2. s \in SweepStates
    BY <1>2 DEF SweepStates
  <2>3. s.pc = "reclaim" /\ s.zone = sweep.zone /\ s.page = <<>> /\ s.due = sweep.due
    BY <1>2 DEF SweepStates
  <2> HIDE DEF s
  <2> QED
    BY <1>2, <2>1, <2>2, <2>3, EmptyPage DEF SweepOK
<1>6. ASSUME NEW v \in sweep.listed, UNCHANGED vm, UNCHANGED rows,
             sweep' = NotDeleted([sweep EXCEPT !.listed = @ \ {v}])
      PROVE  MaintenanceInv'
  BY <1>4, <1>5, <1>6, SweepOnly
<1>7. ASSUME NEW v \in sweep.listed, vm' = [vm EXCEPT ![v] = "gone"], UNCHANGED rows,
             sweep' = [[sweep EXCEPT !.listed = @ \ {v}]
                         EXCEPT !.pc = "release", !.vm = v, !.deleted = @ + 1]
      PROVE  MaintenanceInv'
  <2> DEFINE s == [sweep EXCEPT !.listed = @ \ {v}, !.pc = "release", !.vm = v,
                                !.deleted = @ + 1]
  <2>1. sweep' = s
    BY <1>2, <1>7 DEF SweepStates
  <2>2. v \in VMs /\ sweep.deleted + 1 \in 0 .. MaxSweepDeletes
    BY <1>2, <1>3, SweepFields, Bounds
  <2>3. s \in SweepStates
    BY <1>2, <2>2 DEF SweepStates
  <2>4. /\ s.pc = "release" /\ s.zone = sweep.zone /\ s.page = <<>>
        /\ s.due = sweep.due /\ s.vm = v
    BY <1>2 DEF SweepStates
  <2> HIDE DEF s
  <2>5. vm' \in Statuses /\ vm'[v] = "gone"
    BY <1>1, <1>7, <2>2 DEF Statuses
  <2>6. SweepOK(s, vm', rows)
    BY <1>2, <2>2, <2>3, <2>4, <2>5, EmptyPage DEF SweepOK
  <2>7. SweepOK(sweep', vm', rows')
    BY <1>7, <2>1, <2>6
  <2> QED
    BY <1>4, <1>7, <2>5, <2>7 DEF MaintenanceInv
<1>8. CASE Reclaim
  <2>1. PICK v \in sweep.listed :
          LET rest == [sweep EXCEPT !.listed = @ \ {v}] IN
          IF v \in Undeletable THEN sweep' = NotDeleted(rest) /\ UNCHANGED vm
          ELSE /\ vm' = [vm EXCEPT ![v] = "gone"]
               /\ sweep' = [rest EXCEPT !.pc = "release", !.vm = v, !.deleted = @ + 1]
    BY <1>8 DEF Reclaim
  <2>2. UNCHANGED rows
    BY <1>8 DEF Reclaim
  <2>3. CASE v \in Undeletable
    BY <1>6, <2>1, <2>2, <2>3
  <2>4. CASE v \notin Undeletable
    BY <1>7, <2>1, <2>2, <2>4
  <2> QED
    BY <2>3, <2>4
<1>9. CASE ReclaimFails
  BY <1>6, <1>9 DEF ReclaimFails
<1> QED
  BY <1>8, <1>9

\* A zone is left for the next one, or for the rows.
LEMMA LeaveZoneStep ==
  ASSUME MaintenanceInv, LeaveZone, UNCHANGED <<jobs, walk>>
  PROVE  MaintenanceInv'
<1>1. SweepOK(sweep, vm, rows) /\ QueueOK(rows, VMs)
  BY DEF MaintenanceInv
<1>2. /\ sweep \in SweepStates /\ sweep.zone \in 1 .. Len(Zones)
      /\ sweep.page = <<>> /\ sweep.due \cap Keys(rows) \subseteq Due(rows)
  BY <1>1 DEF SweepOK, LeaveZone
<1>3. SweepOK(EndZone(sweep), vm, rows) /\ SweepOK(EndZones(sweep), vm, rows)
  BY <1>1, <1>2, AfterZone
<1>4. sweep' \in {EndZone(sweep), EndZones(sweep)} /\ UNCHANGED <<vm, rows>>
  BY DEF LeaveZone
<1>5. faults' \in 0 .. MaxFaults
  BY FaultCounted DEF LeaveZone
<1> QED
  BY <1>3, <1>4, <1>5, SweepOnly

\* The row of a reclaimed VM is released, or stays for the next sweep.
LEMMA ReleaseStep ==
  ASSUME MaintenanceInv, ReleaseReclaimed, UNCHANGED <<jobs, walk>>
  PROVE  MaintenanceInv'
<1>1. SweepOK(sweep, vm, rows) /\ QueueOK(rows, VMs)
  BY DEF MaintenanceInv
<1>2. /\ sweep.pc = "release" /\ sweep \in SweepStates /\ sweep.zone \in 1 .. Len(Zones)
      /\ sweep.page = <<>> /\ sweep.due \cap Keys(rows) \subseteq Due(rows)
  BY <1>1 DEF SweepOK, ReleaseReclaimed
<1> DEFINE v == sweep.vm
           back == [sweep EXCEPT !.pc = "reclaim", !.vm = NoVM]
<1>3. back \in SweepStates /\ Failed(back) \in SweepStates
  BY <1>2 DEF SweepStates, Failed
<1>4. \A s \in {back, Failed(back)} :
        s.pc = "reclaim" /\ s.zone = sweep.zone /\ s.page = <<>> /\ s.due = sweep.due
  BY <1>2 DEF SweepStates, Failed
<1>5. sweep' \in {back, Failed(back)} /\ rows' \in {rows, Without(rows, v)} /\ vm' = vm
  BY DEF ReleaseReclaimed
<1>6. faults' \in 0 .. MaxFaults
  BY FaultCounted DEF ReleaseReclaimed
<1> HIDE DEF back
<1>7. \A s \in {back, Failed(back)} : SweepOK(s, vm, rows)
  BY <1>2, <1>3, <1>4, EmptyPage DEF SweepOK
<1>8. /\ QueueOK(Without(rows, v), VMs)
      /\ Keys(Without(rows, v)) = Keys(rows) \ {v}
      /\ Due(rows) \ {v} \subseteq Due(Without(rows, v))
  BY <1>1, WithoutQueue
<1> HIDE DEF v
<1>9. \A s \in {back, Failed(back)} : SweepOK(s, vm, Without(rows, v))
  BY <1>2, <1>3, <1>4, <1>8, EmptyPage DEF SweepOK
<1>10. SweepOK(sweep', vm', rows') /\ QueueOK(rows', VMs)
  BY <1>1, <1>5, <1>7, <1>8, <1>9
<1> QED
  BY <1>5, <1>6, <1>10 DEF MaintenanceInv

\* A page of rows is read, or the last page was.
LEMMA ReadRowsStep ==
  ASSUME MaintenanceInv, ReadRows, UNCHANGED <<jobs, walk>>
  PROVE  MaintenanceInv'
<1>1. SweepOK(sweep, vm, rows) /\ QueueOK(rows, VMs)
  BY DEF MaintenanceInv
<1>2. /\ sweep.pc = "page" /\ sweep \in SweepStates
      /\ sweep.due \cap Keys(rows) \subseteq Due(rows)
  BY <1>1 DEF SweepOK, ReadRows
<1>3. faults' \in 0 .. MaxFaults /\ UNCHANGED <<vm, rows>>
  BY FaultCounted DEF ReadRows
<1>4. CASE sweep' = NoSweep
  BY <1>1, <1>3, <1>4, BetweenSweeps, SweepOnly
<1>5. CASE sweep' # NoSweep
  <2>1. PICK page \in Pages(rows, sweep.due, RunnerPageSize) :
          sweep' = [sweep EXCEPT !.pc = "row", !.pages = @ + 1, !.page = page,
                                 !.full = Len(page) = RunnerPageSize]
    BY <1>5 DEF ReadRows
  <2>2. sweep.pages < MaxRunnerPages
    BY <1>5 DEF ReadRows
  <2>3. sweep.pages + 1 \in 0 .. MaxRunnerPages
    BY <2>2, SweepFields, Bounds
  <2>4. RunnerPageSize \in Nat /\ IsFiniteSet(VMs)
    BY MaintenanceAssumption
  <2>5. page \in Seq(VMs) /\ Distinct(page) /\ ToSet(page) \subseteq Due(rows)
    BY <1>1, <2>4, PageOfQuery
  <2>6. Due(rows) \subseteq Keys(rows)
    BY <1>1, KeysByPlace
  <2>7. (Len(page) = RunnerPageSize) \in BOOLEAN
    OBVIOUS
  <2>8. sweep' \in SweepStates
    BY <1>2, <2>1, <2>3, <2>5, <2>7 DEF SweepStates
  <2>9. sweep'.pc = "row" /\ sweep'.page = page /\ sweep'.due = sweep.due
    BY <1>2, <2>1 DEF SweepStates
  <2>10. SweepOK(sweep', vm, rows)
    BY <1>2, <2>5, <2>6, <2>8, <2>9 DEF SweepOK
  <2> QED
    BY <1>3, <2>10, SweepOnly
<1> QED
  BY <1>4, <1>5

\* The row at the head of the page is released, put off, or ends the sweep.
LEMMA DoRowStep ==
  ASSUME MaintenanceInv, DoRow, UNCHANGED <<jobs, walk>>
  PROVE  MaintenanceInv'
<1> DEFINE v == Head(sweep.page)
           s == [sweep EXCEPT !.page = Tail(@), !.due = @ \ {v}]
<1>1. SweepOK(sweep, vm, rows) /\ QueueOK(rows, VMs) /\ vm \in Statuses
  BY DEF MaintenanceInv
<1>2. /\ sweep.pc = "row" /\ sweep.page # <<>> /\ sweep \in SweepStates
      /\ Distinct(sweep.page) /\ ToSet(sweep.page) \subseteq Keys(rows)
      /\ sweep.due \cap Keys(rows) \subseteq Due(rows)
  BY <1>1 DEF SweepOK, DoRow
<1>3. /\ v \in VMs /\ v \in Keys(rows) /\ Tail(sweep.page) \in Seq(VMs)
      /\ Distinct(Tail(sweep.page)) /\ ToSet(Tail(sweep.page)) \subseteq Keys(rows) \ {v}
  BY <1>2, SweepFields, PageTail
<1>4. faults' \in 0 .. MaxFaults
  BY FaultCounted DEF DoRow
<1>5. PICK o \in RowOutcomes(v) :
        \/ o = "fail" /\ sweep' = NoSweep /\ UNCHANGED <<vm, rows>>
        \/ /\ o = "release" /\ sweep' = s
           /\ vm' = [vm EXCEPT ![v] = "gone"] /\ rows' = Without(rows, v)
        \/ /\ o \in {"soon", "long"} /\ sweep' = s
           /\ rows' = PutOff(rows, v, IF o = "soon" THEN Soon ELSE Long) /\ UNCHANGED vm
  BY DEF DoRow
<1>6. CASE sweep' = NoSweep /\ UNCHANGED <<vm, rows>>
  BY <1>1, <1>4, <1>6, BetweenSweeps, SweepOnly
<1>7. s \in SweepStates
  BY <1>2, <1>3 DEF SweepStates
<1>8. s.pc = "row" /\ s.page = Tail(sweep.page) /\ s.due = sweep.due \ {v}
  BY <1>2 DEF SweepStates
<1>9. vm' \in Statuses
  BY <1>1, <1>3, <1>5 DEF Statuses
<1> HIDE DEF s, v
<1>10. ASSUME sweep' = s, QueueOK(rows', VMs), Keys(rows) \ {v} \subseteq Keys(rows'),
              Keys(rows') \subseteq Keys(rows), Due(rows) \ {v} \subseteq Due(rows')
       PROVE  MaintenanceInv'
  <2>1. ToSet(s.page) \subseteq Keys(rows') /\ s.due \cap Keys(rows') \subseteq Due(rows')
    BY <1>2, <1>3, <1>8, <1>10
  <2>2. SweepOK(s, vm', rows')
    BY <1>3, <1>7, <1>8, <2>1 DEF SweepOK
  <2> QED
    BY <1>4, <1>9, <1>10, <2>2 DEF MaintenanceInv
<1>11. CASE sweep' = s /\ rows' = Without(rows, v)
  BY <1>1, <1>10, <1>11, WithoutQueue
<1>12. CASE /\ o \in {"soon", "long"} /\ sweep' = s
            /\ rows' = PutOff(rows, v, IF o = "soon" THEN Soon ELSE Long)
  <2>1. PICK d : d = IF o = "soon" THEN Soon ELSE Long
    OBVIOUS
  <2>2. d \in 0 .. Long /\ rows' = PutOff(rows, v, d)
    BY <1>12, <2>1, Bounds
  <2> QED
    BY <1>1, <1>10, <1>12, <2>2, PutOffQueue
<1> QED
  BY <1>5, <1>6, <1>11, <1>12

\* The page is done with, or the sweep ends where it is.
LEMMA EndSweepStep ==
  ASSUME MaintenanceInv, EndPage \/ SweepDies, UNCHANGED <<jobs, walk>>
  PROVE  MaintenanceInv'
<1>1. SweepOK(sweep, vm, rows) /\ QueueOK(rows, VMs)
  BY DEF MaintenanceInv
<1>2. faults' \in 0 .. MaxFaults /\ UNCHANGED <<vm, rows>>
  BY FaultCounted DEF EndPage, SweepDies
<1>3. CASE sweep' = NoSweep
  BY <1>1, <1>2, <1>3, BetweenSweeps, SweepOnly
<1>4. CASE sweep' # NoSweep
  <2>1. /\ sweep.page = <<>> /\ sweep \in SweepStates /\ sweep' = [sweep EXCEPT !.pc = "page"]
        /\ sweep.due \cap Keys(rows) \subseteq Due(rows)
    BY <1>1, <1>4 DEF EndPage, SweepDies, SweepOK
  <2>2. sweep' \in SweepStates
    BY <2>1 DEF SweepStates
  <2>3. sweep'.pc = "page" /\ sweep'.page = <<>> /\ sweep'.due = sweep.due
    BY <2>1 DEF SweepStates
  <2>4. SweepOK(sweep', vm, rows)
    BY <2>1, <2>2, <2>3, EmptyPage DEF SweepOK
  <2> QED
    BY <1>2, <2>4, SweepOnly
<1> QED
  BY <1>3, <1>4

\* Every step of a sweep.
LEMMA SweepPreserves ==
  ASSUME MaintenanceInv, Sweep
  PROVE  MaintenanceInv'
<1>1. UNCHANGED <<jobs, walk>>
  BY DEF Sweep
<1>2. SweepStep \/ SweepFault
  BY DEF Sweep
<1>3. CASE SweepStep
  BY <1>1, <1>3, StartSweepStep, ListStep, ReclaimStep, LeaveZoneStep, ReleaseStep,
     ReadRowsStep, DoRowStep, EndSweepStep DEF SweepStep
<1>4. CASE SweepFault
  BY <1>1, <1>4, ListStep, ReclaimStep, EndSweepStep DEF SweepFault
<1> QED
  BY <1>2, <1>3, <1>4

\* The jobs of a page: skipped, put off by their task or by the undo of one that is
\* refused; what a page leaves behind it has been skipped.
LEMMA WalkPreserves ==
  ASSUME MaintenanceInv, Walk
  PROVE  MaintenanceInv'
<1>1. /\ WalkOK(walk, jobs) /\ QueueOK(jobs, Jobs) /\ walk \in WalkStates
      /\ Distinct(walk.page) /\ ToSet(walk.page) \subseteq Keys(jobs)
      /\ walk.before \in SUBSET Skipped /\ walk.passed \in SUBSET Skipped
      /\ walk.page \in Seq(Jobs)
  BY DEF MaintenanceInv, WalkOK, WalkStates
<1>2. faults' \in 0 .. MaxFaults
  BY FaultCounted DEF Walk, WalkStep, StartWalk, ReadJobs, DoJob, EndJobs, EnqueueFails,
     WalkDies
<1>3. ASSUME WalkOK(walk', jobs'), QueueOK(jobs', Jobs)
      PROVE  MaintenanceInv'
  BY <1>2, <1>3 DEF MaintenanceInv, Walk
<1>4. \A w \in Retried : \A q : WalkOK(w, q)
  <2>1. \A q : /\ WalkOK(NoWalk, q)
               /\ WalkOK([NoWalk EXCEPT !.pc = "read", !.before = walk.before], q)
    BY <1>1, BetweenPages
  <2> QED
    BY <2>1 DEF Retried
<1>5. \A k : \A d \in {Soon, Long} :
        /\ QueueOK(PutOff(jobs, k, d), Jobs) /\ Keys(PutOff(jobs, k, d)) = Keys(jobs)
  BY <1>1, Bounds, PutOffQueue
<1>6. CASE StartWalk
  <2>1. \A q : WalkOK([NoWalk EXCEPT !.pc = "read"], q)
    BY <1>1, BetweenPages
  <2> QED
    BY <1>1, <1>3, <1>6, <2>1 DEF StartWalk
<1>7. CASE ReadJobs
  <2>1. PICK page \in Pages(jobs, Jobs \ walk.before, JobPageSize) :
          walk' = [walk EXCEPT !.pc = "job", !.page = page, !.full = PageFull(page),
                               !.passed = {}]
    BY <1>7 DEF ReadJobs
  <2>2. JobPageSize \in Nat /\ IsFiniteSet(Jobs)
    BY MaintenanceAssumption
  <2>3. page \in Seq(Jobs) /\ Distinct(page) /\ ToSet(page) \subseteq Due(jobs)
    BY <1>1, <2>2, PageOfQuery
  <2>4. Due(jobs) \subseteq Keys(jobs)
    BY <1>1, KeysByPlace
  <2>5. PageFull(page) \in BOOLEAN
    BY DEF PageFull
  <2>6. walk' \in WalkStates /\ walk'.page = page
    BY <1>1, <2>1, <2>3, <2>5 DEF WalkStates
  <2>7. WalkOK(walk', jobs)
    BY <2>3, <2>4, <2>6 DEF WalkOK
  <2> QED
    BY <1>1, <1>3, <1>7, <2>7 DEF ReadJobs
<1>8. CASE DoJob
  <2> DEFINE k == Head(walk.page)
             rest == [walk EXCEPT !.page = Tail(@)]
  <2>1. walk.page # <<>>
    BY <1>8 DEF DoJob
  <2>2. /\ Tail(walk.page) \in Seq(Jobs) /\ Distinct(Tail(walk.page))
        /\ ToSet(Tail(walk.page)) \subseteq Keys(jobs)
    BY <1>1, <2>1, PageTail
  <2>3. \A w \in WalkStates : \A q :
          w.page = Tail(walk.page) /\ Keys(q) = Keys(jobs) => WalkOK(w, q)
    BY <2>2 DEF WalkOK
  <2>4. rest \in WalkStates /\ rest.page = Tail(walk.page)
    BY <1>1, <2>2 DEF WalkStates
  <2>5. CASE k \in Skipped /\ walk' = [rest EXCEPT !.passed = @ \cup {k}] /\ UNCHANGED jobs
    <3>1. walk' \in WalkStates /\ walk'.page = Tail(walk.page)
      BY <2>4, <2>5 DEF WalkStates
    <3> QED
      BY <1>1, <1>3, <2>3, <2>5, <3>1
  <2>6. CASE walk' \in Retried /\ jobs' = Undo(k)
    BY <1>3, <1>4, <1>5, <2>6 DEF Undo
  <2>7. CASE walk' = rest /\ jobs' = PutOff(jobs, k, Long)
    BY <1>3, <1>5, <2>3, <2>4, <2>7
  <2> QED
    BY <1>8, <2>5, <2>6, <2>7 DEF DoJob
<1>9. CASE EndJobs
  <2>1. walk.before \cup walk.passed \in SUBSET Skipped
    BY <1>1
  <2>2. \A q : /\ WalkOK(NoWalk, q)
               /\ WalkOK([NoWalk EXCEPT !.pc = "read",
                                        !.before = walk.before \cup walk.passed], q)
    BY <2>1, BetweenPages
  <2> QED
    BY <1>1, <1>3, <1>9, <2>2 DEF EndJobs
<1>10. CASE EnqueueFails
  BY <1>3, <1>4, <1>5, <1>10 DEF EnqueueFails, Undo
<1>11. CASE WalkDies
  BY <1>1, <1>3, <1>4, <1>11 DEF WalkDies
<1> QED
  BY <1>6, <1>7, <1>8, <1>9, <1>10, <1>11 DEF Walk, WalkStep

\* A VM ends by itself: one that is gone stays so.
LEMMA VMEndsPreserves ==
  ASSUME MaintenanceInv, VMEnds
  PROVE  MaintenanceInv'
<1>1. vm \in Statuses
  BY DEF MaintenanceInv
<1>2. PICK v \in VMs : \/ vm[v] = "up" /\ vm' = [vm EXCEPT ![v] = "stopped"]
                       \/ vm[v] # "gone" /\ vm' = [vm EXCEPT ![v] = "gone"]
  BY DEF VMEnds
<1>3. vm' \in Statuses /\ \A u \in VMs : vm[u] = "gone" => vm'[u] = "gone"
  BY <1>1, <1>2 DEF Statuses
<1>4. SweepOK(sweep, vm', rows)
  BY <1>3 DEF MaintenanceInv, SweepOK
<1> QED
  BY <1>3, <1>4 DEF MaintenanceInv, VMEnds

\* Time passes: what was due is due.
LEMMA TickPreserves ==
  ASSUME MaintenanceInv, Tick
  PROVE  MaintenanceInv'
<1>1. QueueOK(rows, VMs) /\ QueueOK(jobs, Jobs)
  BY DEF MaintenanceInv
<1>2. /\ QueueOK(rows', VMs) /\ Keys(rows') = Keys(rows) /\ Due(rows) \subseteq Due(rows')
  BY <1>1, SoonerQueue DEF Tick
<1>3. QueueOK(jobs', Jobs) /\ Keys(jobs') = Keys(jobs)
  BY <1>1, SoonerQueue DEF Tick
<1>4. SweepOK(sweep, vm, rows')
  BY <1>2 DEF MaintenanceInv, SweepOK
<1>5. WalkOK(walk, jobs')
  BY <1>3 DEF MaintenanceInv, WalkOK
<1> QED
  BY <1>2, <1>3, <1>4, <1>5 DEF MaintenanceInv, Tick

\* The periodic walks keep their invariant, whatever fails and wherever they end.
THEOREM MaintenanceInvariant == Spec => []MaintenanceInv
<1>1. Init => MaintenanceInv
  BY MaintenanceInit
<1>2. MaintenanceInv /\ [Next]_vars => MaintenanceInv'
  <2> SUFFICES ASSUME MaintenanceInv, [Next]_vars
               PROVE  MaintenanceInv'
    OBVIOUS
  <2>1. CASE Next
    BY <2>1, SweepPreserves, WalkPreserves, VMEndsPreserves, TickPreserves DEF Next
  <2>2. CASE UNCHANGED vars
    BY <2>2 DEF MaintenanceInv, vars
  <2> QED
    BY <2>1, <2>2
<1> QED
  BY <1>1, <1>2, PTL DEF Spec

-----------------------------------------------------------------------------
\* The states of the walks are those of MaintenanceTypeOK: no key is twice in a due
\* query, the queries stay in order, and pages hold keys that are in them.
THEOREM MaintenanceTyped == Spec => []MaintenanceTypeOK
<1>1. MaintenanceInv => MaintenanceTypeOK
  <2> SUFFICES ASSUME MaintenanceInv
               PROVE  MaintenanceTypeOK
    OBVIOUS
  <2>1. \A K, q : QueueOK(q, K) =>
          /\ Len(q) = Cardinality(Keys(q))
          /\ \A i, j \in DOMAIN q : i < j => q[i].due <= q[j].due
          /\ \A i \in DOMAIN q : q[i].due \in 0 .. Long
    <3> SUFFICES ASSUME NEW K, NEW q, QueueOK(q, K)
                 PROVE  /\ Len(q) = Cardinality(Keys(q))
                        /\ \A i, j \in DOMAIN q : i < j => q[i].due <= q[j].due
                        /\ \A i \in DOMAIN q : q[i].due \in 0 .. Long
      OBVIOUS
    <3>1. DOMAIN q = 1 .. Len(q) /\ \A i \in 1 .. Len(q) : q[i].due \in 0 .. Long
      BY QueueShape
    <3>2. Len(q) = Cardinality(Keys(q))
      BY LenIsKeys
    <3> QED
      BY <3>1, <3>2 DEF QueueOK
  <2>2. QueueOK(rows, VMs) /\ QueueOK(jobs, Jobs)
    BY DEF MaintenanceInv
  <2>3. \A q \in {rows, jobs} :
          /\ Len(q) = Cardinality(Keys(q))
          /\ \A i, j \in DOMAIN q : i < j => q[i].due <= q[j].due
          /\ \A i \in DOMAIN q : q[i].due \in 0 .. Long
    BY <2>1, <2>2
  <2>4. vm \in [VMs -> {"up", "stopped", "gone"}] /\ faults \in 0 .. MaxFaults
    BY DEF MaintenanceInv, Statuses
  <2>5. /\ sweep.pc \in {"idle", "list", "reclaim", "release", "page", "row"}
        /\ sweep.zone \in 0 .. Len(Zones) /\ sweep.listed \subseteq VMs
        /\ sweep.vm \in VMs \cup {NoVM} /\ sweep.deleted \in 0 .. MaxSweepDeletes
        /\ sweep.pages \in 0 .. MaxRunnerPages
        /\ ToSet(sweep.page) \subseteq Keys(rows)
    BY DEF MaintenanceInv, SweepOK, SweepStates
  <2>6. /\ walk.pc \in {"idle", "read", "job"}
        /\ walk.before \cup walk.passed \subseteq Skipped
        /\ ToSet(walk.page) \subseteq Keys(jobs)
    BY DEF MaintenanceInv, WalkOK, WalkStates
  <2> QED
    BY <2>3, <2>4, <2>5, <2>6 DEF MaintenanceTypeOK
<1> QED
  BY <1>1, MaintenanceInvariant, PTL

\* Nothing is dropped: a ledger row only goes when its VM is gone, and no job leaves
\* the due query, whatever call fails and whatever the undo of enqueueJob does.
THEOREM NothingIsDropped == Spec => NothingDropped
<1>1. MaintenanceInv /\ [Next]_vars =>
        [/\ \A v \in Keys(rows) \ Keys(rows') : vm'[v] = "gone"
         /\ Keys(jobs') = Keys(jobs)]_vars
  <2> SUFFICES ASSUME MaintenanceInv, Next
               PROVE  /\ \A v \in Keys(rows) \ Keys(rows') : vm'[v] = "gone"
                      /\ Keys(jobs') = Keys(jobs)
    OBVIOUS
  <2>1. /\ QueueOK(rows, VMs) /\ QueueOK(jobs, Jobs) /\ vm \in Statuses
        /\ SweepOK(sweep, vm, rows) /\ WalkOK(walk, jobs)
    BY DEF MaintenanceInv
  <2>2. \A k : Keys(Without(rows, k)) = Keys(rows) \ {k}
    BY <2>1, WithoutQueue
  <2>3. \A k : \A d \in {Soon, Long} : /\ Keys(PutOff(rows, k, d)) = Keys(rows)
                                       /\ Keys(PutOff(jobs, k, d)) = Keys(jobs)
    BY <2>1, Bounds, PutOffQueue
  <2>4. CASE Sweep
    <3>1. jobs' = jobs
      BY <2>4 DEF Sweep
    <3>2. CASE ReleaseReclaimed
      <4>1. vm' = vm /\ rows' \in {rows, Without(rows, sweep.vm)}
        BY <3>2 DEF ReleaseReclaimed
      <4>2. vm[sweep.vm] = "gone"
        BY <2>1, <3>2 DEF ReleaseReclaimed, SweepOK
      <4> QED
        BY <2>2, <3>1, <4>1, <4>2
    <3>3. CASE DoRow
      <4> DEFINE v == Head(sweep.page)
      <4>1. sweep.page # <<>> /\ sweep.page \in Seq(VMs) /\ Distinct(sweep.page)
        BY <2>1, <3>3, SweepFields DEF DoRow, SweepOK
      <4>2. v \in VMs
        BY <4>1, PageTail
      <4>3. \/ rows' = rows
            \/ vm' = [vm EXCEPT ![v] = "gone"] /\ rows' = Without(rows, v)
            \/ \E d \in {Soon, Long} : rows' = PutOff(rows, v, d)
        BY <3>3 DEF DoRow
      <4> HIDE DEF v
      <4>4. vm' = [vm EXCEPT ![v] = "gone"] => vm'[v] = "gone"
        BY <2>1, <4>2 DEF Statuses
      <4> QED
        BY <2>2, <2>3, <3>1, <4>3, <4>4
    <3>4. CASE UNCHANGED rows
      BY <3>1, <3>4
    <3> QED
      BY <2>4, <3>2, <3>3, <3>4 DEF Sweep, SweepStep, SweepFault, StartSweep, ListZone,
         ListingFails, Reclaim, ReclaimFails, LeaveZone, ReadRows, EndPage, SweepDies
  <2>5. CASE Walk
    <3>1. rows' = rows
      BY <2>5 DEF Walk
    <3>2. jobs' = jobs \/ \E k : \E d \in {Soon, Long} : jobs' = PutOff(jobs, k, d)
      BY <2>5 DEF Walk, WalkStep, StartWalk, ReadJobs, DoJob, EndJobs, EnqueueFails,
         WalkDies, Undo
    <3> QED
      BY <2>3, <3>1, <3>2
  <2>6. CASE VMEnds
    BY <2>6 DEF VMEnds
  <2>7. CASE Tick
    <3>1. rows' = Sooner(rows) /\ jobs' = Sooner(jobs)
      BY <2>7 DEF Tick
    <3> QED
      BY <2>1, <3>1, SoonerQueue
  <2> QED
    BY <2>4, <2>5, <2>6, <2>7 DEF Next
<1> QED
  BY <1>1, MaintenanceInvariant, PTL DEF Spec, NothingDropped

\* A page that is not full is the last one: every row the sweep has yet to deal with
\* is on it, and every due job but the skipped ones.
THEOREM NothingIsPassed == Spec => NothingPassed
<1>1. MaintenanceInv /\ [Next]_vars =>
        [/\ sweep.pc = "page" /\ sweep'.pc = "row" =>
              sweep'.full \/ sweep.due \cap Keys(rows) \subseteq ToSet(sweep'.page)
         /\ walk.pc = "read" /\ walk'.pc = "job" =>
              walk'.full \/ Due(jobs) \subseteq Skipped \cup ToSet(walk'.page)]_vars
  <2> SUFFICES ASSUME MaintenanceInv, Next
               PROVE  /\ sweep.pc = "page" /\ sweep'.pc = "row" =>
                           \/ sweep'.full
                           \/ sweep.due \cap Keys(rows) \subseteq ToSet(sweep'.page)
                      /\ walk.pc = "read" /\ walk'.pc = "job" =>
                           \/ walk'.full
                           \/ Due(jobs) \subseteq Skipped \cup ToSet(walk'.page)
    OBVIOUS
  <2>1. /\ QueueOK(rows, VMs) /\ QueueOK(jobs, Jobs)
        /\ SweepOK(sweep, vm, rows) /\ WalkOK(walk, jobs)
        /\ sweep \in SweepStates /\ walk \in WalkStates
    BY DEF MaintenanceInv, SweepOK, WalkOK
  <2>2. /\ IsFiniteSet(VMs) /\ IsFiniteSet(Jobs)
        /\ RunnerPageSize \in Nat /\ JobPageSize \in Nat
    BY MaintenanceAssumption
  <2>3. ASSUME sweep.pc = "page", sweep'.pc = "row"
        PROVE  sweep'.full \/ sweep.due \cap Keys(rows) \subseteq ToSet(sweep'.page)
    <3> NoSweep.pc = "idle"
      BY DEF NoSweep
    <3>1. ReadRows
      <4>1. ~SweepDies /\ sweep' # sweep
        BY <2>3 DEF SweepDies
      <4>2. Sweep
        BY <4>1 DEF Next, Walk, VMEnds, Tick
      <4> QED
        BY <2>3, <4>1, <4>2 DEF Sweep, SweepStep, SweepFault, StartSweep, ListZone,
           ListingFails, Reclaim, ReclaimFails, LeaveZone, ReleaseReclaimed, DoRow,
           EndPage
    <3>2. PICK page \in Pages(rows, sweep.due, RunnerPageSize) :
            sweep' = [sweep EXCEPT !.pc = "row", !.pages = @ + 1, !.page = page,
                                   !.full = Len(page) = RunnerPageSize]
      <4>1. sweep' # NoSweep
        BY <2>3
      <4> QED
        BY <3>1, <4>1 DEF ReadRows
    <3>3. /\ page \in Seq(VMs) /\ Len(page) <= RunnerPageSize
          /\ Len(page) < RunnerPageSize => ToSet(page) = Due(rows) \cap sweep.due
      BY <2>1, <2>2, PageOfQuery
    <3>4. sweep'.page = page /\ sweep'.full = (Len(page) = RunnerPageSize)
      BY <2>1, <3>2 DEF SweepStates
    <3>5. Len(page) \in Nat
      BY <3>3, LenProperties
    <3>6. CASE Len(page) = RunnerPageSize
      BY <3>4, <3>6
    <3>7. CASE Len(page) # RunnerPageSize
      <4>1. ToSet(page) = Due(rows) \cap sweep.due
        BY <2>2, <3>3, <3>5, <3>7
      <4>2. sweep.due \cap Keys(rows) \subseteq Due(rows)
        BY <2>1 DEF SweepOK
      <4> QED
        BY <3>4, <4>1, <4>2
    <3> QED
      BY <3>6, <3>7
  <2>4. ASSUME walk.pc = "read", walk'.pc = "job"
        PROVE  walk'.full \/ Due(jobs) \subseteq Skipped \cup ToSet(walk'.page)
    <3>1. ReadJobs
      <4>1. \A w \in Retried : w.pc # "job"
        <5>1. NoWalk \in WalkStates /\ NoWalk.pc = "idle"
          BY EmptyPage DEF NoWalk, WalkStates
        <5> QED
          BY <5>1 DEF Retried, WalkStates
      <4>2. ~WalkDies /\ walk' # walk
        BY <2>4, <4>1 DEF WalkDies
      <4>3. Walk
        BY <4>2 DEF Next, Sweep, VMEnds, Tick
      <4> QED
        BY <2>4, <4>2, <4>3 DEF Walk, WalkStep, StartWalk, DoJob, EndJobs, EnqueueFails
    <3>2. PICK page \in Pages(jobs, Jobs \ walk.before, JobPageSize) :
            walk' = [walk EXCEPT !.pc = "job", !.page = page, !.full = PageFull(page),
                                 !.passed = {}]
      BY <3>1 DEF ReadJobs
    <3>3. /\ page \in Seq(Jobs) /\ Len(page) <= JobPageSize
          /\ Len(page) < JobPageSize => ToSet(page) = Due(jobs) \cap (Jobs \ walk.before)
      BY <2>1, <2>2, PageOfQuery
    <3>4. walk'.page = page /\ walk'.full = (Len(page) = JobPageSize)
      BY <2>1, <3>2 DEF WalkStates, PageFull
    <3>5. Len(page) \in Nat
      BY <3>3, LenProperties
    <3>6. CASE Len(page) = JobPageSize
      BY <3>4, <3>6
    <3>7. CASE Len(page) # JobPageSize
      <4>1. ToSet(page) = Due(jobs) \cap (Jobs \ walk.before)
        BY <2>2, <3>3, <3>5, <3>7
      <4>2. walk.before \subseteq Skipped
        BY <2>1 DEF WalkStates
      <4>3. Due(jobs) \subseteq Jobs
        BY <2>1, KeysByPlace
      <4> QED
        BY <3>4, <4>1, <4>2, <4>3
    <3> QED
      BY <3>6, <3>7
  <2> QED
    BY <2>3, <2>4
<1> QED
  BY <1>1, MaintenanceInvariant, PTL DEF Spec, NothingPassed
=============================================================================
