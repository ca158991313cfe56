---------------------------- MODULE TimersProofs ----------------------------
(***************************************************************************)
(* Theorems about Timers, for any controllers, finite pool of timers, due  *)
(* times, adjustments of the clock, and bounds.                            *)
(***************************************************************************)
EXTENDS Timers, FiniteSetTheorems, SequenceTheorems, WellFoundedInduction, TLAPS

(* Queues: what the linked list operations do to order and members.        *)

\* Appending is putting an element behind all others.
LEMMA AppendFacts ==
  ASSUME NEW S, NEW q \in Seq(S), NEW t \in S
  PROVE  /\ Append(q, t) \in Seq(S) /\ Len(Append(q, t)) = Len(q) + 1 /\ Len(q) \in Nat
         /\ \A j \in 1 .. Len(q) : Append(q, t)[j] = q[j]
         /\ Append(q, t)[Len(q) + 1] = t
  OBVIOUS

\* InsertAt moves what comes from i on by one place.
LEMMA InsertAtFacts ==
  ASSUME NEW S, NEW q \in Seq(S), NEW t \in S, NEW i \in 1 .. Len(q)
  PROVE  /\ InsertAt(q, i, t) \in Seq(S) /\ Len(InsertAt(q, i, t)) = Len(q) + 1 /\ Len(q) \in Nat
         /\ \A j \in 1 .. Len(q) + 1 :
              InsertAt(q, i, t)[j] = IF j < i THEN q[j] ELSE IF j = i THEN t ELSE q[j - 1]
<1> DEFINE a == SubSeq(q, 1, i - 1)
           b == SubSeq(q, i, Len(q))
<1>1. /\ a \in Seq(S) /\ Len(a) = i - 1 /\ \A j \in 1 .. i - 1 : a[j] = q[j]
      /\ b \in Seq(S) /\ Len(b) = Len(q) - i + 1 /\ \A j \in 1 .. Len(q) - i + 1 : b[j] = q[i + j - 1]
      /\ Len(q) \in Nat /\ i \in Nat
  OBVIOUS
<1> HIDE DEF a, b
<1> DEFINE m == a \o <<t>>
<1>2. m \in Seq(S) /\ Len(m) = i /\ \A j \in 1 .. i : m[j] = IF j < i THEN q[j] ELSE t
  BY <1>1
<1> HIDE DEF m
<1>3. m \o b \in Seq(S) /\ Len(m \o b) = Len(q) + 1
      /\ \A j \in 1 .. Len(q) + 1 : (m \o b)[j] = IF j <= i THEN m[j] ELSE b[j - i]
  <2>1. /\ m \o b \in Seq(S) /\ Len(m \o b) = Len(m) + Len(b)
        /\ \A j \in 1 .. Len(m) + Len(b) : (m \o b)[j] = IF j <= Len(m) THEN m[j] ELSE b[j - Len(m)]
    BY <1>1, <1>2, ConcatProperties
  <2>2. Len(m) + Len(b) = Len(q) + 1
    BY <1>1, <1>2
  <2> QED BY <1>2, <2>1, <2>2
<1>4. \A j \in 1 .. Len(q) + 1 : (m \o b)[j] = IF j < i THEN q[j] ELSE IF j = i THEN t ELSE q[j - 1]
  <2> TAKE j \in 1 .. Len(q) + 1
  <2>1. CASE j <= i
    <3>1. j \in 1 .. i /\ (m \o b)[j] = m[j]
      BY <1>1, <1>3, <2>1
    <3> QED BY <1>2, <3>1, <2>1
  <2>2. CASE j > i
    <3>1. j - i \in 1 .. Len(q) - i + 1 /\ i + (j - i) - 1 = j - 1
      BY <1>1, <2>2
    <3>2. (m \o b)[j] = b[j - i]
      BY <1>1, <1>3, <2>2
    <3>3. b[j - i] = q[j - 1]
      BY <1>1, <3>1
    <3> QED BY <1>1, <2>2, <3>2, <3>3
  <2>3. j <= i \/ j > i
    BY <1>1
  <2> QED BY <2>1, <2>2, <2>3
<1>5. InsertAt(q, i, t) = m \o b
  BY DEF InsertAt, m, a, b
<1> QED BY <1>1, <1>3, <1>4, <1>5

\* RemoveAt moves what comes after i back by one place.
LEMMA RemoveAtFacts ==
  ASSUME NEW S, NEW q \in Seq(S), NEW i \in 1 .. Len(q)
  PROVE  /\ RemoveAt(q, i) \in Seq(S) /\ Len(RemoveAt(q, i)) = Len(q) - 1 /\ Len(q) \in Nat
         /\ \A j \in 1 .. Len(q) - 1 : RemoveAt(q, i)[j] = IF j < i THEN q[j] ELSE q[j + 1]
<1> DEFINE a == SubSeq(q, 1, i - 1)
           b == SubSeq(q, i + 1, Len(q))
<1>1. /\ a \in Seq(S) /\ Len(a) = i - 1 /\ \A j \in 1 .. i - 1 : a[j] = q[j]
      /\ b \in Seq(S) /\ Len(b) = Len(q) - i /\ \A j \in 1 .. Len(q) - i : b[j] = q[i + j]
      /\ Len(q) \in Nat /\ i \in Nat
  OBVIOUS
<1> HIDE DEF a, b
<1>2. a \o b \in Seq(S) /\ Len(a \o b) = Len(q) - 1
      /\ \A j \in 1 .. Len(q) - 1 : (a \o b)[j] = IF j < i THEN a[j] ELSE b[j - i + 1]
  <2>1. /\ a \o b \in Seq(S) /\ Len(a \o b) = Len(a) + Len(b)
        /\ \A j \in 1 .. Len(a) + Len(b) : (a \o b)[j] = IF j <= Len(a) THEN a[j] ELSE b[j - Len(a)]
    BY <1>1, ConcatProperties
  <2>2. Len(a) + Len(b) = Len(q) - 1 /\ Len(a) = i - 1
    BY <1>1
  <2>3. \A j \in 1 .. Len(q) - 1 : (j <= Len(a) <=> j < i) /\ j - Len(a) = j - i + 1
    BY <1>1, <2>2
  <2> QED BY <2>1, <2>2, <2>3
<1>3. \A j \in 1 .. Len(q) - 1 : (a \o b)[j] = IF j < i THEN q[j] ELSE q[j + 1]
  <2> TAKE j \in 1 .. Len(q) - 1
  <2>1. CASE j < i
    BY <1>1, <1>2, <2>1
  <2>2. CASE j >= i
    <3>1. j - i + 1 \in 1 .. Len(q) - i /\ i + (j - i + 1) = j + 1
      BY <1>1, <2>2
    <3> QED BY <1>1, <1>2, <2>2, <3>1
  <2> QED BY <1>1, <2>1, <2>2
<1>4. RemoveAt(q, i) = a \o b
  BY DEF RemoveAt, a, b
<1> QED BY <1>1, <1>2, <1>3, <1>4

\* A set of numbers that is not empty has a least one.
LEMMA LeastNumber ==
  ASSUME NEW T, T \subseteq Nat, T # {}
  PROVE  \E x \in T : \A y \in T : x <= y
<1> DEFINE R == OpToRel(<, Nat)
<1>1. PICK x \in T : \A y \in T : ~(<<y, x>> \in R)
  <2>1. IsWellFoundedOn(R, Nat)
    BY NatLessThanWellFounded
  <2> HIDE DEF R
  <2> QED BY <2>1, WFMin
<1>2. R = {ss \in Nat \X Nat : ss[1] < ss[2]}
  BY DEF OpToRel
<1> HIDE DEF R
<1>3. \A y \in T : x <= y
  <2> TAKE y \in T
  <2>1. x \in Nat /\ y \in Nat /\ <<y, x>> \in Nat \X Nat
    OBVIOUS
  <2>2. ~(<<y, x>>[1] < <<y, x>>[2])
    BY <1>1, <1>2, <2>1
  <2> QED BY <2>1, <2>2
<1> QED BY <1>3

\* enqueue keeps the order and adds the timer, once.
LEMMA InsertFacts ==
  ASSUME NEW q \in Seq(Timer), NEW t \in Timer, due \in [Timer -> Int],
         Distinct(q), t \notin Range(q), InOrder(q)
  PROVE  /\ Insert(q, t) \in Seq(Timer) /\ Distinct(Insert(q, t)) /\ InOrder(Insert(q, t))
         /\ Range(Insert(q, t)) = Range(q) \cup {t}
<1> DEFINE later == {i \in DOMAIN q : due[q[i]] > due[t]}
           r == Insert(q, t)
<1>1. DOMAIN q = 1 .. Len(q) /\ Len(q) \in Nat /\ \A j \in 1 .. Len(q) : q[j] \in Timer /\ q[j] # t
  BY DEF Range
<1>2. PICK i \in 1 .. Len(q) + 1 :
        /\ r \in Seq(Timer) /\ Len(r) = Len(q) + 1
        /\ \A j \in 1 .. Len(q) + 1 : r[j] = IF j < i THEN q[j] ELSE IF j = i THEN t ELSE q[j - 1]
        /\ \A j \in 1 .. Len(q) : IF j < i THEN due[q[j]] <= due[t] ELSE due[q[j]] > due[t]
  <2>1. CASE later = {}
    <3>1. r = Append(q, t)
      BY <2>1 DEF Insert
    <3>2. \A j \in 1 .. Len(q) : due[q[j]] <= due[t]
      BY <1>1, <2>1
    <3> HIDE DEF r, later
    <3>3. /\ r \in Seq(Timer) /\ Len(r) = Len(q) + 1 /\ r[Len(q) + 1] = t
          /\ \A j \in 1 .. Len(q) : r[j] = q[j]
      BY <3>1, AppendFacts
    <3> DEFINE n == Len(q) + 1
    <3>4. n \in 1 .. Len(q) + 1
      BY <1>1
    <3>5. \A j \in 1 .. Len(q) + 1 : r[j] = IF j < n THEN q[j] ELSE IF j = n THEN t ELSE q[j - 1]
      BY <1>1, <3>3
    <3>6. \A j \in 1 .. Len(q) : IF j < n THEN due[q[j]] <= due[t] ELSE due[q[j]] > due[t]
      BY <1>1, <3>2
    <3> HIDE DEF n
    <3> QED BY <3>3, <3>4, <3>5, <3>6
  <2>2. CASE later # {}
    <3> DEFINE n == CHOOSE i \in later : \A j \in later : i <= j
    <3>1. n \in later /\ \A j \in later : n <= j
      <4>1. later \subseteq Nat
        BY <1>1
      <4>2. \E i \in later : \A j \in later : i <= j
        <5> HIDE DEF later
        <5> QED BY <2>2, <4>1, LeastNumber
      <4> HIDE DEF later
      <4> QED BY <4>2
    <3>2. r = InsertAt(q, n, t)
      BY <2>2 DEF Insert
    <3> HIDE DEF n, r
    <3>3. n \in 1 .. Len(q) + 1 /\ n \in 1 .. Len(q)
      BY <1>1, <3>1
    <3>4. /\ r \in Seq(Timer) /\ Len(r) = Len(q) + 1
          /\ \A j \in 1 .. Len(q) + 1 : r[j] = IF j < n THEN q[j] ELSE IF j = n THEN t ELSE q[j - 1]
      <4>1. /\ InsertAt(q, n, t) \in Seq(Timer) /\ Len(InsertAt(q, n, t)) = Len(q) + 1
            /\ Len(q) \in Nat
            /\ \A j \in 1 .. Len(q) + 1 :
                 InsertAt(q, n, t)[j] = IF j < n THEN q[j] ELSE IF j = n THEN t ELSE q[j - 1]
        <5>1. q \in Seq(Timer) /\ t \in Timer /\ n \in 1 .. Len(q)
          BY <3>3
        <5> HIDE DEF later
        <5> QED BY ONLY <5>1, InsertAtFacts
      <4> QED BY <3>2, <4>1
    <3>5. ASSUME NEW j \in 1 .. Len(q)
          PROVE  IF j < n THEN due[q[j]] <= due[t] ELSE due[q[j]] > due[t]
      <4>1. CASE j < n
        <5>1. j \notin later
          BY <1>1, <3>1, <3>3, <4>1
        <5> QED BY <1>1, <4>1, <5>1
      <4>2. CASE j > n
        <5>1. due[q[n]] <= due[q[j]] /\ due[q[n]] > due[t]
          BY <1>1, <3>1, <3>3, <4>2 DEF InOrder
        <5> QED BY <1>1, <3>3, <4>2, <5>1
      <4>3. CASE j = n
        BY <1>1, <3>1, <4>3
      <4> QED BY <3>3, <4>1, <4>2, <4>3
    <3> QED BY <3>3, <3>4, <3>5
  <2> QED BY <2>1, <2>2
<1> HIDE DEF r, later
<1>3. DOMAIN r = 1 .. Len(q) + 1
  BY <1>1, <1>2
<1>4. Distinct(r)
  <2> SUFFICES ASSUME NEW j \in 1 .. Len(q) + 1, NEW k \in 1 .. Len(q) + 1, j < k
               PROVE  r[j] # r[k]
    BY <1>1, <1>3 DEF Distinct
  <2>1. \A m \in 1 .. Len(q) + 1 :
          /\ m < i => m \in 1 .. Len(q) /\ r[m] = q[m]
          /\ m = i => r[m] = t
          /\ m > i => m - 1 \in 1 .. Len(q) /\ r[m] = q[m - 1]
    <3> TAKE m \in 1 .. Len(q) + 1
    <3> QED BY <1>1, <1>2
  <2>2. \A m, n \in 1 .. Len(q) : m # n => q[m] # q[n]
    BY <1>1 DEF Distinct
  <2> QED BY <1>1, <2>1, <2>2
<1>5. InOrder(r)
  <2> SUFFICES ASSUME NEW j \in 1 .. Len(q) + 1, NEW k \in 1 .. Len(q) + 1, j < k
               PROVE  due[r[j]] <= due[r[k]]
    BY <1>1, <1>3 DEF InOrder
  <2>1. \A m \in 1 .. Len(q) + 1 :
          /\ m < i => m \in 1 .. Len(q) /\ r[m] = q[m] /\ due[q[m]] <= due[t]
          /\ m = i => r[m] = t
          /\ m > i => m - 1 \in 1 .. Len(q) /\ r[m] = q[m - 1] /\ due[t] < due[q[m - 1]]
    <3> TAKE m \in 1 .. Len(q) + 1
    <3>1. m > i => m - 1 \in 1 .. Len(q) /\ ~(m - 1 < i)
      BY <1>1
    <3>2. m > i => r[m] = q[m - 1] /\ due[t] < due[q[m - 1]]
      BY <1>1, <1>2, <3>1
    <3>3. m = i => r[m] = t
      BY <1>1, <1>2
    <3>4. m < i => m \in 1 .. Len(q) /\ r[m] = q[m] /\ due[q[m]] <= due[t]
      BY <1>1, <1>2
    <3> QED BY <3>1, <3>2, <3>3, <3>4
  <2>2. \A m, n \in 1 .. Len(q) : m < n => due[q[m]] <= due[q[n]]
    BY <1>1 DEF InOrder
  <2>3. \A m \in 1 .. Len(q) : due[q[m]] \in Int
    BY <1>1
  <2>4. due[t] \in Int
    OBVIOUS
  <2>5. CASE k < i
    <3>1. j \in 1 .. Len(q) /\ k \in 1 .. Len(q) /\ r[j] = q[j] /\ r[k] = q[k]
      BY <1>1, <2>1, <2>5
    <3> QED BY <2>2, <3>1
  <2>6. CASE k = i
    BY <1>1, <2>1, <2>6
  <2>7. CASE j < i /\ k > i
    BY <1>1, <2>1, <2>3, <2>4, <2>7
  <2>8. CASE j = i
    BY <1>1, <2>1, <2>3, <2>4, <2>8
  <2>9. CASE j > i
    <3>1. /\ j - 1 \in 1 .. Len(q) /\ k - 1 \in 1 .. Len(q) /\ j - 1 < k - 1
          /\ r[j] = q[j - 1] /\ r[k] = q[k - 1]
      BY <1>1, <2>1, <2>9
    <3> QED BY <2>2, <3>1
  <2> QED BY <1>1, <2>5, <2>6, <2>7, <2>8, <2>9
<1>6. Range(r) = Range(q) \cup {t}
  <2>1. Range(r) \subseteq Range(q) \cup {t}
    <3> SUFFICES ASSUME NEW j \in 1 .. Len(q) + 1 PROVE r[j] \in Range(q) \cup {t}
      BY <1>3 DEF Range
    <3>1. \/ j \in 1 .. Len(q) /\ r[j] = q[j]
          \/ r[j] = t
          \/ j - 1 \in 1 .. Len(q) /\ r[j] = q[j - 1]
      <4>1. CASE j < i
        BY <1>1, <1>2, <4>1
      <4>2. CASE j = i
        BY <1>1, <1>2, <4>2
      <4>3. CASE j > i
        <5>1. j - 1 \in 1 .. Len(q) /\ ~(j < i) /\ j # i
          BY <1>1, <4>3
        <5> QED BY <1>2, <5>1
      <4> QED BY <1>1, <4>1, <4>2, <4>3
    <3> QED BY <1>1, <3>1 DEF Range
  <2>2. t \in Range(r)
    BY <1>2, <1>3 DEF Range
  <2>3. ASSUME NEW j \in 1 .. Len(q) PROVE q[j] \in Range(r)
    <3>1. CASE j < i
      <4>1. j \in 1 .. Len(q) + 1 /\ r[j] = q[j]
        BY <1>1, <1>2, <3>1
      <4> QED BY <1>3, <4>1 DEF Range
    <3>2. CASE j >= i
      <4>1. j + 1 \in 1 .. Len(q) + 1 /\ r[j + 1] = q[j]
        BY <1>1, <1>2, <3>2
      <4> QED BY <1>3, <4>1 DEF Range
    <3> QED BY <1>1, <3>1, <3>2
  <2> QED BY <1>1, <2>1, <2>2, <2>3 DEF Range
<1> QED BY <1>2, <1>4, <1>5, <1>6 DEF r

\* Tail, for dequeue and for the pool.
LEMMA TailFacts ==
  ASSUME NEW q \in Seq(Timer), q # <<>>, Distinct(q)
  PROVE  /\ Head(q) \in Timer /\ Head(q) \in Range(q) /\ Tail(q) \in Seq(Timer)
         /\ Distinct(Tail(q)) /\ (InOrder(q) => InOrder(Tail(q)))
         /\ Range(Tail(q)) = Range(q) \ {Head(q)}
<1>1. /\ Len(q) \in Nat /\ Len(q) >= 1 /\ DOMAIN q = 1 .. Len(q) /\ Head(q) = q[1]
      /\ Tail(q) \in Seq(Timer) /\ Len(Tail(q)) = Len(q) - 1
      /\ DOMAIN Tail(q) = 1 .. Len(q) - 1
      /\ \A j \in 1 .. Len(q) - 1 : Tail(q)[j] = q[j + 1]
  OBVIOUS
<1> DEFINE r == Tail(q)
<1> HIDE DEF r
<1>2. \A j \in 1 .. Len(q) - 1 : j + 1 \in 1 .. Len(q) /\ j + 1 # 1 /\ r[j] = q[j + 1]
  BY <1>1 DEF r
<1>3. DOMAIN r = 1 .. Len(q) - 1
  BY <1>1 DEF r
<1>4. Distinct(r)
  <2> SUFFICES ASSUME NEW j \in 1 .. Len(q) - 1, NEW k \in 1 .. Len(q) - 1, j # k
               PROVE  r[j] # r[k]
    BY <1>3 DEF Distinct
  <2>1. j + 1 # k + 1
    BY <1>1
  <2> QED BY <1>1, <1>2, <2>1 DEF Distinct
<1>5. ASSUME InOrder(q) PROVE InOrder(r)
  <2> SUFFICES ASSUME NEW j \in 1 .. Len(q) - 1, NEW k \in 1 .. Len(q) - 1, j < k
               PROVE  due[r[j]] <= due[r[k]]
    BY <1>3 DEF InOrder
  <2>1. j + 1 < k + 1
    BY <1>1
  <2> QED BY <1>1, <1>2, <1>5, <2>1 DEF InOrder
<1>6. Range(r) = Range(q) \ {q[1]}
  <2>1. ASSUME NEW j \in 1 .. Len(q) - 1 PROVE r[j] \in Range(q) /\ r[j] # q[1]
    <3>1. r[j] = q[j + 1] /\ j + 1 \in DOMAIN q /\ j + 1 # 1 /\ 1 \in DOMAIN q
      BY <1>1, <1>2
    <3> QED BY <3>1 DEF Range, Distinct
  <2>2. ASSUME NEW j \in 1 .. Len(q), j # 1 PROVE q[j] \in Range(r)
    <3>1. j - 1 \in 1 .. Len(q) - 1 /\ (j - 1) + 1 = j
      BY <1>1, <2>2
    <3>2. r[j - 1] = q[j]
      BY <1>2, <3>1
    <3> QED BY <1>3, <3>1, <3>2 DEF Range
  <2> QED BY <1>1, <1>3, <2>1, <2>2 DEF Range
<1>7. q[1] \in Timer /\ q[1] \in Range(q)
  BY <1>1 DEF Range
<1> QED BY <1>1, <1>4, <1>5, <1>6, <1>7 DEF r

\* Putting to the pool.
LEMMA ConsFacts ==
  ASSUME NEW q \in Seq(Timer), NEW t \in Timer, Distinct(q), t \notin Range(q)
  PROVE  /\ <<t>> \o q \in Seq(Timer) /\ Distinct(<<t>> \o q)
         /\ Range(<<t>> \o q) = Range(q) \cup {t}
<1> DEFINE r == <<t>> \o q
<1>1. /\ Len(q) \in Nat /\ DOMAIN q = 1 .. Len(q)
      /\ r \in Seq(Timer) /\ Len(r) = Len(q) + 1 /\ DOMAIN r = 1 .. Len(q) + 1 /\ r[1] = t
      /\ \A j \in 1 .. Len(q) + 1 : j # 1 => j - 1 \in 1 .. Len(q) /\ r[j] = q[j - 1]
  OBVIOUS
<1> HIDE DEF r
<1>2. Distinct(r)
  <2> SUFFICES ASSUME NEW j \in 1 .. Len(q) + 1, NEW k \in 1 .. Len(q) + 1, j < k
               PROVE  r[j] # r[k]
    BY <1>1 DEF Distinct
  <2>1. k # 1 /\ k - 1 \in DOMAIN q /\ r[k] = q[k - 1]
    BY <1>1
  <2>2. CASE j = 1
    BY <1>1, <2>1, <2>2 DEF Range
  <2>3. CASE j # 1
    <3>1. j - 1 \in DOMAIN q /\ r[j] = q[j - 1] /\ j - 1 # k - 1
      BY <1>1, <2>3
    <3> QED BY <2>1, <3>1 DEF Distinct
  <2> QED BY <2>2, <2>3
<1>3. Range(r) = Range(q) \cup {t}
  <2>1. ASSUME NEW j \in 1 .. Len(q) PROVE q[j] \in Range(r)
    <3>1. j + 1 \in 1 .. Len(q) + 1 /\ j + 1 # 1 /\ (j + 1) - 1 = j
      BY <1>1
    <3>2. r[j + 1] = q[j]
      BY <1>1, <3>1
    <3> QED BY <1>1, <3>1, <3>2 DEF Range
  <2>2. t \in Range(r)
    BY <1>1 DEF Range
  <2>3. ASSUME NEW j \in 1 .. Len(q) + 1 PROVE r[j] \in Range(q) \cup {t}
    BY <1>1 DEF Range
  <2> QED BY <1>1, <2>1, <2>2, <2>3 DEF Range
<1> QED BY <1>1, <1>2, <1>3 DEF r

\* cancel takes the timer it has found out of the queue.
LEMMA RemoveFacts ==
  ASSUME NEW q \in Seq(Timer), NEW i \in DOMAIN q, Distinct(q), InOrder(q)
  PROVE  /\ RemoveAt(q, i) \in Seq(Timer) /\ Distinct(RemoveAt(q, i)) /\ InOrder(RemoveAt(q, i))
         /\ Range(RemoveAt(q, i)) = Range(q) \ {q[i]}
<1> DEFINE r == RemoveAt(q, i)
<1>1. DOMAIN q = 1 .. Len(q) /\ i \in 1 .. Len(q) /\ Len(q) \in Nat
  OBVIOUS
<1>2. /\ r \in Seq(Timer) /\ Len(r) = Len(q) - 1
      /\ \A j \in 1 .. Len(q) - 1 : r[j] = IF j < i THEN q[j] ELSE q[j + 1]
  BY <1>1, RemoveAtFacts
<1> HIDE DEF r
<1>3. DOMAIN r = 1 .. Len(q) - 1
  BY <1>1, <1>2
<1> DEFINE at(j) == IF j < i THEN j ELSE j + 1
<1>4. \A j \in 1 .. Len(q) - 1 : at(j) \in 1 .. Len(q) /\ at(j) # i /\ r[j] = q[at(j)]
  BY <1>1, <1>2
<1>5. \A j, k \in 1 .. Len(q) - 1 : j < k => at(j) < at(k)
  BY <1>1
<1> HIDE DEF at
<1>6. Distinct(r)
  <2> SUFFICES ASSUME NEW j \in 1 .. Len(q) - 1, NEW k \in 1 .. Len(q) - 1, j < k
               PROVE  r[j] # r[k]
    BY <1>1, <1>3 DEF Distinct
  <2>1. at(j) # at(k)
    BY <1>1, <1>4, <1>5
  <2> QED BY <1>1, <1>4, <2>1 DEF Distinct
<1>7. InOrder(r)
  BY <1>1, <1>3, <1>4, <1>5 DEF InOrder
<1>8. Range(r) = Range(q) \ {q[i]}
  <2>1. ASSUME NEW j \in 1 .. Len(q) - 1 PROVE r[j] \in Range(q) /\ r[j] # q[i]
    BY <1>1, <1>4 DEF Range, Distinct
  <2>2. ASSUME NEW j \in 1 .. Len(q), j # i PROVE q[j] \in Range(r)
    <3>1. CASE j < i
      <4>1. j \in 1 .. Len(q) - 1 /\ r[j] = q[j]
        BY <1>1, <1>2, <3>1
      <4> QED BY <1>3, <4>1 DEF Range
    <3>2. CASE j > i
      <4>1. j - 1 \in 1 .. Len(q) - 1 /\ ~(j - 1 < i) /\ (j - 1) + 1 = j
        BY <1>1, <3>2
      <4>2. r[j - 1] = q[j]
        BY <1>2, <4>1
      <4> QED BY <1>3, <4>1, <4>2 DEF Range
    <3> QED BY <1>1, <2>2, <3>1, <3>2
  <2> QED BY <1>1, <1>3, <2>1, <2>2 DEF Range
<1> QED BY <1>2, <1>6, <1>7, <1>8 DEF r
-----------------------------------------------------------------------------
(* The invariant.                                                          *)

\* A queue whose timers keep their due times keeps its order.
LEMMA OrderKept ==
  ASSUME NEW q, InOrder(q), \A t \in Range(q) : due'[t] = due[t]
  PROVE  \A i, j \in DOMAIN q : i < j => due'[q[i]] <= due'[q[j]]
  BY DEF InOrder, Range

\* A step that leaves the threads asleep, their queues and the due times of queued timers
\* alone lets none of them oversleep.
LEMMA AsleepKept ==
  ASSUME TypeOK, WakesInTime,
         adjusts' = 0 => adjusts = 0 /\ offset' = offset,
         \A d \in Controller : pc'[d] = "select" =>
           /\ pc[d] = "select" /\ queue'[d] = queue[d] /\ timeout'[d] = timeout[d]
           /\ \A t \in Range(queue[d]) : due'[t] = due[t]
  PROVE  WakesInTime'
<1> SUFFICES ASSUME NEW d \in Controller, adjusts' = 0, pc'[d] = "select", queue'[d] # <<>>
             PROVE  \E n \in timeout'[d] : n <= due'[Head(queue'[d])] - offset'
  BY DEF WakesInTime
<1>1. /\ pc[d] = "select" /\ queue'[d] = queue[d] /\ timeout'[d] = timeout[d]
      /\ adjusts = 0 /\ offset' = offset
  OBVIOUS
<1>2. Head(queue[d]) \in Range(queue[d])
  <2>1. queue[d] \in Seq(Timer) /\ queue[d] # <<>>
    BY <1>1 DEF TypeOK
  <2>2. 1 \in DOMAIN queue[d] /\ Head(queue[d]) = queue[d][1]
    BY <2>1
  <2> QED BY <2>2 DEF Range
<1>3. due'[Head(queue[d])] = due[Head(queue[d])]
  BY <1>2
<1>4. PICK n \in timeout[d] : n <= due[Head(queue[d])] - offset
  BY <1>1 DEF WakesInTime
<1> QED BY <1>1, <1>3, <1>4

\* The runtime starts with all timers in the pool.
LEMMA InitInv == Init => Inv
<1> SUFFICES ASSUME Init PROVE Inv
  OBVIOUS
<1>1. pool \in Seq(Timer) /\ Distinct(pool) /\ Range(pool) = Timer
  <2> DEFINE n == Cardinality(Timer)
  <2>1. pool \in [1 .. n -> Timer] /\ \A i, j \in 1 .. n : i # j => pool[i] # pool[j]
    BY DEF Init, SetToSeqs
  <2>2. n \in Nat
    BY FiniteAssumption, FS_CardinalityType
  <2>3. Range(pool) = Timer
    <3>1. pool \in Injection(1 .. n, Timer)
      BY <2>1 DEF Injection, IsInjective
    <3>2. IsFiniteSet(1 .. n) /\ Cardinality(1 .. n) = Cardinality(Timer)
      BY <2>2, FS_Interval
    <3>3. pool \in Surjection(1 .. n, Timer)
      BY <3>1, <3>2, FiniteAssumption, FS_Injection
    <3> QED BY <3>3 DEF Surjection, Range
  <2> HIDE DEF n
  <2> QED BY <2>1, <2>2, <2>3 DEF Distinct
<1>2. TypeOK
  BY <1>1, NobodyAssumption, TimeAssumption DEF Init, TypeOK, Pcs
<1>3. \A c \in Controller : queue[c] = <<>> /\ Range(queue[c]) = {} /\ held[c] = {}
  BY DEF Init, Range
<1>4. Apart /\ Flags
  BY <1>1, <1>3 DEF Init, Apart, Flags, Distinct
<1>5. Sorted /\ AdjustsCounted /\ WakesInTime
  BY <1>3 DEF Init, Sorted, InOrder, AdjustsCounted, WakesInTime
<1> QED BY <1>2, <1>4, <1>5 DEF Inv

\* allocateTimer: the timer it takes from the pool is in no queue, so its due time may
\* change.
LEMMA AllocateInv ==
  ASSUME Inv, NEW c \in Controller, NEW d \in Int, NEW iv \in Delay \cup {-1}, Allocate(c, d, iv)
  PROVE  Inv'
<1> DEFINE t == Head(pool)
<1>1. /\ pool \in Seq(Timer) /\ pool # <<>> /\ pc[c] = "user" /\ held[c] = {}
      /\ held' = [held EXCEPT ![c] = {t}] /\ allocated' = [allocated EXCEPT ![t] = TRUE]
      /\ due' = [due EXCEPT ![t] = d] /\ interval' = [interval EXCEPT ![t] = iv]
      /\ starts' = starts + 1 /\ starts < MaxStart
      /\ pool' = Tail(pool) /\ pc' = [pc EXCEPT ![c] = "start"]
      /\ UNCHANGED <<mono, offset, adjusts, queue, ids, adjuster, timeout>>
  BY DEF Allocate, Goto, timeVars, Inv, TypeOK
<1>2. /\ t \in Timer /\ t \in Range(pool) /\ Tail(pool) \in Seq(Timer)
      /\ Distinct(Tail(pool)) /\ Range(Tail(pool)) = Range(pool) \ {t}
  BY <1>1, TailFacts DEF Inv, Apart
<1> HIDE DEF t
<1>3. TypeOK'
  BY <1>1, <1>2, TimeAssumption DEF Inv, TypeOK, Pcs
<1>4. Apart'
  <2>1. \A e \in Controller : held'[e] = IF e = c THEN {t} ELSE held[e]
    BY <1>1 DEF Inv, TypeOK
  <2>2. \A e \in Controller : Range(queue'[e]) = Range(queue[e]) /\ t \notin Range(queue[e])
    BY <1>1, <1>2 DEF Inv, Apart
  <2>3. \A e \in Controller : t \notin held[e]
    BY <1>2 DEF Inv, Apart
  <2>4. Range(pool') = Range(pool) \ {t} /\ Distinct(pool')
    BY <1>1, <1>2
  <2>5. ASSUME NEW e \in Controller
        PROVE  /\ Distinct(queue'[e])
               /\ \A u, v \in held'[e] : u = v
               /\ Range(queue'[e]) \cap Range(pool') = {}
               /\ held'[e] \cap Range(pool') = {}
    BY <1>1, <2>1, <2>2, <2>4 DEF Inv, Apart
  <2>6. ASSUME NEW e \in Controller, NEW f \in Controller
        PROVE  /\ Range(queue'[e]) \cap held'[f] = {}
               /\ e # f => /\ Range(queue'[e]) \cap Range(queue'[f]) = {}
                           /\ held'[e] \cap held'[f] = {}
    BY <2>1, <2>2, <2>3 DEF Inv, Apart
  <2>7. ASSUME NEW u \in Timer
        PROVE  u \in Range(pool') \/ \E e \in Controller : u \in Range(queue'[e]) \cup held'[e]
    BY <1>1, <2>1, <2>2, <2>4 DEF Inv, Apart
  <2> QED BY <2>4, <2>5, <2>6, <2>7 DEF Apart
<1>5. Flags'
  BY <1>1, <1>2 DEF Inv, TypeOK, Flags
<1>6. \A e \in Controller : \A u \in Range(queue[e]) : due'[u] = due[u]
  <2>1. \A e \in Controller : t \notin Range(queue[e]) /\ queue[e] \in Seq(Timer)
    BY <1>2 DEF Inv, TypeOK, Apart
  <2>2. \A e \in Controller : Range(queue[e]) \subseteq Timer
    BY <2>1 DEF Range
  <2>3. \A u \in Timer : u # t => due'[u] = due[u]
    BY <1>1 DEF Inv, TypeOK
  <2> QED BY <2>1, <2>2, <2>3
<1>7. Sorted'
  BY <1>1, <1>6, OrderKept DEF Inv, Sorted, InOrder
<1>8. WakesInTime'
  BY <1>1, <1>6, AsleepKept DEF Inv, TypeOK
<1>9. AdjustsCounted'
  BY <1>1 DEF Inv, TypeOK, AdjustsCounted
<1> QED BY <1>3, <1>4, <1>5, <1>7, <1>8, <1>9 DEF Inv

\* A timer in the hands of a thread is put in its queue: startTimer, and
\* queueTimerMessages for a periodic timer.
LEMMA EnqueueSound ==
  ASSUME Inv, NEW c \in Controller, NEW label \in {"user", "timers"}, NEW t \in held[c],
         pc[c] \in {"start", "requeue"},
         queue' = [queue EXCEPT ![c] = Insert(@, t)], held' = [held EXCEPT ![c] = {}],
         pc' = [pc EXCEPT ![c] = label],
         ids' \in [Controller -> SUBSET Timer],
         UNCHANGED <<mono, offset, adjusts, pool, allocated, due, interval, starts,
                     adjuster, timeout>>
  PROVE  Inv'
<1> DEFINE q == Insert(queue[c], t)
<1>1. /\ t \in Timer /\ t \notin Range(queue[c]) /\ queue[c] \in Seq(Timer)
      /\ due \in [Timer -> Int] /\ Distinct(queue[c]) /\ InOrder(queue[c])
  BY DEF Inv, TypeOK, Apart, Sorted
<1>2. q \in Seq(Timer) /\ Distinct(q) /\ InOrder(q) /\ Range(q) = Range(queue[c]) \cup {t}
  BY <1>1, InsertFacts
<1>3. queue' = [queue EXCEPT ![c] = q]
  OBVIOUS
<1> HIDE DEF q
<1>4. TypeOK'
  BY <1>2, <1>3 DEF Inv, TypeOK, Pcs
<1>5. \A d \in Controller : queue'[d] = IF d = c THEN q ELSE queue[d]
  BY <1>3 DEF Inv, TypeOK
<1>6. Apart'
  <2>1. \A e \in Controller : held'[e] = IF e = c THEN {} ELSE held[e]
    BY DEF Inv, TypeOK
  <2>2. \A e \in Controller : Range(queue'[e]) = IF e = c THEN Range(queue[c]) \cup {t}
                                                  ELSE Range(queue[e])
    <3>1. queue'[c] = q /\ \A e \in Controller : e # c => queue'[e] = queue[e]
      BY <1>5
    <3> TAKE e \in Controller
    <3>2. CASE e = c
      BY <1>2, <3>1, <3>2
    <3>3. CASE e # c
      BY <3>1, <3>3
    <3> QED BY <3>2, <3>3
  <2>3. t \notin Range(pool) /\ \A u \in held[c] : u = t
    BY DEF Inv, Apart
  <2>4. \A e \in Controller : t \notin Range(queue[e]) /\ (e # c => t \notin held[e])
    BY DEF Inv, Apart
  <2>5. ASSUME NEW e \in Controller
        PROVE  /\ Distinct(queue'[e])
               /\ \A u, v \in held'[e] : u = v
               /\ Range(queue'[e]) \cap Range(pool') = {}
               /\ held'[e] \cap Range(pool') = {}
    BY <1>2, <1>5, <2>1, <2>2, <2>3 DEF Inv, Apart
  <2>6. ASSUME NEW e \in Controller, NEW f \in Controller
        PROVE  /\ Range(queue'[e]) \cap held'[f] = {}
               /\ e # f => /\ Range(queue'[e]) \cap Range(queue'[f]) = {}
                           /\ held'[e] \cap held'[f] = {}
    BY <2>1, <2>2, <2>4 DEF Inv, Apart
  <2>7. ASSUME NEW u \in Timer
        PROVE  u \in Range(pool') \/ \E e \in Controller : u \in Range(queue'[e]) \cup held'[e]
    BY <2>1, <2>2, <2>3 DEF Inv, Apart
  <2> QED BY <2>5, <2>6, <2>7 DEF Inv, Apart
<1>7. Flags' /\ AdjustsCounted'
  BY DEF Inv, TypeOK, Flags, AdjustsCounted
<1>8. Sorted'
  BY <1>2, <1>5 DEF Inv, Sorted, InOrder
<1>9. WakesInTime'
  BY <1>5, AsleepKept DEF Inv, TypeOK
<1> QED BY <1>4, <1>6, <1>7, <1>8, <1>9 DEF Inv

\* startTimer: the id may be kept.
LEMMA StartTimerInv ==
  ASSUME Inv, NEW c \in Controller, StartTimer(c)
  PROVE  Inv'
<1>1. PICK t \in held[c] : /\ queue' = [queue EXCEPT ![c] = Insert(@, t)]
                           /\ ids' = [ids EXCEPT ![c] = @ \cup {t}]
  BY DEF StartTimer
<1>2. /\ pc[c] = "start" /\ held' = [held EXCEPT ![c] = {}] /\ pc' = [pc EXCEPT ![c] = "user"]
      /\ UNCHANGED <<mono, offset, adjusts, pool, allocated, due, interval, starts, adjuster,
                     timeout>>
  BY DEF StartTimer, Goto, timeVars, timerVars
<1>3. ids' \in [Controller -> SUBSET Timer]
  BY <1>1 DEF Inv, TypeOK
<1> QED BY <1>1, <1>2, <1>3, EnqueueSound

LEMMA RequeueInv ==
  ASSUME Inv, NEW c \in Controller, Requeue(c)
  PROVE  Inv'
<1>1. PICK t \in held[c] : queue' = [queue EXCEPT ![c] = Insert(@, t)]
  BY DEF Requeue
<1>2. /\ pc[c] = "requeue" /\ held' = [held EXCEPT ![c] = {}] /\ pc' = [pc EXCEPT ![c] = "timers"]
      /\ UNCHANGED <<mono, offset, adjusts, pool, allocated, due, interval, starts, adjuster,
                     ids, timeout>>
  BY DEF Requeue, Goto, timeVars, timerVars
<1>3. ids' \in [Controller -> SUBSET Timer]
  BY <1>2 DEF Inv, TypeOK
<1> QED BY <1>1, <1>2, <1>3, EnqueueSound

\* A timer goes from a queue to the pool: cancelTimer, and queueTimerMessages for a timer
\* that is not periodic.
LEMMA DequeueSound ==
  ASSUME Inv, NEW c \in Controller, pc[c] # "select", NEW t \in Range(queue[c]), NEW q \in Seq(Timer),
         Distinct(q), InOrder(q), Range(q) = Range(queue[c]) \ {t},
         PutToPool(t), queue' = [queue EXCEPT ![c] = q],
         ids' \in [Controller -> SUBSET Timer],
         UNCHANGED <<mono, offset, adjusts, due, interval, starts, adjuster, pc, held, timeout>>
  PROVE  Inv'
<1>1. t \in Timer /\ t \notin Range(pool) /\ pool \in Seq(Timer) /\ Distinct(pool)
  <2>1. queue[c] \in Seq(Timer)
    BY DEF Inv, TypeOK
  <2>2. Range(queue[c]) \subseteq Timer
    BY <2>1 DEF Range
  <2> QED BY <2>2 DEF Inv, TypeOK, Apart
<1>2. /\ pool' \in Seq(Timer) /\ Distinct(pool') /\ Range(pool') = Range(pool) \cup {t}
      /\ allocated' = [allocated EXCEPT ![t] = FALSE]
  BY <1>1, ConsFacts DEF PutToPool
<1>3. queue'[c] = q /\ \A e \in Controller : e # c => queue'[e] = queue[e]
  BY DEF Inv, TypeOK
<1>4. \A e \in Controller : Range(queue'[e]) = IF e = c THEN Range(queue[c]) \ {t}
                                                ELSE Range(queue[e])
  <2> TAKE e \in Controller
  <2>1. CASE e = c
    BY <1>3, <2>1
  <2>2. CASE e # c
    BY <1>3, <2>2
  <2> QED BY <2>1, <2>2
<1>5. TypeOK'
  BY <1>2 DEF Inv, TypeOK, Pcs
<1>6. Apart'
  <2>1. \A e \in Controller : t \notin held[e] /\ (e # c => t \notin Range(queue[e]))
    BY DEF Inv, Apart
  <2>2. ASSUME NEW e \in Controller
        PROVE  /\ Distinct(queue'[e])
               /\ \A u, v \in held'[e] : u = v
               /\ Range(queue'[e]) \cap Range(pool') = {}
               /\ held'[e] \cap Range(pool') = {}
    BY <1>2, <1>3, <1>4, <2>1 DEF Inv, Apart
  <2>3. ASSUME NEW e \in Controller, NEW f \in Controller
        PROVE  /\ Range(queue'[e]) \cap held'[f] = {}
               /\ e # f => /\ Range(queue'[e]) \cap Range(queue'[f]) = {}
                           /\ held'[e] \cap held'[f] = {}
    BY <1>4 DEF Inv, Apart
  <2>4. ASSUME NEW u \in Timer
        PROVE  u \in Range(pool') \/ \E e \in Controller : u \in Range(queue'[e]) \cup held'[e]
    BY <1>2, <1>4 DEF Inv, Apart
  <2> QED BY <1>2, <2>2, <2>3, <2>4 DEF Apart
<1>7. Flags' /\ AdjustsCounted'
  BY <1>1, <1>2 DEF Inv, TypeOK, Flags, AdjustsCounted
<1>8. Sorted'
  BY <1>3 DEF Inv, Sorted, InOrder
<1>9. WakesInTime'
  BY <1>3, AsleepKept DEF Inv, TypeOK
<1> QED BY <1>5, <1>6, <1>7, <1>8, <1>9 DEF Inv

\* cancelTimer takes a timer out of the queue of the calling controller only, which is awake.
LEMMA CancelTimerInv ==
  ASSUME Inv, NEW c \in Controller, NEW t \in ids[c], CancelTimer(c, t)
  PROVE  Inv'
<1>1. /\ pc[c] # "select" /\ ids' = [ids EXCEPT ![c] = @ \ {t}]
      /\ UNCHANGED <<mono, offset, adjusts, due, interval, starts, adjuster, pc, held, timeout>>
  BY DEF CancelTimer, timeVars, timerVars, threadVars
<1>2. ids' \in [Controller -> SUBSET Timer]
  BY <1>1 DEF Inv, TypeOK
<1>3. CASE \E i \in DOMAIN queue[c] : /\ queue[c][i] = t /\ PutToPool(t)
                                      /\ queue' = [queue EXCEPT ![c] = RemoveAt(@, i)]
  <2>1. PICK i \in DOMAIN queue[c] : /\ queue[c][i] = t /\ PutToPool(t)
                                     /\ queue' = [queue EXCEPT ![c] = RemoveAt(@, i)]
    BY <1>3
  <2>2. queue[c] \in Seq(Timer) /\ Distinct(queue[c]) /\ InOrder(queue[c])
    BY DEF Inv, TypeOK, Apart, Sorted
  <2> DEFINE q == RemoveAt(queue[c], i)
  <2>3. /\ q \in Seq(Timer) /\ Distinct(q) /\ InOrder(q)
        /\ Range(q) = Range(queue[c]) \ {t}
    BY <2>1, <2>2, RemoveFacts
  <2>4. t \in Range(queue[c])
    BY <2>1 DEF Range
  <2>5. queue' = [queue EXCEPT ![c] = q]
    BY <2>1
  <2> HIDE DEF q
  <2> QED BY <1>1, <1>2, <2>1, <2>3, <2>4, <2>5, DequeueSound
<1>4. CASE UNCHANGED <<pool, allocated, queue>>
  <2>1. TypeOK' /\ Apart' /\ Flags' /\ Sorted' /\ AdjustsCounted' /\ WakesInTime'
    BY <1>1, <1>2, <1>4 DEF Inv, TypeOK, Apart, Flags, Sorted, InOrder, AdjustsCounted, WakesInTime
  <2> QED BY <2>1 DEF Inv
<1> QED BY <1>3, <1>4 DEF CancelTimer

\* queueTimerMessages takes the head out: the timer goes to the pool, or stays in the hands
\* of the thread with its next due time.
LEMMA DequeueInv ==
  ASSUME Inv, NEW c \in Controller, Dequeue(c)
  PROVE  Inv'
<1> DEFINE t == Head(queue[c])
           q == Tail(queue[c])
<1>1. /\ queue[c] \in Seq(Timer) /\ queue[c] # <<>> /\ Distinct(queue[c]) /\ InOrder(queue[c])
      /\ pc[c] = "timers"
  BY DEF Dequeue, HeadIsDue, Inv, TypeOK, Apart, Sorted
<1>2. /\ t \in Timer /\ t \in Range(queue[c]) /\ q \in Seq(Timer) /\ Distinct(q) /\ InOrder(q)
      /\ Range(q) = Range(queue[c]) \ {t}
  BY <1>1, TailFacts
<1>3. /\ queue' = [queue EXCEPT ![c] = q]
      /\ UNCHANGED <<mono, offset, adjusts, interval, starts, ids, adjuster, timeout>>
      /\ \/ PutToPool(t) /\ UNCHANGED <<due, held, pc>>
         \/ /\ interval[t] # -1 /\ due' = [due EXCEPT ![t] = @ + interval[t]]
            /\ held' = [held EXCEPT ![c] = {t}] /\ pc' = [pc EXCEPT ![c] = "requeue"]
            /\ UNCHANGED <<pool, allocated>>
  BY DEF Dequeue, Goto, timeVars
<1> HIDE DEF t, q
<1>4. CASE PutToPool(t) /\ UNCHANGED <<due, held, pc>>
  <2>1. ids' \in [Controller -> SUBSET Timer]
    BY <1>3 DEF Inv, TypeOK
  <2> QED BY <1>1, <1>2, <1>3, <1>4, <2>1, DequeueSound
<1>5. CASE /\ interval[t] # -1 /\ due' = [due EXCEPT ![t] = @ + interval[t]]
           /\ held' = [held EXCEPT ![c] = {t}] /\ pc' = [pc EXCEPT ![c] = "requeue"]
           /\ UNCHANGED <<pool, allocated>>
  <2>1. interval[t] \in Nat
    BY <1>2, <1>5, TimeAssumption DEF Inv, TypeOK
  <2>2. due' \in [Timer -> Int] /\ queue' \in [Controller -> Seq(Timer)]
        /\ held' \in [Controller -> SUBSET Timer]
    BY <1>2, <1>3, <1>5, <2>1 DEF Inv, TypeOK
  <2>3. TypeOK'
    BY <1>1, <1>3, <1>5, <2>2 DEF Inv, TypeOK, Pcs
  <2>4. queue'[c] = q /\ \A e \in Controller : e # c => queue'[e] = queue[e]
    BY <1>3 DEF Inv, TypeOK
  <2>5. \A e \in Controller : Range(queue'[e]) = IF e = c THEN Range(queue[c]) \ {t}
                                                  ELSE Range(queue[e])
    <3> TAKE e \in Controller
    <3>1. CASE e = c
      BY <1>2, <2>4, <3>1
    <3>2. CASE e # c
      BY <2>4, <3>2
    <3> QED BY <3>1, <3>2
  <2>6. \A e \in Controller : held'[e] = IF e = c THEN {t} ELSE held[e]
    BY <1>5 DEF Inv, TypeOK
  <2>7. \A e \in Controller : t \notin held[e] /\ (e # c => t \notin Range(queue[e]))
    BY <1>2 DEF Inv, Apart
  <2>8. t \notin Range(pool) /\ held[c] = {}
    BY <1>1, <1>2 DEF Inv, Apart, TypeOK
  <2>9. Apart'
    <3>1. ASSUME NEW e \in Controller
          PROVE  /\ Distinct(queue'[e])
                 /\ \A u, v \in held'[e] : u = v
                 /\ Range(queue'[e]) \cap Range(pool') = {}
                 /\ held'[e] \cap Range(pool') = {}
      BY <1>2, <1>5, <2>4, <2>5, <2>6, <2>8 DEF Inv, Apart
    <3>2. ASSUME NEW e \in Controller, NEW f \in Controller
          PROVE  /\ Range(queue'[e]) \cap held'[f] = {}
                 /\ e # f => /\ Range(queue'[e]) \cap Range(queue'[f]) = {}
                             /\ held'[e] \cap held'[f] = {}
      BY <2>5, <2>6, <2>7 DEF Inv, Apart
    <3>3. ASSUME NEW u \in Timer
          PROVE  u \in Range(pool') \/ \E e \in Controller : u \in Range(queue'[e]) \cup held'[e]
      BY <1>5, <2>5, <2>6, <2>8 DEF Inv, Apart
    <3> QED BY <1>5, <3>1, <3>2, <3>3 DEF Inv, Apart
  <2>10. \A e \in Controller : \A u \in Range(queue'[e]) : due'[u] = due[u]
    <3>1. \A e \in Controller : t \notin Range(queue'[e]) /\ queue'[e] \in Seq(Timer)
      BY <2>2, <2>5, <2>7
    <3>2. \A e \in Controller : Range(queue'[e]) \subseteq Timer
      BY <3>1 DEF Range
    <3>3. \A u \in Timer : u # t => due'[u] = due[u]
      BY <1>5 DEF Inv, TypeOK
    <3> QED BY <3>1, <3>2, <3>3
  <2>11. Sorted'
    <3>1. \A e \in Controller : InOrder(queue'[e])
      BY <1>2, <2>4 DEF Inv, Sorted
    <3> QED BY <2>10, <3>1, OrderKept DEF Sorted, InOrder
  <2>12. WakesInTime'
    <3>1. \A e \in Controller : pc'[e] = "select" => e # c /\ pc[e] = "select"
      BY <1>5 DEF Inv, TypeOK
    <3> QED BY <1>3, <2>4, <2>10, <3>1, AsleepKept DEF Inv
  <2>13. Flags' /\ AdjustsCounted'
    BY <1>3, <1>5 DEF Inv, TypeOK, Flags, AdjustsCounted
  <2> QED BY <2>3, <2>9, <2>11, <2>12, <2>13 DEF Inv
<1> QED BY <1>3, <1>4, <1>5

\* timeAdjustComplete moves all timers that are in a queue by the same amount.
LEMMA TimeAdjustCompleteInv ==
  ASSUME Inv, NEW c \in Controller, NEW delta \in Delta, TimeAdjustComplete(c, delta)
  PROVE  Inv'
<1> DEFINE queued == UNION {Range(queue[d]) : d \in Controller}
<1>1. /\ pc[c] = "adjusting" /\ offset' = offset + delta /\ delta \in Int
      /\ due' = [t \in Timer |-> IF t \in queued THEN due[t] - delta ELSE due[t]]
      /\ adjuster' = Nobody /\ pc' = [pc EXCEPT ![c] = "user"]
      /\ UNCHANGED <<mono, queue, pool, allocated, interval, starts, adjusts, ids, held, timeout>>
  BY TimeAssumption DEF TimeAdjustComplete, Goto, threadVars
<1>2. adjusts > 0
  BY <1>1 DEF Inv, AdjustsCounted
<1>3. TypeOK'
  <2>1. due' \in [Timer -> Int] /\ offset' \in Int
    BY <1>1 DEF Inv, TypeOK
  <2>2. \A e \in Controller : pc[e] = "adjusting" => e = c
    BY <1>1 DEF Inv, TypeOK
  <2> QED BY <1>1, <2>1, <2>2, NobodyAssumption DEF Inv, TypeOK, Pcs
<1>4. Sorted'
  <2> SUFFICES ASSUME NEW e \in Controller, NEW i \in DOMAIN queue[e], NEW j \in DOMAIN queue[e], i < j
               PROVE  due'[queue[e][i]] <= due'[queue[e][j]]
    BY <1>1 DEF Sorted, InOrder
  <2>1. \A k \in DOMAIN queue[e] : queue[e][k] \in Timer /\ queue[e][k] \in queued
    <3>1. queue[e] \in Seq(Timer)
      BY DEF Inv, TypeOK
    <3> QED BY <3>1 DEF Range
  <2>2. due[queue[e][i]] <= due[queue[e][j]]
    BY DEF Inv, Sorted, InOrder
  <2> HIDE DEF queued
  <2> QED BY <1>1, <2>1, <2>2 DEF Inv, TypeOK
<1> HIDE DEF queued
<1>5. Apart' /\ Flags'
  BY <1>1 DEF Inv, Apart, Flags
<1>6. AdjustsCounted' /\ WakesInTime'
  BY <1>1, <1>2 DEF Inv, TypeOK, AdjustsCounted, WakesInTime
<1> QED BY <1>3, <1>4, <1>5, <1>6 DEF Inv

\* wait: the timeout of select() is what remains to the first timer.
LEMMA WaitInv ==
  ASSUME Inv, NEW c \in Controller, Wait(c)
  PROVE  Inv'
<1>1. /\ pc[c] = "wait"
      /\ UNCHANGED <<mono, offset, adjusts, queue, pool, allocated, due, interval, starts, ids,
                     adjuster, held>>
      /\ \/ /\ queue[c] = <<>> /\ timeout' = [timeout EXCEPT ![c] = {}]
            /\ pc' = [pc EXCEPT ![c] = "select"]
         \/ /\ queue[c] # <<>> /\ timeout' = [timeout EXCEPT ![c] = {mono + TimeRemaining(c)}]
            /\ pc' = [pc EXCEPT ![c] = "select"]
         \/ /\ pc' = [pc EXCEPT ![c] = "timers"] /\ UNCHANGED timeout
  BY DEF Wait, Goto, timeVars, timerVars
<1>2. queue[c] # <<>> => due[Head(queue[c])] \in Int
  <2>1. queue[c] \in Seq(Timer) /\ due \in [Timer -> Int]
    BY DEF Inv, TypeOK
  <2> QED BY <2>1
<1>3. queue[c] # <<>> => mono + TimeRemaining(c) = due[Head(queue[c])] - offset
                         /\ mono + TimeRemaining(c) \in Int
  BY <1>2 DEF TimeRemaining, Clock, Inv, TypeOK
<1>4. TypeOK'
  <2>1. timeout' \in [Controller -> SUBSET Int]
    <3>1. CASE queue[c] = <<>> /\ timeout' = [timeout EXCEPT ![c] = {}]
      BY <3>1 DEF Inv, TypeOK
    <3>2. CASE queue[c] # <<>> /\ timeout' = [timeout EXCEPT ![c] = {mono + TimeRemaining(c)}]
      <4>1. {mono + TimeRemaining(c)} \in SUBSET Int
        BY <1>3, <3>2
      <4> QED BY <3>2, <4>1 DEF Inv, TypeOK
    <3>3. CASE UNCHANGED timeout
      BY <3>3 DEF Inv, TypeOK
    <3> QED BY <1>1, <3>1, <3>2, <3>3
  <2>2. \E label \in {"select", "timers"} : pc' = [pc EXCEPT ![c] = label]
    BY <1>1
  <2> QED BY <1>1, <2>1, <2>2 DEF Inv, TypeOK, Pcs
<1>5. Apart' /\ Flags' /\ Sorted' /\ AdjustsCounted'
  BY <1>1 DEF Inv, TypeOK, Apart, Flags, Sorted, InOrder, AdjustsCounted
<1>6. WakesInTime'
  <2> SUFFICES ASSUME NEW d \in Controller, adjusts = 0, pc'[d] = "select", queue[d] # <<>>
               PROVE  \E n \in timeout'[d] : n <= due[Head(queue[d])] - offset
    BY <1>1 DEF WakesInTime
  <2>1. CASE d = c
    <3>1. timeout'[c] = {mono + TimeRemaining(c)}
      BY <1>1, <2>1 DEF Inv, TypeOK
    <3>2. mono + TimeRemaining(c) <= due[Head(queue[c])] - offset
      BY <1>3, <2>1
    <3> QED BY <2>1, <3>1, <3>2
  <2>2. CASE d # c
    <3>1. pc[d] = "select" /\ timeout'[d] = timeout[d]
      BY <1>1, <2>2 DEF Inv, TypeOK
    <3> QED BY <3>1 DEF Inv, WakesInTime
  <2> QED BY <2>1, <2>2
<1> QED BY <1>4, <1>5, <1>6 DEF Inv

\* The other steps change no queue and no due time.
LEMMA QuietInv ==
  ASSUME Inv, NEW c \in Controller,
         TimeAdjustStart(c) \/ UserReturns(c) \/ NoneDue(c) \/ Woken(c)
  PROVE  Inv'
<1>1. /\ UNCHANGED <<mono, queue, pool, allocated, due, interval, starts, ids, held, offset>>
      /\ adjusts' \in 0 .. MaxAdjust
      /\ adjusts' = adjusts \/ adjusts' = adjusts + 1
  BY TimeAssumption DEF TimeAdjustStart, UserReturns, NoneDue, Woken, timeVars, timerVars,
     threadVars, Inv, TypeOK
<1>2. \/ /\ pc[c] = "user" /\ adjuster = Nobody /\ adjuster' = c /\ adjusts' = adjusts + 1
         /\ pc' = [pc EXCEPT ![c] = "adjusting"] /\ UNCHANGED timeout
      \/ /\ pc[c] \in {"user", "timers", "select"} /\ UNCHANGED <<adjuster, adjusts>>
         /\ \E label \in {"user", "timers", "wait"} : pc' = [pc EXCEPT ![c] = label]
         /\ timeout' = timeout \/ timeout' = [timeout EXCEPT ![c] = {}]
  BY DEF TimeAdjustStart, UserReturns, NoneDue, Woken, timeVars, timerVars, threadVars, Goto
<1>3. TypeOK'
  <2>1. CASE UNCHANGED <<adjuster, adjusts>>
    BY <1>1, <1>2, <2>1, NobodyAssumption DEF Inv, TypeOK, Pcs
  <2>2. CASE adjuster = Nobody /\ adjuster' = c /\ adjusts' = adjusts + 1
             /\ pc' = [pc EXCEPT ![c] = "adjusting"] /\ pc[c] = "user" /\ UNCHANGED timeout
    BY <1>1, <2>2, NobodyAssumption DEF Inv, TypeOK, Pcs
  <2> QED BY <1>2, <2>1, <2>2
<1>4. Apart' /\ Flags' /\ Sorted'
  BY <1>1 DEF Inv, Apart, Flags, Sorted, InOrder
<1>5. AdjustsCounted'
  BY <1>1, <1>2 DEF Inv, TypeOK, AdjustsCounted
<1>6. WakesInTime'
  BY <1>1, <1>2, AsleepKept DEF Inv, TypeOK
<1> QED BY <1>3, <1>4, <1>5, <1>6 DEF Inv

-----------------------------------------------------------------------------
\* Every step keeps the invariant.
LEMMA StepInv == Inv /\ [Next]_vars => Inv'
<1> SUFFICES ASSUME Inv, [Next]_vars PROVE Inv'
  OBVIOUS
<1>1. CASE \E c \in Controller : User(c)
  <2>1. PICK c \in Controller : User(c)
    BY <1>1
  <2>2. ASSUME NEW d \in Delay, InformAt(c, d) \/ InformIn(c, d) \/ InformEvery(c, d)
        PROVE  Inv'
    <3>1. d \in Int /\ Clock + d \in Int /\ -1 \in Delay \cup {-1} /\ d \in Delay \cup {-1}
      BY TimeAssumption DEF Clock, Inv, TypeOK
    <3> QED BY <2>2, <3>1, AllocateInv DEF InformAt, InformIn, InformEvery
  <2>3. ASSUME NEW t \in ids[c], CancelTimer(c, t) PROVE Inv'
    BY <2>3, CancelTimerInv
  <2> QED BY <2>1, <2>2, <2>3, QuietInv DEF User
<1>2. CASE \E c \in Controller : Runtime(c) \/ WokenOtherwise(c)
  <2>1. PICK c \in Controller : Runtime(c) \/ WokenOtherwise(c)
    BY <1>2
  <2> QED BY <2>1, StartTimerInv, TimeAdjustCompleteInv, QuietInv, DequeueInv, RequeueInv, WaitInv
          DEF Runtime, WokenByTimeout, WokenOtherwise
<1>3. CASE Tick
  <2>1. TypeOK' /\ Apart' /\ Flags'
    BY <1>3, TimeAssumption DEF Tick, timerVars, threadVars, Inv, TypeOK, Apart, Flags
  <2>2. Sorted' /\ AdjustsCounted' /\ WakesInTime'
    BY <1>3 DEF Tick, timerVars, threadVars, Inv, Sorted, InOrder, AdjustsCounted, WakesInTime
  <2> QED BY <2>1, <2>2 DEF Inv
<1>4. CASE UNCHANGED vars
  <2>1. TypeOK' /\ Apart' /\ Flags'
    BY <1>4 DEF vars, Inv, TypeOK, Apart, Flags
  <2>2. Sorted' /\ AdjustsCounted' /\ WakesInTime'
    BY <1>4 DEF vars, Inv, Sorted, InOrder, AdjustsCounted, WakesInTime
  <2> QED BY <2>1, <2>2 DEF Inv
<1> QED BY <1>1, <1>2, <1>3, <1>4 DEF Next

\* The inductive invariant: pool, queues and hands share no timer and leave none out, and
\* queues are in order; the history tells whether the clock was adjusted.
THEOREM Invariance == Spec => []Inv
  BY InitInv, StepInv, PTL DEF Spec

\* Every variable keeps its type, and timeAdjustMutex is held by the thread that adjusts.
THEOREM Typing == Spec => []TypeOK
<1>1. Inv => TypeOK
  BY DEF Inv
<1> QED BY <1>1, Invariance, PTL

\* A place in which a timer is, counted.
LEMMA PlacesCounted ==
  ASSUME Inv, NEW t \in Timer
  PROVE  Places(t) = 1
<1> DEFINE A == {i \in DOMAIN pool : pool[i] = t}
           B == {c \in Controller : t \in held[c]}
           C == {p \in UNION {{c} \X DOMAIN queue[c] : c \in Controller} : queue[p[1]][p[2]] = t}
<1>1. Cardinality({}) = 0 /\ \A x : Cardinality({x}) = 1
  BY FS_EmptySet, FS_Singleton
<1>2. \/ A = {} /\ B = {} /\ \E x : C = {x}
      \/ A = {} /\ C = {} /\ \E x : B = {x}
      \/ B = {} /\ C = {} /\ \E x : A = {x}
  <2>1. A # {} <=> t \in Range(pool)
    BY DEF Range
  <2>2. \A c \in Controller : t \in Range(queue[c]) <=> \E i \in DOMAIN queue[c] : queue[c][i] = t
    BY DEF Range
  <2>3. \A p \in C : /\ p[1] \in Controller /\ p[2] \in DOMAIN queue[p[1]] /\ p = <<p[1], p[2]>>
                     /\ queue[p[1]][p[2]] = t /\ t \in Range(queue[p[1]])
    BY DEF Range
  <2>4. \A c \in Controller : \A i \in DOMAIN queue[c] : queue[c][i] = t => <<c, i>> \in C
    OBVIOUS
  <2> HIDE DEF C
  <2>5. CASE t \in Range(pool)
    <3>1. B = {} /\ C = {}
      BY <2>3, <2>5 DEF Inv, Apart
    <3>2. PICK i \in DOMAIN pool : pool[i] = t
      BY <2>5 DEF Range
    <3>3. A = {i}
      BY <3>2 DEF Inv, Apart, Distinct
    <3> QED BY <3>1, <3>3
  <2>6. CASE \E c \in Controller : t \in Range(queue[c])
    <3>1. PICK c \in Controller : t \in Range(queue[c])
      BY <2>6
    <3>2. PICK i \in DOMAIN queue[c] : queue[c][i] = t
      BY <2>2, <3>1
    <3>3. A = {} /\ B = {}
      BY <2>1, <3>1 DEF Inv, Apart
    <3>4. C = {<<c, i>>}
      <4>1. \A p \in C : p[1] = c
        BY <2>3, <3>1 DEF Inv, Apart
      <4>2. \A p \in C : p[2] = i
        BY <2>3, <3>2, <4>1 DEF Inv, Apart, Distinct
      <4>3. \A p \in C : p = <<c, i>>
        BY <2>3, <4>1, <4>2
      <4> QED BY <2>4, <3>2, <4>3
    <3> QED BY <3>3, <3>4
  <2>7. CASE \E c \in Controller : t \in held[c]
    <3>1. PICK c \in Controller : t \in held[c]
      BY <2>7
    <3>2. A = {} /\ C = {}
      BY <2>1, <2>3, <3>1 DEF Inv, Apart
    <3>3. B = {c}
      BY <3>1 DEF Inv, Apart
    <3> QED BY <3>2, <3>3
  <2> QED BY <2>5, <2>6, <2>7 DEF Inv, Apart
<1>3. Places(t) = Cardinality(A) + Cardinality(B) + Cardinality(C)
  BY DEF Places
<1> HIDE DEF A, B, C
<1>4. CASE A = {} /\ B = {} /\ \E x : C = {x}
  <2>1. Cardinality(A) = 0 /\ Cardinality(B) = 0 /\ Cardinality(C) = 1
    BY <1>1, <1>4
  <2> QED BY <1>3, <2>1
<1>5. CASE A = {} /\ C = {} /\ \E x : B = {x}
  <2>1. Cardinality(A) = 0 /\ Cardinality(B) = 1 /\ Cardinality(C) = 0
    BY <1>1, <1>5
  <2> QED BY <1>3, <2>1
<1>6. CASE B = {} /\ C = {} /\ \E x : A = {x}
  <2>1. Cardinality(A) = 1 /\ Cardinality(B) = 0 /\ Cardinality(C) = 0
    BY <1>1, <1>6
  <2> QED BY <1>3, <2>1
<1> QED BY <1>2, <1>4, <1>5, <1>6

\* Pool, queues and hands of the threads: no timer is lost or linked twice, and every queue
\* is in the order of the due times, whatever is adjusted or cancelled in between.
THEOREM TimersHeld == Spec => []QueuesSound
<1>1. Inv => QueuesSound
  BY PlacesCounted DEF Inv, Flags, OneHome, QueuesSound
<1> QED BY <1>1, Invariance, PTL

\* wait() and timeRemaining: no thread sleeps past its first timer while the clock is not
\* adjusted.
THEOREM WokenInTime == Spec => []WakesInTime
<1>1. Inv => WakesInTime
  BY DEF Inv
<1> QED BY <1>1, Invariance, PTL
=============================================================================
