----------------------------- MODULE Induction -----------------------------
(***************************************************************************)
(* Induction in a form the provers can use: about the set of the numbers,  *)
(* or sequences, that have a property, instead of the property itself.     *)
(* Then facts that take such an induction: the folds of the community      *)
(* modules that find a minimum or change a sequence, and arrays in the     *)
(* order of their keys, with their bisection.                              *)
(***************************************************************************)
EXTENDS Integers, Sequences, SequencesExt, FiniteSetsExt, SequenceTheorems, WellFoundedInduction,
        TLAPS

\* A set of natural numbers has a least one.
LEMMA Least ==
  ASSUME NEW T \in SUBSET Nat, T # {}
  PROVE  \E m \in T : \A k \in T : m <= k
<1> DEFINE R == {ss \in Nat \X Nat : ss[1] < ss[2]}
<1>1. IsWellFoundedOn(R, Nat)
  BY NatLessThanWellFounded DEF OpToRel
<1>2. \A x, y \in Nat : <<y, x>> \in R <=> y < x
  OBVIOUS
<1> HIDE DEF R
<1>3. PICK m \in T : \A k \in T : ~ (<<k, m>> \in R)
  BY <1>1, WFMin
<1>4. \A k \in T : m \in Nat /\ k \in Nat
  OBVIOUS
<1>5. \A k \in T : ~ (k < m)
  BY <1>2, <1>3, <1>4
<1> QED BY <1>4, <1>5

\* A set of natural numbers that holds 0, and with each number the next one, holds all.
LEMMA NumberInduction ==
  ASSUME NEW T \in SUBSET Nat, 0 \in T, \A n \in T : n + 1 \in T
  PROVE  T = Nat
<1> SUFFICES ASSUME Nat \ T # {} PROVE FALSE
  OBVIOUS
<1>1. PICK m \in Nat \ T : \A k \in Nat \ T : m <= k
  BY Least
<1>2. m - 1 \in T
  BY <1>1
<1> QED BY <1>1, <1>2

\* A set of sequences that holds the empty one, and with each sequence those that are longer
\* by one, holds all.
LEMMA SequenceInduction ==
  ASSUME NEW S, NEW T \in SUBSET Seq(S),
         <<>> \in T, \A s \in T, e \in S : Append(s, e) \in T
  PROVE  T = Seq(S)
<1> DEFINE N == {n \in Nat : \A s \in Seq(S) : Len(s) = n => s \in T}
<1>1. 0 \in N
  BY EmptySeq
<1>2. ASSUME NEW n \in N PROVE n + 1 \in N
  <2> SUFFICES ASSUME NEW s \in Seq(S), Len(s) = n + 1 PROVE s \in T
    OBVIOUS
  <2>1. s # <<>>
    BY EmptySeq
  <2>2. PICK r \in Seq(S), e \in S : s = Append(r, e)
    BY <2>1, SequenceEmptyOrAppend
  <2>3. Len(r) = n
    BY <2>2, AppendProperties
  <2> QED BY <2>2, <2>3
<1>3. N = Nat
  <2>1. N \in SUBSET Nat
    OBVIOUS
  <2> HIDE DEF N
  <2> QED BY <1>1, <1>2, <2>1, NumberInduction
<1>4. \A s \in Seq(S) : Len(s) \in Nat
  OBVIOUS
<1> QED BY <1>3, <1>4

\* The least of a set of numbers is one of them.
LEMMA MinIs ==
  ASSUME NEW X \in SUBSET Nat, X # {}
  PROVE  Min(X) \in X /\ \A y \in X : Min(X) <= y
<1>1. \E x \in X : \A y \in X : x <= y
  BY Least
<1> QED BY <1>1 DEF Min

\* A sequence without its element at i.
LEMMA RemoveAtIs ==
  ASSUME NEW S, NEW q \in Seq(S), NEW i \in 1 .. Len(q)
  PROVE  /\ RemoveAt(q, i) \in Seq(S)
         /\ Len(RemoveAt(q, i)) = Len(q) - 1
         /\ \A j \in 1 .. Len(q) - 1 : RemoveAt(q, i)[j] = IF j < i THEN q[j] ELSE q[j + 1]
<1> DEFINE left == SubSeq(q, 1, i - 1)
           right == SubSeq(q, i + 1, Len(q))
           w == RemoveAt(q, i)
<1>1. Len(q) \in Nat /\ DOMAIN q = 1 .. Len(q) /\ \A j \in 1 .. Len(q) : q[j] \in S
  BY ElementOfSeq
<1>2. left \in Seq(S) /\ Len(left) = i - 1 /\ \A j \in 1 .. i - 1 : left[j] = q[j]
  <2>1. 1 \in Int /\ i - 1 \in Int /\ \A j \in 1 .. i - 1 : q[j] \in S
    BY <1>1
  <2>2. Len(left) = IF 1 <= i - 1 THEN i - 1 - 1 + 1 ELSE 0
    BY <2>1, SubSeqProperties
  <2>3. \A j \in 1 .. i - 1 - 1 + 1 : left[j] = q[1 + j - 1]
    BY <2>1, SubSeqProperties
  <2>4. left \in Seq(S)
    BY <2>1, SubSeqProperties
  <2> HIDE DEF left
  <2>5. Len(left) = i - 1
    BY <1>1, <2>2
  <2>6. \A j \in 1 .. i - 1 : left[j] = q[j]
    <3> SUFFICES ASSUME NEW j \in 1 .. i - 1 PROVE left[j] = q[j]
      OBVIOUS
    <3>1. j \in 1 .. i - 1 - 1 + 1 /\ 1 + j - 1 = j
      BY <1>1
    <3> QED BY <2>3, <3>1
  <2> QED BY <2>4, <2>5, <2>6
<1>3. right \in Seq(S) /\ Len(right) = Len(q) - i
      /\ \A j \in 1 .. Len(q) - i : right[j] = q[j + i]
  <2>1. i + 1 \in Int /\ Len(q) \in Int /\ \A j \in i + 1 .. Len(q) : q[j] \in S
    BY <1>1
  <2>2. Len(right) = IF i + 1 <= Len(q) THEN Len(q) - (i + 1) + 1 ELSE 0
    BY <2>1, SubSeqProperties
  <2>3. \A j \in 1 .. Len(q) - (i + 1) + 1 : right[j] = q[i + 1 + j - 1]
    BY <2>1, SubSeqProperties
  <2>4. right \in Seq(S)
    BY <2>1, SubSeqProperties
  <2> HIDE DEF right
  <2>5. Len(right) = Len(q) - i
    <3>1. Len(q) \in Nat /\ i \in 1 .. Len(q)
      BY <1>1
    <3>2. IF i + 1 <= Len(q) THEN Len(q) - (i + 1) + 1 = Len(q) - i ELSE 0 = Len(q) - i
      BY <3>1
    <3> QED BY <2>2, <3>2
  <2>6. \A j \in 1 .. Len(q) - i : right[j] = q[j + i]
    <3> SUFFICES ASSUME NEW j \in 1 .. Len(q) - i PROVE right[j] = q[j + i]
      OBVIOUS
    <3>1. j \in 1 .. Len(q) - (i + 1) + 1 /\ i + 1 + j - 1 = j + i
      BY <1>1
    <3> QED BY <2>3, <3>1
  <2> QED BY <2>4, <2>5, <2>6
<1>4. w = left \o right
  BY DEF RemoveAt
<1> HIDE DEF left, right, w
<1>5. w \in Seq(S) /\ Len(w) = Len(left) + Len(right)
      /\ \A j \in 1 .. Len(left) + Len(right) :
           w[j] = IF j <= Len(left) THEN left[j] ELSE right[j - Len(left)]
  BY <1>2, <1>3, <1>4, ConcatProperties
<1>6. Len(w) = Len(q) - 1
  BY <1>1, <1>2, <1>3, <1>5
<1>7. \A j \in 1 .. Len(q) - 1 : w[j] = IF j < i THEN q[j] ELSE q[j + 1]
  <2> SUFFICES ASSUME NEW j \in 1 .. Len(q) - 1
               PROVE  w[j] = IF j < i THEN q[j] ELSE q[j + 1]
    OBVIOUS
  <2>1. j \in 1 .. Len(left) + Len(right) /\ (j < i <=> j <= Len(left))
    BY <1>1, <1>2, <1>3
  <2>2. CASE j < i
    <3>1. j \in 1 .. i - 1
      BY <1>1, <2>2
    <3> QED BY <1>2, <1>5, <2>1, <2>2, <3>1
  <2>3. CASE ~ (j < i)
    <3>1. j - Len(left) \in 1 .. Len(q) - i /\ j - Len(left) + i = j + 1
      BY <1>1, <1>2, <2>3
    <3> QED BY <1>3, <1>5, <2>1, <2>3, <3>1
  <2> QED BY <2>2, <2>3
<1> QED BY <1>5, <1>6, <1>7 DEF w

\* A sequence with an element put at i.
LEMMA InsertAtIs ==
  ASSUME NEW S, NEW q \in Seq(S), NEW i \in 1 .. Len(q) + 1, NEW e \in S
  PROVE  /\ InsertAt(q, i, e) \in Seq(S)
         /\ Len(InsertAt(q, i, e)) = Len(q) + 1
         /\ \A j \in 1 .. Len(q) + 1 :
              InsertAt(q, i, e)[j] = IF j < i THEN q[j] ELSE IF j = i THEN e ELSE q[j - 1]
<1> DEFINE left == SubSeq(q, 1, i - 1)
           right == SubSeq(q, i, Len(q))
           single == <<e>>
           w == InsertAt(q, i, e)
<1>1. Len(q) \in Nat /\ DOMAIN q = 1 .. Len(q) /\ \A j \in 1 .. Len(q) : q[j] \in S
  BY ElementOfSeq
<1>2. left \in Seq(S) /\ Len(left) = i - 1 /\ \A j \in 1 .. i - 1 : left[j] = q[j]
  <2>1. 1 \in Int /\ i - 1 \in Int /\ \A j \in 1 .. i - 1 : q[j] \in S
    BY <1>1
  <2>2. Len(left) = IF 1 <= i - 1 THEN i - 1 - 1 + 1 ELSE 0
    BY <2>1, SubSeqProperties
  <2>3. \A j \in 1 .. i - 1 - 1 + 1 : left[j] = q[1 + j - 1]
    BY <2>1, SubSeqProperties
  <2>4. left \in Seq(S)
    BY <2>1, SubSeqProperties
  <2> HIDE DEF left
  <2>5. Len(left) = i - 1
    BY <1>1, <2>2
  <2>6. \A j \in 1 .. i - 1 : left[j] = q[j]
    <3> SUFFICES ASSUME NEW j \in 1 .. i - 1 PROVE left[j] = q[j]
      OBVIOUS
    <3>1. j \in 1 .. i - 1 - 1 + 1 /\ 1 + j - 1 = j
      BY <1>1
    <3> QED BY <2>3, <3>1
  <2> QED BY <2>4, <2>5, <2>6
<1>3. right \in Seq(S) /\ Len(right) = Len(q) - i + 1
      /\ \A j \in 1 .. Len(q) - i + 1 : right[j] = q[j + i - 1]
  <2>1. i \in Int /\ Len(q) \in Int /\ \A j \in i .. Len(q) : q[j] \in S
    BY <1>1
  <2>2. Len(right) = IF i <= Len(q) THEN Len(q) - i + 1 ELSE 0
    BY <2>1, SubSeqProperties
  <2>3. \A j \in 1 .. Len(q) - i + 1 : right[j] = q[i + j - 1]
    BY <2>1, SubSeqProperties
  <2>4. right \in Seq(S)
    BY <2>1, SubSeqProperties
  <2> HIDE DEF right
  <2>5. Len(right) = Len(q) - i + 1
    <3>1. Len(q) \in Nat /\ i \in 1 .. Len(q) + 1
      BY <1>1
    <3>2. IF i <= Len(q) THEN TRUE ELSE 0 = Len(q) - i + 1
      BY <3>1
    <3> QED BY <2>2, <3>2
  <2>6. \A j \in 1 .. Len(q) - i + 1 : right[j] = q[j + i - 1]
    <3> SUFFICES ASSUME NEW j \in 1 .. Len(q) - i + 1 PROVE right[j] = q[j + i - 1]
      OBVIOUS
    <3>1. i + j - 1 = j + i - 1
      BY <1>1
    <3> QED BY <2>3, <3>1
  <2> QED BY <2>4, <2>5, <2>6
<1>4. single \in Seq(S) /\ Len(single) = 1 /\ single[1] = e
  OBVIOUS
<1>5. w = (left \o single) \o right
  BY DEF InsertAt
<1> HIDE DEF left, right, single, w
<1> DEFINE front == left \o single
<1>6. front \in Seq(S) /\ Len(front) = i
      /\ \A j \in 1 .. i : front[j] = IF j < i THEN q[j] ELSE e
  <2>1. front \in Seq(S) /\ Len(front) = Len(left) + Len(single)
        /\ \A j \in 1 .. Len(left) + Len(single) :
             front[j] = IF j <= Len(left) THEN left[j] ELSE single[j - Len(left)]
    BY <1>2, <1>4, ConcatProperties
  <2> HIDE DEF front
  <2>2. Len(left) + Len(single) = i
    BY <1>2, <1>4
  <2>3. ASSUME NEW j \in 1 .. i PROVE front[j] = IF j < i THEN q[j] ELSE e
    <3>1. CASE j < i
      <4>1. j \in 1 .. i - 1 /\ j <= Len(left)
        BY <1>2, <3>1
      <4> QED BY <1>2, <2>1, <2>2, <3>1, <4>1
    <3>2. CASE j = i
      <4>1. ~ (j <= Len(left)) /\ j - Len(left) = 1
        BY <1>2, <3>2
      <4> QED BY <1>4, <2>1, <2>2, <3>2, <4>1
    <3> QED BY <3>1, <3>2
  <2> QED BY <2>1, <2>2, <2>3
<1>7. w = front \o right
  BY <1>5
<1> HIDE DEF front
<1>8. w \in Seq(S) /\ Len(w) = Len(front) + Len(right)
      /\ \A j \in 1 .. Len(front) + Len(right) :
           w[j] = IF j <= Len(front) THEN front[j] ELSE right[j - Len(front)]
  BY <1>3, <1>6, <1>7, ConcatProperties
<1>9. Len(front) + Len(right) = Len(q) + 1
  BY <1>1, <1>3, <1>6
<1>10. \A j \in 1 .. Len(q) + 1 :
         w[j] = IF j < i THEN q[j] ELSE IF j = i THEN e ELSE q[j - 1]
  <2> SUFFICES ASSUME NEW j \in 1 .. Len(q) + 1
               PROVE  w[j] = IF j < i THEN q[j] ELSE IF j = i THEN e ELSE q[j - 1]
    OBVIOUS
  <2>1. CASE j <= i
    <3>1. j \in 1 .. i /\ j <= Len(front)
      BY <1>1, <1>6, <2>1
    <3>2. w[j] = front[j]
      BY <1>8, <1>9, <3>1
    <3> QED BY <1>6, <2>1, <3>1, <3>2
  <2>2. CASE ~ (j <= i)
    <3>1. j - i \in 1 .. Len(q) - i + 1 /\ j - i + i - 1 = j - 1
      BY <1>1, <2>2
    <3>2. w[j] = right[j - i]
      <4>1. j \in 1 .. Len(front) + Len(right)
        BY <1>9
      <4>2. w[j] = IF j <= Len(front) THEN front[j] ELSE right[j - Len(front)]
        BY <1>8, <4>1
      <4> QED BY <1>6, <2>2, <4>2
    <3> QED BY <1>3, <2>2, <3>1, <3>2
  <2> QED BY <2>1, <2>2
<1> QED BY <1>8, <1>9, <1>10 DEF w

\* Numbers that increase from each to the next increase.
LEMMA Increases ==
  ASSUME NEW n \in Nat, NEW f, \A i \in 1 .. n : f[i] \in Int,
         \A i \in 1 .. n - 1 : f[i] < f[i + 1]
  PROVE  \A i, j \in 1 .. n : i < j => f[i] < f[j]
<1> DEFINE T == {d \in Nat : \A i, j \in 1 .. n : i < j /\ j - i <= d => f[i] < f[j]}
<1>1. 0 \in T
  OBVIOUS
<1>2. ASSUME NEW d \in T PROVE d + 1 \in T
  <2> SUFFICES ASSUME NEW i \in 1 .. n, NEW j \in 1 .. n, i < j, j - i <= d + 1
               PROVE  f[i] < f[j]
    OBVIOUS
  <2>1. CASE j = i + 1
    BY <2>1
  <2>2. CASE j > i + 1
    <3>1. j - 1 \in 1 .. n /\ i < j - 1 /\ j - 1 - i <= d /\ j - 1 \in 1 .. n - 1 /\ j - 1 + 1 = j
      BY <2>2
    <3>2. f[i] < f[j - 1] /\ f[j - 1] < f[j]
      BY <3>1
    <3>3. f[i] \in Int /\ f[j - 1] \in Int /\ f[j] \in Int
      BY <3>1
    <3> QED BY <3>2, <3>3
  <2> QED BY <2>1, <2>2
<1>3. T = Nat
  <2>1. T \in SUBSET Nat
    OBVIOUS
  <2> HIDE DEF T
  <2> QED BY <1>1, <1>2, <2>1, NumberInduction
<1>4. ASSUME NEW i \in 1 .. n, NEW j \in 1 .. n, i < j PROVE f[i] < f[j]
  <2>1. j - i \in Nat
    BY <1>4
  <2>2. j - i \in T
    <3> HIDE DEF T
    <3> QED BY <1>3, <2>1
  <2> QED BY <1>4, <2>2
<1> QED BY <1>4

-----------------------------------------------------------------------------
(* Arrays of entries in the order of their keys. *)

Sorted(m) == \A i, j \in 1 .. Len(m) : i < j => m[i].key < m[j].key

Entries(m) == {m[i] : i \in 1 .. Len(m)}

Others(m, key) == {d \in Entries(m) : d.key # key}

\* The entry for a key is replaced.
LEMMA ReplacedInOrder ==
  ASSUME NEW S, \A d \in S : d.key \in Int, NEW m \in Seq(S), Sorted(m),
         NEW i \in 1 .. Len(m), NEW e \in S, e.key = m[i].key
  PROVE  /\ [m EXCEPT ![i] = e] \in Seq(S) /\ Sorted([m EXCEPT ![i] = e])
         /\ Entries([m EXCEPT ![i] = e]) = Others(m, e.key) \cup {e}
<1> DEFINE w == [m EXCEPT ![i] = e]
<1>1. Len(m) \in Nat /\ DOMAIN m = 1 .. Len(m) /\ \A j \in 1 .. Len(m) : m[j] \in S
  BY ElementOfSeq
<1>2. w \in Seq(S) /\ Len(w) = Len(m) /\ \A j \in 1 .. Len(m) : w[j] = IF j = i THEN e ELSE m[j]
  BY <1>1
<1> HIDE DEF w
<1>3. \A j \in 1 .. Len(m) : w[j].key = m[j].key
  BY <1>2
<1>4. Sorted(w)
  BY <1>2, <1>3 DEF Sorted
<1>5. \A j \in 1 .. Len(m) : j # i => m[j].key # e.key
  <2> SUFFICES ASSUME NEW j \in 1 .. Len(m), j # i PROVE m[j].key # e.key
    OBVIOUS
  <2>1. m[j].key \in Int /\ m[i].key \in Int
    BY <1>1
  <2>2. m[j].key < m[i].key \/ m[i].key < m[j].key
    <3>1. j < i \/ i < j
      BY <1>1
    <3> QED BY <3>1 DEF Sorted
  <2> QED BY <2>1, <2>2
<1>6. Entries(w) = Others(m, e.key) \cup {e}
  <2>1. ASSUME NEW d \in Entries(w) PROVE d \in Others(m, e.key) \cup {e}
    <3>1. PICK j \in 1 .. Len(m) : d = w[j]
      BY <1>2 DEF Entries
    <3> QED BY <1>2, <1>5, <3>1 DEF Entries, Others
  <2>2. e \in Entries(w)
    BY <1>2 DEF Entries
  <2>3. ASSUME NEW d \in Others(m, e.key) PROVE d \in Entries(w)
    <3>1. PICK j \in 1 .. Len(m) : d = m[j]
      BY DEF Entries, Others
    <3>2. j # i
      BY <3>1 DEF Others
    <3> QED BY <1>2, <3>1, <3>2 DEF Entries
  <2> QED BY <2>1, <2>2, <2>3
<1> QED BY <1>2, <1>4, <1>6 DEF w

\* The keys of the entries before i, and no others, are smaller.
Place(m, key, i) == i \in 1 .. Len(m) + 1 /\ \A j \in 1 .. Len(m) : j < i <=> m[j].key < key

\* An entry is put before the first one with a larger key.
LEMMA InsertedInOrder ==
  ASSUME NEW S, \A d \in S : d.key \in Int, NEW m \in Seq(S), Sorted(m),
         NEW e \in S, NEW i \in 1 .. Len(m) + 1, Place(m, e.key, i),
         \A d \in Entries(m) : d.key # e.key
  PROVE  /\ InsertAt(m, i, e) \in Seq(S) /\ Sorted(InsertAt(m, i, e))
         /\ Entries(InsertAt(m, i, e)) = Others(m, e.key) \cup {e}
<1> DEFINE w == InsertAt(m, i, e)
<1>1. Len(m) \in Nat /\ DOMAIN m = 1 .. Len(m) /\ \A j \in 1 .. Len(m) : m[j] \in S
  BY ElementOfSeq
<1>2. w \in Seq(S) /\ Len(w) = Len(m) + 1
      /\ \A j \in 1 .. Len(m) + 1 : w[j] = IF j < i THEN m[j] ELSE IF j = i THEN e ELSE m[j - 1]
  <2>1. w \in Seq(S)
    BY InsertAtIs
  <2>2. Len(w) = Len(m) + 1
    BY InsertAtIs
  <2>3. \A j \in 1 .. Len(m) + 1 :
          w[j] = IF j < i THEN m[j] ELSE IF j = i THEN e ELSE m[j - 1]
    BY InsertAtIs
  <2> QED BY <2>1, <2>2, <2>3
<1> HIDE DEF w
<1>3. Sorted(w)
  <2> SUFFICES ASSUME NEW j \in 1 .. Len(m), w[j].key \in Int, w[j + 1].key \in Int
               PROVE  w[j].key < w[j + 1].key
    <3> DEFINE f == [j \in 1 .. Len(m) + 1 |-> w[j].key]
    <3>1. \A j \in 1 .. Len(m) + 1 : f[j] \in Int
      BY <1>2, ElementOfSeq
    <3>2. \A j \in 1 .. Len(m) + 1 - 1 : f[j] < f[j + 1]
      <4> SUFFICES ASSUME NEW j \in 1 .. Len(m) + 1 - 1 PROVE f[j] < f[j + 1]
        OBVIOUS
      <4>1. j \in 1 .. Len(m) + 1 /\ j + 1 \in 1 .. Len(m) + 1 /\ j \in 1 .. Len(m)
        BY <1>1
      <4> QED BY <3>1, <4>1
    <3>3. Len(m) + 1 \in Nat
      BY <1>1
    <3>4. \A j \in 1 .. Len(m) + 1 : f[j] = w[j].key
      OBVIOUS
    <3> HIDE DEF f
    <3>5. \A j, k \in 1 .. Len(m) + 1 : j < k => f[j] < f[k]
      <4> DEFINE n == Len(m) + 1
      <4>1. n \in Nat /\ (\A j \in 1 .. n : f[j] \in Int) /\ \A j \in 1 .. n - 1 : f[j] < f[j + 1]
        BY <3>1, <3>2, <3>3
      <4> HIDE DEF n
      <4>2. \A j, k \in 1 .. n : j < k => f[j] < f[k]
        BY <4>1, Increases
      <4> QED BY <4>2 DEF n
    <3> QED BY <1>2, <3>4, <3>5 DEF Sorted
  <2>1. j \in 1 .. Len(m) + 1 /\ j + 1 \in 1 .. Len(m) + 1 /\ j + 1 - 1 = j
    BY <1>1
  <2>2. CASE j + 1 < i
    <3>1. w[j] = m[j] /\ w[j + 1] = m[j + 1] /\ j < j + 1 /\ j + 1 \in 1 .. Len(m)
      BY <1>1, <1>2, <2>1, <2>2
    <3> QED BY <3>1 DEF Sorted
  <2>3. CASE j + 1 = i
    <3>1. w[j] = m[j] /\ w[j + 1] = e /\ j < i
      BY <1>2, <2>1, <2>3
    <3> QED BY <3>1 DEF Place
  <2>4. CASE j = i
    <3>1. w[j] = e /\ w[j + 1] = m[j] /\ ~ (j < i)
      BY <1>2, <2>1, <2>4
    <3>2. ~ (m[j].key < e.key) /\ m[j].key # e.key
      BY <3>1 DEF Place, Entries
    <3>3. m[j].key \in Int /\ e.key \in Int
      BY <1>1
    <3> QED BY <3>1, <3>2, <3>3
  <2>5. CASE j > i
    <3>1. w[j] = m[j - 1] /\ w[j + 1] = m[j] /\ j - 1 < j /\ j - 1 \in 1 .. Len(m)
      BY <1>1, <1>2, <2>1, <2>5
    <3> QED BY <3>1 DEF Sorted
  <2> QED BY <1>1, <2>2, <2>3, <2>4, <2>5
<1>4. Entries(w) = Others(m, e.key) \cup {e}
  <2>1. ASSUME NEW d \in Entries(w) PROVE d \in Others(m, e.key) \cup {e}
    <3>1. PICK j \in 1 .. Len(m) + 1 : d = w[j]
      BY <1>2 DEF Entries
    <3>2. d = e \/ \E k \in 1 .. Len(m) : d = m[k]
      <4>1. j < i => j \in 1 .. Len(m)
        BY <1>1
      <4>2. ~ (j < i) /\ j # i => j - 1 \in 1 .. Len(m)
        BY <1>1
      <4> QED BY <1>2, <3>1, <4>1, <4>2
    <3> QED BY <3>2 DEF Entries, Others
  <2>2. e \in Entries(w)
    BY <1>1, <1>2 DEF Entries
  <2>3. ASSUME NEW d \in Others(m, e.key) PROVE d \in Entries(w)
    <3>1. PICK j \in 1 .. Len(m) : d = m[j]
      BY DEF Entries, Others
    <3>2. CASE j < i
      <4>1. j \in 1 .. Len(m) + 1
        BY <1>1
      <4> QED BY <1>2, <3>1, <3>2, <4>1 DEF Entries
    <3>3. CASE ~ (j < i)
      <4>1. j + 1 \in 1 .. Len(m) + 1
        BY <1>1
      <4>2. ~ (j + 1 < i) /\ j + 1 # i /\ j + 1 - 1 = j
        BY <3>3
      <4> QED BY <1>2, <3>1, <4>1, <4>2 DEF Entries
    <3> QED BY <3>2, <3>3
  <2> QED BY <2>1, <2>2, <2>3
<1> QED BY <1>2, <1>3, <1>4 DEF w

\* An entry is taken out.
LEMMA RemovedInOrder ==
  ASSUME NEW S, \A d \in S : d.key \in Int, NEW m \in Seq(S), Sorted(m), NEW i \in 1 .. Len(m)
  PROVE  /\ RemoveAt(m, i) \in Seq(S) /\ Sorted(RemoveAt(m, i))
         /\ Entries(RemoveAt(m, i)) = Others(m, m[i].key)
<1> DEFINE w == RemoveAt(m, i)
           old(j) == IF j < i THEN j ELSE j + 1
<1>1. Len(m) \in Nat /\ DOMAIN m = 1 .. Len(m) /\ \A j \in 1 .. Len(m) : m[j] \in S
  BY ElementOfSeq
<1>2. w \in Seq(S) /\ Len(w) = Len(m) - 1
      /\ \A j \in 1 .. Len(m) - 1 : w[j] = IF j < i THEN m[j] ELSE m[j + 1]
  BY RemoveAtIs
<1> HIDE DEF w
<1>3. \A j \in 1 .. Len(m) - 1 : old(j) \in 1 .. Len(m) /\ old(j) # i /\ w[j] = m[old(j)]
  BY <1>1, <1>2
<1>4. \A j, k \in 1 .. Len(m) - 1 : j < k => old(j) < old(k)
  BY <1>1
<1> HIDE DEF old
<1>5. Sorted(w)
  BY <1>2, <1>3, <1>4 DEF Sorted
<1>6. \A j \in 1 .. Len(m) : j # i => m[j].key # m[i].key
  <2> SUFFICES ASSUME NEW j \in 1 .. Len(m), j # i PROVE m[j].key # m[i].key
    OBVIOUS
  <2>1. m[j].key \in Int /\ m[i].key \in Int
    BY <1>1
  <2>2. m[j].key < m[i].key \/ m[i].key < m[j].key
    <3>1. j < i \/ i < j
      BY <1>1
    <3> QED BY <3>1 DEF Sorted
  <2> QED BY <2>1, <2>2
<1>7. Entries(w) = Others(m, m[i].key)
  <2>1. ASSUME NEW d \in Entries(w) PROVE d \in Others(m, m[i].key)
    <3>1. PICK j \in 1 .. Len(m) - 1 : d = w[j]
      BY <1>2 DEF Entries
    <3> QED BY <1>3, <1>6, <3>1 DEF Entries, Others
  <2>2. ASSUME NEW d \in Others(m, m[i].key) PROVE d \in Entries(w)
    <3>1. PICK j \in 1 .. Len(m) : d = m[j]
      BY DEF Entries, Others
    <3>2. j # i
      BY <3>1 DEF Others
    <3>3. PICK k \in 1 .. Len(m) - 1 : old(k) = j
      <4>1. j < i => j \in 1 .. Len(m) - 1 /\ old(j) = j
        BY <1>1 DEF old
      <4>2. j > i => j - 1 \in 1 .. Len(m) - 1 /\ old(j - 1) = j
        BY <1>1 DEF old
      <4> QED BY <1>1, <3>2, <4>1, <4>2
    <3> QED BY <1>2, <1>3, <3>1, <3>3 DEF Entries
  <2> QED BY <2>1, <2>2
<1> QED BY <1>2, <1>5, <1>7 DEF w

-----------------------------------------------------------------------------
(* An array in order is searched by bisection: order[i] tells how its entry *)
(* at location i, counted from 0, compares to what is looked for.           *)

Ranges(size) == (0 .. size) \X (-1 .. size - 1)

\* One step of the search, which goes on with one of the halves.
Halved(size, order, search, range) ==
  LET min == range[1]  max == range[2]  mid == (min + max) \div 2 IN
  CASE min > max /\ min < size - 1 /\ order[min] < 0 -> min + 1
    [] min > max /\ ~(min < size - 1 /\ order[min] < 0) -> min
    [] min <= max /\ order[mid] = 0 -> mid
    [] min <= max /\ order[mid] < 0 ->
         IF mid + 1 >= size THEN size ELSE search[<<mid + 1, max>>]
    [] OTHER -> IF mid - 1 < 0 THEN 0 ELSE search[<<min, mid - 1>>]

Width(range) == IF range[1] <= range[2] THEN range[2] - range[1] + 1 ELSE 0

Searches(size, order, search) ==
  search = [range \in Ranges(size) |-> Halved(size, order, search, range)]

\* A step depends on the searches of narrower ranges only.
LEMMA HalvedNarrows ==
  ASSUME NEW size \in Nat, NEW order, NEW range \in Ranges(size), NEW f, NEW g,
         \A r \in Ranges(size) : Width(r) < Width(range) => f[r] = g[r]
  PROVE  Halved(size, order, f, range) = Halved(size, order, g, range)
<1> DEFINE min == range[1]
           max == range[2]
           mid == (min + max) \div 2
<1>1. min \in 0 .. size /\ max \in -1 .. size - 1
  BY DEF Ranges
<1>2. CASE min > max
  BY <1>1, <1>2 DEF Halved
<1>3. CASE min <= max
  <2>1. mid \in min .. max
    BY <1>1, <1>3
  <2>2. ASSUME mid + 1 < size PROVE f[<<mid + 1, max>>] = g[<<mid + 1, max>>]
    <3>1. <<mid + 1, max>> \in Ranges(size) /\ Width(<<mid + 1, max>>) < Width(range)
      BY <1>1, <1>3, <2>1, <2>2 DEF Ranges, Width
    <3> HIDE DEF mid, max
    <3> QED BY <3>1
  <2>3. ASSUME mid - 1 >= 0 PROVE f[<<min, mid - 1>>] = g[<<min, mid - 1>>]
    <3>1. <<min, mid - 1>> \in Ranges(size) /\ Width(<<min, mid - 1>>) < Width(range)
      BY <1>1, <1>3, <2>1, <2>3 DEF Ranges, Width
    <3> HIDE DEF mid, min
    <3> QED BY <3>1
  <2> QED BY <1>1, <1>3, <2>1, <2>2, <2>3 DEF Halved
<1> QED BY <1>1, <1>2, <1>3

\* The recursion ends: there is such a function.
LEMMA SearchExists ==
  ASSUME NEW size \in Nat, NEW order
  PROVE  \E search : Searches(size, order, search)
<1> DEFINE R == Ranges(size)
           Solves(f, n) == \A r \in R : Width(r) <= n => f[r] = Halved(size, order, f, r)
           T == {n \in Nat : \E f : Solves(f, n)}
<1>1. \A r \in R : Width(r) \in 0 .. size
  BY DEF Ranges, Width
<1>2. 0 \in T
  <2> DEFINE f == [r \in R |-> Halved(size, order, 0, r)]
  <2>1. ASSUME NEW r \in R, Width(r) <= 0 PROVE f[r] = Halved(size, order, f, r)
    <3> HIDE DEF f
    <3>1. \A q \in Ranges(size) : Width(q) < Width(r) => 0[q] = f[q]
      BY <1>1, <2>1
    <3>2. Halved(size, order, 0, r) = Halved(size, order, f, r)
      BY <3>1, HalvedNarrows
    <3> QED BY <3>2 DEF f
  <2> HIDE DEF f
  <2>2. Solves(f, 0)
    BY <2>1
  <2> QED BY <2>2
<1>3. ASSUME NEW n \in T PROVE n + 1 \in T
  <2>1. PICK f : Solves(f, n)
    OBVIOUS
  <2> DEFINE g == [r \in R |-> IF Width(r) <= n THEN f[r] ELSE Halved(size, order, f, r)]
  <2>2. \A r \in R : Width(r) <= n => g[r] = f[r]
    OBVIOUS
  <2>3. \A r \in R : ~ (Width(r) <= n) => g[r] = Halved(size, order, f, r)
    OBVIOUS
  <2> HIDE DEF g
  <2>4. ASSUME NEW r \in R, Width(r) <= n + 1 PROVE g[r] = Halved(size, order, g, r)
    <3>1. \A q \in Ranges(size) : Width(q) < Width(r) => f[q] = g[q]
      BY <1>1, <2>2, <2>4
    <3>2. Halved(size, order, f, r) = Halved(size, order, g, r)
      BY <3>1, HalvedNarrows
    <3>3. g[r] = Halved(size, order, f, r)
      BY <2>1, <2>2, <2>3
    <3> QED BY <3>2, <3>3
  <2>5. Solves(g, n + 1)
    BY <2>4
  <2> QED BY <2>5
<1>4. T = Nat
  <2>1. T \in SUBSET Nat
    OBVIOUS
  <2> HIDE DEF T
  <2> QED BY <1>2, <1>3, <2>1, NumberInduction
<1>5. PICK f : Solves(f, size)
  BY <1>4
<1> DEFINE g == [r \in R |-> f[r]]
<1>6. \A r \in R : g[r] = f[r]
  OBVIOUS
<1> HIDE DEF g
<1>7. ASSUME NEW r \in R PROVE g[r] = Halved(size, order, g, r)
  <2>1. Halved(size, order, f, r) = Halved(size, order, g, r)
    <3>1. \A q \in Ranges(size) : Width(q) < Width(r) => f[q] = g[q]
      BY <1>6
    <3> QED BY <3>1, HalvedNarrows
  <2> QED BY <1>1, <1>5, <1>6, <2>1
<1>8. g = [r \in R |-> Halved(size, order, g, r)]
  BY <1>7 DEF g
<1> QED BY <1>8 DEF Searches

\* What the search finds: the first entry that is not before what is looked for.
LEMMA SearchFinds ==
  ASSUME NEW size \in Nat, NEW order \in [0 .. size - 1 -> Int],
         \A i, j \in 0 .. size - 1 : i < j /\ order[j] <= 0 => order[i] < 0,
         NEW search, Searches(size, order, search),
         NEW found, found = search[<<0, size - 1>>]
  PROVE  /\ found \in 0 .. size
         /\ \A i \in 0 .. size - 1 : (i < found <=> order[i] < 0)
<1> DEFINE Fits(r) == /\ r[1] <= r[2] + 1
                      /\ \A i \in 0 .. size - 1 : /\ i < r[1] => order[i] < 0
                                                  /\ i > r[2] => order[i] > 0
           Good(l) == l \in 0 .. size /\ \A i \in 0 .. size - 1 : (i < l <=> order[i] < 0)
           Bad == {n \in Nat : \E r \in Ranges(size) : Width(r) = n /\ Fits(r) /\ ~ Good(search[r])}
<1>1. \A r \in Ranges(size) : search[r] = Halved(size, order, search, r) /\ Width(r) \in Nat
  BY DEF Searches, Ranges, Width
<1>2. Bad = {}
  <2> SUFFICES ASSUME Bad # {} PROVE FALSE
    OBVIOUS
  <2>1. PICK n \in Bad : \A k \in Bad : n <= k
    <3>1. Bad \in SUBSET Nat
      OBVIOUS
    <3> HIDE DEF Bad
    <3> QED BY <3>1, Least
  <2>2. PICK r \in Ranges(size) : Width(r) = n /\ Fits(r) /\ ~ Good(search[r])
    BY <2>1
  <2>3. \A q \in Ranges(size) : Width(q) < Width(r) /\ Fits(q) => Good(search[q])
    BY <1>1, <2>1, <2>2
  <2>4. PICK min \in 0 .. size, max \in -1 .. size - 1 : r[1] = min /\ r[2] = max
    BY DEF Ranges
  <2> DEFINE mid == (min + max) \div 2
  <2>5. /\ min <= max + 1 /\ \A i \in 0 .. size - 1 : /\ i < min => order[i] < 0
                                                      /\ i > max => order[i] > 0
        /\ Width(r) = IF min <= max THEN max - min + 1 ELSE 0
        /\ \A i \in 0 .. size - 1 : order[i] \in Int
        /\ ~ Good(search[r])
    BY <2>2, <2>4 DEF Width
  <2>6. search[r] =
         CASE min > max /\ min < size - 1 /\ order[min] < 0 -> min + 1
           [] min > max /\ ~(min < size - 1 /\ order[min] < 0) -> min
           [] min <= max /\ order[mid] = 0 -> mid
           [] min <= max /\ order[mid] < 0 ->
                IF mid + 1 >= size THEN size ELSE search[<<mid + 1, max>>]
           [] OTHER -> IF mid - 1 < 0 THEN 0 ELSE search[<<min, mid - 1>>]
    BY <1>1, <2>4 DEF Halved
  <2>7. \A l \in 0 .. size :
          (\A i \in 0 .. size - 1 : i < l <=> order[i] < 0) => Good(l)
    OBVIOUS
  <2>8. ASSUME NEW low \in 0 .. size, NEW high \in -1 .. size - 1, low <= high + 1,
               high - low < max - min, min <= max,
               \A i \in 0 .. size - 1 : /\ i < low => order[i] < 0
                                        /\ i > high => order[i] > 0
        PROVE  Good(search[<<low, high>>])
    <3> DEFINE q == <<low, high>>
    <3>1. q[1] = low /\ q[2] = high /\ q \in Ranges(size)
      BY DEF Ranges
    <3> HIDE DEF q
    <3>2. Width(q) = IF low <= high THEN high - low + 1 ELSE 0
      BY <3>1 DEF Width
    <3>3. Width(q) < Width(r)
      BY <2>5, <2>8, <3>2
    <3>4. Fits(q)
      <4>1. q[1] <= q[2] + 1
        BY <2>8, <3>1
      <4>2. \A i \in 0 .. size - 1 : /\ i < low => order[i] < 0
                                     /\ i > high => order[i] > 0
        BY <2>8
      <4> QED BY <3>1, <4>1, <4>2
    <3> HIDE DEF Good, Fits
    <3>5. Good(search[q])
      BY <2>3, <3>1, <3>3, <3>4
    <3> QED BY <3>5 DEF q
  <2> HIDE DEF Bad, Fits, Good
  <2>9. CASE min > max
    <3>1. ~ (min < size - 1 /\ order[min] < 0)
      BY <2>5, <2>9
    <3>2. search[r] = min
      BY <2>6, <2>9, <3>1
    <3>3. ASSUME NEW i \in 0 .. size - 1 PROVE i < min <=> order[i] < 0
      <4>1. (i < min => order[i] < 0) /\ (i > max => order[i] > 0) /\ order[i] \in Int
        BY <2>5
      <4> QED BY <2>9, <4>1
    <3>4. Good(min)
      BY <2>7, <3>3
    <3> QED BY <2>5, <3>2, <3>4
  <2>10. CASE min <= max
    <3>1. mid \in min .. max /\ mid \in 0 .. size - 1
      BY <2>10
    <3> HIDE DEF mid
    <3>2. CASE order[mid] = 0
      <4>1. search[r] = mid
        BY <2>6, <2>10, <3>2
      <4>2. \A i \in 0 .. size - 1 : i < mid <=> order[i] < 0
        BY <2>5, <3>1, <3>2
      <4> QED BY <2>5, <2>7, <3>1, <4>1, <4>2
    <3>3. CASE order[mid] < 0
      <4>1. search[r] = IF mid + 1 >= size THEN size ELSE search[<<mid + 1, max>>]
        BY <2>6, <2>10, <3>3
      <4>2. \A i \in 0 .. size - 1 : i < mid + 1 => order[i] < 0
        BY <2>5, <3>1, <3>3
      <4>3. CASE mid + 1 >= size
        <5>1. \A i \in 0 .. size - 1 : i < size <=> order[i] < 0
          BY <3>1, <4>2, <4>3
        <5> QED BY <2>5, <2>7, <4>1, <4>3, <5>1
      <4>4. CASE mid + 1 < size
        <5>1. mid + 1 \in 0 .. size /\ mid + 1 <= max + 1 /\ max - (mid + 1) < max - min
          BY <3>1, <4>4
        <5>2. ASSUME NEW i \in 0 .. size - 1
              PROVE  (i < mid + 1 => order[i] < 0) /\ (i > max => order[i] > 0)
          BY <2>5, <4>2
        <5>3. Good(search[<<mid + 1, max>>])
          BY <2>8, <2>10, <5>1, <5>2
        <5> QED BY <2>5, <3>1, <4>1, <4>4, <5>3
      <4> QED BY <3>1, <4>3, <4>4
    <3>4. CASE order[mid] > 0
      <4>1. search[r] = IF mid - 1 < 0 THEN 0 ELSE search[<<min, mid - 1>>]
        BY <2>5, <2>6, <2>10, <3>1, <3>4
      <4>2. \A i \in 0 .. size - 1 : i > mid - 1 => order[i] > 0
        <5> SUFFICES ASSUME NEW i \in 0 .. size - 1, i > mid - 1 PROVE order[i] > 0
          OBVIOUS
        <5>1. order[i] \in Int /\ order[mid] \in Int
          BY <2>5, <3>1
        <5>2. i = mid \/ mid < i
          BY <3>1
        <5> QED BY <3>1, <3>4, <5>1, <5>2
      <4>3. CASE mid - 1 < 0
        <5>1. \A i \in 0 .. size - 1 : i < 0 <=> order[i] < 0
          BY <2>5, <3>1, <4>2, <4>3
        <5> QED BY <2>5, <2>7, <4>1, <4>3, <5>1
      <4>4. CASE mid - 1 >= 0
        <5>1. mid - 1 \in -1 .. size - 1 /\ min <= mid - 1 + 1 /\ mid - 1 - min < max - min
          BY <3>1, <4>4
        <5>2. Good(search[<<min, mid - 1>>])
          BY <2>5, <2>8, <2>10, <4>2, <5>1
        <5> QED BY <2>5, <3>1, <4>1, <4>4, <5>2
      <4> QED BY <3>1, <4>3, <4>4
    <3> QED BY <2>5, <3>1, <3>2, <3>3, <3>4
  <2> QED BY <2>9, <2>10
<1> DEFINE all == <<0, size - 1>>
<1>3. all \in Ranges(size) /\ all[1] = 0 /\ all[2] = size - 1
  BY DEF Ranges
<1> HIDE DEF all
<1>4. Fits(all)
  BY <1>3
<1>5. Good(search[all])
  BY <1>1, <1>2, <1>3, <1>4
<1> QED BY <1>5 DEF all
=============================================================================
