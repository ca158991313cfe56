---------------------------- MODULE FrameProofs ----------------------------
(***************************************************************************)
(* Frame is correct for any number of controllers, slots and capsules.     *)
(*                                                                         *)
(* The proof has three layers: what the operations of the queues do to the *)
(* order of the commands of a controller, what each operator from rt to rt *)
(* does to the slots and the commands, and why that keeps the invariant.   *)
(***************************************************************************)
EXTENDS Frame, Induction

-----------------------------------------------------------------------------
(* Sequences of commands.                                                  *)

\* Each b in q has an a before it.
Before(q, a, b) ==
  \A j \in 1 .. Len(q) : q[j] = b => \E i \in 1 .. Len(q) : i < j /\ q[i] = a

\* m is not twice in q.
Unique(q, m) == \A i, j \in 1 .. Len(q) : q[i] = m /\ q[j] = m => i = j

\* Where the elements of w come from in q, those at the places in D.
Comes(w, q, h, D) ==
  /\ \A j \in 1 .. Len(w) : h[j] \in D /\ w[j] = q[h[j]]
  /\ \A i, j \in 1 .. Len(w) : i < j => h[i] < h[j]
  /\ \A k \in D : \E j \in 1 .. Len(w) : h[j] = k

\* The set of the elements.
LEMMA RangeIs ==
  ASSUME NEW S, NEW q \in Seq(S)
  PROVE  /\ Range(q) = {q[i] : i \in 1 .. Len(q)} /\ Range(q) \subseteq S
         /\ \A e \in Range(q) : \E i \in 1 .. Len(q) : q[i] = e
         /\ \A i \in 1 .. Len(q) : q[i] \in Range(q) /\ q[i] \in S
         /\ Len(q) \in Nat /\ DOMAIN q = 1 .. Len(q)
<1>1. Len(q) \in Nat /\ DOMAIN q = 1 .. Len(q) /\ \A i \in 1 .. Len(q) : q[i] \in S
  BY ElementOfSeq
<1> QED BY <1>1 DEF Range

\* A sequence that keeps the order of another one, without some elements.
LEMMA ComesIs ==
  ASSUME NEW S, NEW q \in Seq(S), NEW w \in Seq(S), NEW h, NEW D \in SUBSET (1 .. Len(q)),
         Comes(w, q, h, D)
  PROVE  /\ Range(w) = {q[k] : k \in D}
         /\ \A a, b : Before(q, a, b) /\ (\A k \in 1 .. Len(q) : q[k] = a => k \in D)
              => Before(w, a, b)
         /\ \A m : Unique(q, m) => Unique(w, m)
<1>1. /\ Len(q) \in Nat /\ Len(w) \in Nat
      /\ \A j \in 1 .. Len(w) : h[j] \in D /\ h[j] \in 1 .. Len(q) /\ w[j] = q[h[j]]
      /\ \A i, j \in 1 .. Len(w) : i < j => h[i] < h[j]
      /\ \A k \in D : \E j \in 1 .. Len(w) : h[j] = k
  BY RangeIs DEF Comes
<1>2. Range(w) = {q[k] : k \in D}
  <2>1. Range(w) = {w[i] : i \in 1 .. Len(w)}
    BY RangeIs
  <2>2. ASSUME NEW e \in Range(w) PROVE e \in {q[k] : k \in D}
    BY <1>1, <2>1
  <2>3. ASSUME NEW k \in D PROVE q[k] \in Range(w)
    <3>1. PICK j \in 1 .. Len(w) : h[j] = k
      BY <1>1
    <3> QED BY <1>1, <2>1, <3>1
  <2> QED BY <2>2, <2>3
<1>3. ASSUME NEW a, NEW b, Before(q, a, b), \A k \in 1 .. Len(q) : q[k] = a => k \in D
      PROVE  Before(w, a, b)
  <2> SUFFICES ASSUME NEW j \in 1 .. Len(w), w[j] = b
               PROVE  \E i \in 1 .. Len(w) : i < j /\ w[i] = a
    BY DEF Before
  <2>1. PICK k \in 1 .. Len(q) : k < h[j] /\ q[k] = a
    BY <1>1, <1>3 DEF Before
  <2>2. PICK i \in 1 .. Len(w) : h[i] = k
    BY <1>1, <1>3, <2>1
  <2>3. i < j
    <3> SUFFICES ASSUME ~ i < j PROVE FALSE
      OBVIOUS
    <3>1. i = j \/ j < i
      BY <1>1
    <3> QED BY <1>1, <2>1, <2>2, <3>1
  <2> QED BY <1>1, <2>1, <2>2, <2>3
<1>4. ASSUME NEW m, Unique(q, m) PROVE Unique(w, m)
  <2> SUFFICES ASSUME NEW i \in 1 .. Len(w), NEW j \in 1 .. Len(w), w[i] = m, w[j] = m
               PROVE  i = j
    BY DEF Unique
  <2>1. h[i] = h[j]
    BY <1>1, <1>4 DEF Unique
  <2> QED BY <1>1, <2>1
<1> QED BY <1>2, <1>3, <1>4

\* w is q and an element m.
Inserted(q, w, m) ==
  /\ Range(w) = Range(q) \cup {m}
  /\ \A a, b : Before(q, a, b) /\ b # m => Before(w, a, b)
  /\ \A n : Unique(q, n) /\ (n = m => m \notin Range(q)) => Unique(w, n)

\* An element is put in, behind the first sequence.
LEMMA InsertedBetween ==
  ASSUME NEW S, NEW q1 \in Seq(S), NEW q2 \in Seq(S), NEW m \in S,
         NEW q, q = q1 \o q2, NEW w, w = Append(q1, m) \o q2
  PROVE  /\ w \in Seq(S) /\ Inserted(q, w, m)
         /\ q2 = <<>> => \A a \in Range(q) : Before(q, a, m) => Before(w, a, m)
<1> DEFINE new(k) == IF k <= Len(q1) THEN k ELSE k + 1
           old(k) == IF k <= Len(q1) THEN k ELSE k - 1
<1>1. /\ q \in Seq(S) /\ Append(q1, m) \in Seq(S) /\ w \in Seq(S)
      /\ Len(q1) \in Nat /\ Len(q2) \in Nat /\ Len(q) = Len(q1) + Len(q2)
      /\ Len(Append(q1, m)) = Len(q1) + 1 /\ Len(w) = Len(q) + 1
  BY ConcatProperties, AppendProperties
<1>2. \A k \in 1 .. Len(q) : q[k] = IF k <= Len(q1) THEN q1[k] ELSE q2[k - Len(q1)]
  BY <1>1, ConcatProperties
<1>3. \A k \in 1 .. Len(w) :
        w[k] = IF k <= Len(q1) + 1 THEN Append(q1, m)[k] ELSE q2[k - (Len(q1) + 1)]
  BY <1>1, ConcatProperties
<1>4. /\ \A k \in 1 .. Len(q1) : Append(q1, m)[k] = q1[k]
      /\ Append(q1, m)[Len(q1) + 1] = m
  BY <1>1, AppendProperties
<1>5. \A k \in 1 .. Len(q) : new(k) \in 1 .. Len(w) /\ w[new(k)] = q[k]
  BY <1>1, <1>2, <1>3, <1>4
<1>6. \A k \in 1 .. Len(w) : k # Len(q1) + 1 =>
        old(k) \in 1 .. Len(q) /\ w[k] = q[old(k)] /\ new(old(k)) = k
  BY <1>1, <1>2, <1>3, <1>4
<1>7. w[Len(q1) + 1] = m /\ Len(q1) + 1 \in 1 .. Len(w)
  BY <1>1, <1>3, <1>4
<1>8. \A i, j \in 1 .. Len(q) : i < j => new(i) < new(j)
  BY <1>1
<1>9. /\ Range(q) = {q[i] : i \in 1 .. Len(q)}
      /\ Range(w) = {w[i] : i \in 1 .. Len(w)}
  <2>1. q \in Seq(S) /\ w \in Seq(S)
    BY <1>1
  <2>2. \A z \in Seq(S) : Range(z) = {z[i] : i \in 1 .. Len(z)}
    BY RangeIs
  <2> QED BY <2>1, <2>2
<1>10. \A i \in 1 .. Len(w) : i = Len(q1) + 1 \/ i # Len(q1) + 1
  OBVIOUS
<1> HIDE DEF new, old
<1>11. Range(w) = Range(q) \cup {m}
  <2>1. \A e \in Range(w) : e \in Range(q) \cup {m}
    BY <1>6, <1>7, <1>9
  <2>2. \A e \in Range(q) \cup {m} : e \in Range(w)
    BY <1>5, <1>7, <1>9
  <2> QED BY <2>1, <2>2
<1>12. ASSUME NEW a, NEW b, Before(q, a, b), NEW j \in 1 .. Len(w), w[j] = b, j # Len(q1) + 1
       PROVE  \E i \in 1 .. Len(w) : i < j /\ w[i] = a
  <2>1. PICK k \in 1 .. Len(q) : k < old(j) /\ q[k] = a
    BY <1>6, <1>12 DEF Before
  <2>2. new(k) < new(old(j)) /\ new(old(j)) = j /\ w[new(k)] = a /\ new(k) \in 1 .. Len(w)
    BY <1>5, <1>6, <1>8, <1>12, <2>1
  <2> QED BY <2>2
<1>13. ASSUME NEW a, NEW b, Before(q, a, b), b # m PROVE Before(w, a, b)
  <2> SUFFICES ASSUME NEW j \in 1 .. Len(w), w[j] = b
               PROVE  \E i \in 1 .. Len(w) : i < j /\ w[i] = a
    BY DEF Before
  <2>1. j # Len(q1) + 1
    BY <1>7, <1>13
  <2> QED BY <1>12, <1>13, <2>1
<1>14. ASSUME NEW n, Unique(q, n), n = m => m \notin Range(q) PROVE Unique(w, n)
  <2> SUFFICES ASSUME NEW i \in 1 .. Len(w), NEW j \in 1 .. Len(w), w[i] = n, w[j] = n
               PROVE  i = j
    BY DEF Unique
  <2>1. CASE n = m
    <3>1. i = Len(q1) + 1 /\ j = Len(q1) + 1
      BY <1>6, <1>9, <1>14, <2>1
    <3> QED BY <3>1
  <2>2. CASE n # m
    <3>1. i # Len(q1) + 1 /\ j # Len(q1) + 1
      BY <1>7, <2>2
    <3>2. old(i) = old(j)
      BY <1>6, <1>14, <3>1 DEF Unique
    <3> QED BY <1>6, <3>1, <3>2
  <2> QED BY <2>1, <2>2
<1>15. ASSUME q2 = <<>>, NEW a \in Range(q), Before(q, a, m) PROVE Before(w, a, m)
  <2> SUFFICES ASSUME NEW j \in 1 .. Len(w), w[j] = m
               PROVE  \E i \in 1 .. Len(w) : i < j /\ w[i] = a
    BY DEF Before
  <2>1. CASE j # Len(q1) + 1
    BY <1>12, <1>15, <2>1
  <2>2. CASE j = Len(q1) + 1
    <3>1. PICK k \in 1 .. Len(q) : q[k] = a
      BY <1>9, <1>15
    <3>2. k <= Len(q1)
      BY <1>1, <1>15
    <3>3. new(k) = k
      BY <3>2 DEF new
    <3>4. k < j /\ k \in 1 .. Len(w) /\ w[k] = a
      BY <1>1, <1>5, <2>2, <3>1, <3>2, <3>3
    <3> QED BY <3>4
  <2> QED BY <2>1, <2>2
<1>16. Inserted(q, w, m)
  BY <1>11, <1>13, <1>14 DEF Inserted
<1> QED BY <1>1, <1>15, <1>16

\* w is q without its first element, m.
Removed(q, w, m) ==
  /\ m \in Range(q)
  /\ Range(w) \subseteq Range(q) /\ Range(q) \subseteq Range(w) \cup {m}
  /\ \A a, b : Before(q, a, b) /\ a # m => Before(w, a, b)
  /\ \A a : ~ Before(q, a, m)
  /\ \A n : Unique(q, n) => Unique(w, n)
  /\ Unique(q, m) => m \notin Range(w)

\* The first element is taken away.
LEMMA FirstTaken ==
  ASSUME NEW S, NEW q \in Seq(S), NEW w \in Seq(S), Len(q) > 0, Len(w) = Len(q) - 1,
         \A k \in 1 .. Len(w) : w[k] = q[k + 1]
  PROVE  q[1] \in S /\ Removed(q, w, q[1])
<1> DEFINE h == [k \in 1 .. Len(w) |-> k + 1]
           D == 2 .. Len(q)
<1>1. Len(q) \in Nat /\ 1 \in 1 .. Len(q) /\ Len(w) \in Nat
  OBVIOUS
<1>2. Comes(w, q, h, D)
  BY <1>1 DEF Comes
<1>3. D \in SUBSET (1 .. Len(q)) /\ (\A k \in 1 .. Len(q) : k = 1 \/ k \in D) /\ 1 \notin D
  BY <1>1
<1> HIDE DEF h, D
<1>4. /\ Range(w) = {q[k] : k \in D}
      /\ \A a, b : Before(q, a, b) /\ (\A k \in 1 .. Len(q) : q[k] = a => k \in D)
           => Before(w, a, b)
      /\ \A n : Unique(q, n) => Unique(w, n)
  BY <1>2, <1>3, ComesIs
<1>5. Range(q) = {q[i] : i \in 1 .. Len(q)} /\ q[1] \in S
  BY <1>1, RangeIs
<1>6. /\ q[1] \in Range(q)
      /\ Range(w) \subseteq Range(q) /\ Range(q) \subseteq Range(w) \cup {q[1]}
  BY <1>1, <1>3, <1>4, <1>5
<1>7. \A a, b : Before(q, a, b) /\ a # q[1] => Before(w, a, b)
  BY <1>3, <1>4
<1>8. ASSUME NEW a, Before(q, a, q[1]) PROVE FALSE
  <2>1. PICK i \in 1 .. Len(q) : i < 1 /\ q[i] = a
    BY <1>1, <1>8 DEF Before
  <2> QED BY <2>1
<1>9. ASSUME Unique(q, q[1]) PROVE q[1] \notin Range(w)
  <2> SUFFICES ASSUME NEW k \in D, q[k] = q[1] PROVE FALSE
    BY <1>4
  <2>1. k = 1
    BY <1>1, <1>3, <1>9 DEF Unique
  <2> QED BY <1>3, <2>1
<1> QED BY <1>4, <1>5, <1>6, <1>7, <1>8, <1>9 DEF Removed

LEMMA TakenFromFront ==
  ASSUME NEW S, NEW q1 \in Seq(S), NEW q2 \in Seq(S), q1 # <<>>,
         NEW q, q = q1 \o q2, NEW w, w = Tail(q1) \o q2, NEW m, m = Head(q1)
  PROVE  w \in Seq(S) /\ m \in S /\ Removed(q, w, m)
<1>1. /\ q \in Seq(S) /\ Tail(q1) \in Seq(S) /\ w \in Seq(S) /\ m \in S
      /\ Len(q1) \in Nat \ {0} /\ Len(q2) \in Nat /\ Len(q) = Len(q1) + Len(q2)
      /\ Len(Tail(q1)) = Len(q1) - 1 /\ Len(w) = Len(q) - 1
  BY ConcatProperties, HeadTailProperties, EmptySeq
<1>2. \A k \in 1 .. Len(q) : q[k] = IF k <= Len(q1) THEN q1[k] ELSE q2[k - Len(q1)]
  BY <1>1, ConcatProperties
<1>3. \A k \in 1 .. Len(w) :
        w[k] = IF k <= Len(q1) - 1 THEN Tail(q1)[k] ELSE q2[k - (Len(q1) - 1)]
  BY <1>1, ConcatProperties
<1>4. /\ \A k \in 1 .. Len(q1) - 1 : Tail(q1)[k] = q1[k + 1]
      /\ q1[1] = m
  BY <1>1, HeadTailProperties
<1>5. q[1] = m /\ 1 \in 1 .. Len(q) /\ \A k \in 1 .. Len(w) : w[k] = q[k + 1]
  BY <1>1, <1>2, <1>3, <1>4
<1>6. q \in Seq(S) /\ w \in Seq(S) /\ Len(q) > 0 /\ Len(w) = Len(q) - 1
  BY <1>1
<1>7. \A x, y \in Seq(S) : Len(x) > 0 /\ Len(y) = Len(x) - 1 /\ (\A k \in 1 .. Len(y) : y[k] = x[k + 1])
                          => Removed(x, y, x[1])
  BY FirstTaken
<1>8. Removed(q, w, m)
  BY <1>5, <1>6, <1>7
<1> QED BY <1>1, <1>8

\* A function that goes through a sequence and keeps what is at the places in D.
Keeps(f, q, D) ==
  f = [n \in 0 .. Len(q) |-> IF n = 0 THEN <<>>
                             ELSE IF n \in D THEN Append(f[n - 1], q[n]) ELSE f[n - 1]]

\* It exists.
LEMMA KeepsExists ==
  ASSUME NEW S, NEW q \in Seq(S), NEW D
  PROVE  \E f : Keeps(f, q, D)
<1> DEFINE step(f, n) == IF n = 0 THEN <<>>
                         ELSE IF n \in D THEN Append(f[n - 1], q[n]) ELSE f[n - 1]
           T == {n \in Nat : \E f : \A k \in 0 .. n : f[k] = step(f, k)}
<1>1. 0 \in T
  <2> DEFINE f == [k \in {0} |-> <<>>]
  <2>1. \A k \in 0 .. 0 : f[k] = step(f, k)
    OBVIOUS
  <2> QED BY <2>1
<1>2. ASSUME NEW n \in T PROVE n + 1 \in T
  <2>1. PICK f : \A k \in 0 .. n : f[k] = step(f, k)
    OBVIOUS
  <2> DEFINE g == [k \in 0 .. n + 1 |-> IF k = n + 1 THEN step(f, k) ELSE f[k]]
  <2>2. n \in Nat
    OBVIOUS
  <2>3. \A k \in 0 .. n : g[k] = f[k]
    BY <2>2
  <2>4. g[n + 1] = step(f, n + 1)
    BY <2>2
  <2> HIDE DEF g
  <2>5. ASSUME NEW k \in 0 .. n + 1 PROVE g[k] = step(g, k)
    <3>1. k = 0 \/ (k - 1 \in 0 .. n /\ g[k - 1] = f[k - 1])
      BY <2>2, <2>3
    <3>2. step(g, k) = step(f, k)
      BY <3>1
    <3>3. CASE k = n + 1
      BY <2>4, <3>2, <3>3
    <3>4. CASE k # n + 1
      <4>1. k \in 0 .. n
        BY <2>2, <3>4
      <4> QED BY <2>1, <2>3, <3>2, <4>1
    <3> QED BY <3>3, <3>4
  <2> QED BY <2>2, <2>5
<1>3. Len(q) \in T
  <2>1. T \in SUBSET Nat
    OBVIOUS
  <2>2. Len(q) \in Nat
    OBVIOUS
  <2> HIDE DEF T
  <2> QED BY <1>1, <1>2, <2>1, <2>2, NumberInduction
<1>4. PICK f : \A k \in 0 .. Len(q) : f[k] = step(f, k)
  BY <1>3
<1> DEFINE g == [k \in 0 .. Len(q) |-> f[k]]
<1>5. \A k \in 0 .. Len(q) : g[k] = f[k]
  OBVIOUS
<1>6. \A k \in 0 .. Len(q) : step(g, k) = step(f, k)
  <2> HIDE DEF g
  <2> SUFFICES ASSUME NEW k \in 0 .. Len(q) PROVE step(g, k) = step(f, k)
    OBVIOUS
  <2>1. k = 0 \/ k - 1 \in 0 .. Len(q)
    OBVIOUS
  <2> QED BY <1>5, <2>1
<1>7. g = [k \in 0 .. Len(q) |-> step(g, k)]
  <2>1. g = [k \in 0 .. Len(q) |-> step(f, k)]
    BY <1>4
  <2> HIDE DEF g, step
  <2> QED BY <1>6, <2>1
<1>8. Keeps(g, q, D)
  BY <1>7 DEF Keeps
<1> QED BY <1>8

\* Its result is a sequence with exactly those elements, in their order.
LEMMA KeepsIs ==
  ASSUME NEW S, NEW q \in Seq(S), NEW D \in SUBSET (1 .. Len(q)), NEW f, Keeps(f, q, D)
  PROVE  f[Len(q)] \in Seq(S) /\ \E h : Comes(f[Len(q)], q, h, D)
<1> DEFINE upto(n) == {k \in D : k <= n}
           T == {n \in Nat : n <= Len(q) =>
                   f[n] \in Seq(S) /\ \E h : Comes(f[n], q, h, upto(n))}
<1>1. Len(q) \in Nat /\ \A k \in D : k \in Nat /\ 1 <= k /\ k <= Len(q)
  OBVIOUS
<1>2. \A n \in 0 .. Len(q) : f[n] = IF n = 0 THEN <<>>
                                    ELSE IF n \in D THEN Append(f[n - 1], q[n]) ELSE f[n - 1]
  BY DEF Keeps
<1>3. 0 \in T
  <2>1. f[0] = <<>> /\ f[0] \in Seq(S) /\ Len(f[0]) = 0
    <3>1. f[0] = <<>>
      BY <1>1, <1>2
    <3> QED BY <3>1, EmptySeq
  <2>2. upto(0) = {}
    <3>1. \A k \in upto(0) : FALSE
      BY <1>1
    <3> QED BY <3>1
  <2>3. Comes(f[0], q, <<>>, upto(0))
    BY <2>1, <2>2 DEF Comes
  <2> QED BY <2>1, <2>3
<1>4. ASSUME NEW n \in T PROVE n + 1 \in T
  <2> SUFFICES ASSUME n + 1 <= Len(q)
               PROVE  f[n + 1] \in Seq(S) /\ \E h : Comes(f[n + 1], q, h, upto(n + 1))
    <3>1. n + 1 \in Nat
      OBVIOUS
    <3> QED BY <3>1
  <2>1. n \in Nat /\ n <= Len(q) /\ n + 1 \in 0 .. Len(q) /\ n + 1 \in 1 .. Len(q)
    BY <1>1
  <2> DEFINE v == f[n]
             w == f[n + 1]
  <2>2. v \in Seq(S) /\ \E h : Comes(v, q, h, upto(n))
    BY <2>1
  <2>3. PICK h : Comes(v, q, h, upto(n))
    BY <2>2
  <2>4. w = IF n + 1 \in D THEN Append(v, q[n + 1]) ELSE v
    BY <1>2, <2>1
  <2>5. CASE n + 1 \notin D
    <3>1. upto(n + 1) = upto(n)
      <4>1. \A k \in D : k <= n + 1 <=> k <= n
        BY <1>1, <2>1, <2>5
      <4> QED BY <4>1
    <3> QED BY <2>2, <2>3, <2>4, <2>5, <3>1
  <2>6. CASE n + 1 \in D
    <3> HIDE DEF v, w
    <3>1. q[n + 1] \in S /\ w = Append(v, q[n + 1])
      BY <2>1, <2>4, <2>6, ElementOfSeq
    <3>2. /\ w \in Seq(S) /\ Len(v) \in Nat /\ Len(w) = Len(v) + 1
          /\ \A j \in 1 .. Len(v) : w[j] = v[j]
          /\ w[Len(v) + 1] = q[n + 1]
      BY <2>2, <3>1, AppendProperties
    <3> DEFINE g == [j \in 1 .. Len(w) |-> IF j = Len(w) THEN n + 1 ELSE h[j]]
    <3>3. /\ \A j \in 1 .. Len(v) : h[j] \in upto(n) /\ v[j] = q[h[j]]
          /\ \A i, j \in 1 .. Len(v) : i < j => h[i] < h[j]
          /\ \A k \in upto(n) : \E j \in 1 .. Len(v) : h[j] = k
      BY <2>3 DEF Comes
    <3>4. /\ \A j \in 1 .. Len(v) : g[j] = h[j]
          /\ g[Len(w)] = n + 1
      BY <3>2
    <3>5. \A j \in 1 .. Len(w) : j \in 1 .. Len(v) \/ j = Len(w)
      BY <3>2
    <3>6. \A k \in D : k \in upto(n + 1) <=> k \in upto(n) \/ k = n + 1
      BY <2>1
    <3>7. \A k \in upto(n) : k \in D /\ k \in Nat /\ k <= n
      BY <1>1
    <3>8. upto(n + 1) \subseteq D
      OBVIOUS
    <3> HIDE DEF g, upto
    <3>9. \A j \in 1 .. Len(w) : g[j] \in upto(n + 1) /\ w[j] = q[g[j]]
      BY <2>6, <3>2, <3>3, <3>4, <3>5, <3>6, <3>7
    <3>10. \A i, j \in 1 .. Len(w) : i < j => g[i] < g[j]
      <4> SUFFICES ASSUME NEW i \in 1 .. Len(w), NEW j \in 1 .. Len(w), i < j PROVE g[i] < g[j]
        OBVIOUS
      <4>1. i \in 1 .. Len(v)
        BY <3>2
      <4>2. CASE j \in 1 .. Len(v)
        BY <3>3, <3>4, <4>1, <4>2
      <4>3. CASE j = Len(w)
        <5>1. g[i] \in Nat /\ g[i] <= n
          BY <3>3, <3>4, <3>7, <4>1
        <5> QED BY <2>1, <3>4, <4>3, <5>1
      <4> QED BY <3>5, <4>2, <4>3
    <3>11. ASSUME NEW k \in upto(n + 1) PROVE \E j \in 1 .. Len(w) : g[j] = k
      <4>1. CASE k = n + 1
        <5>1. Len(w) \in 1 .. Len(w)
          BY <3>2
        <5> QED BY <3>4, <4>1, <5>1
      <4>2. CASE k \in upto(n)
        <5>1. PICK j \in 1 .. Len(v) : h[j] = k
          BY <3>3, <4>2
        <5>2. j \in 1 .. Len(w)
          BY <3>2
        <5> QED BY <3>4, <5>1, <5>2
      <4> QED BY <3>6, <3>8, <4>1, <4>2
    <3>12. Comes(w, q, g, upto(n + 1))
      BY <3>9, <3>10, <3>11 DEF Comes
    <3> QED BY <3>2, <3>12 DEF w
  <2> QED BY <2>5, <2>6
<1>5. Len(q) \in T
  <2>1. T \in SUBSET Nat
    OBVIOUS
  <2> HIDE DEF T
  <2> QED BY <1>1, <1>3, <1>4, <2>1, NumberInduction
<1>6. upto(Len(q)) = D
  BY <1>1
<1>7. f[Len(q)] \in Seq(S) /\ \E h : Comes(f[Len(q)], q, h, upto(Len(q)))
  <2>1. Len(q) <= Len(q)
    BY <1>1
  <2> QED BY <1>5, <2>1
<1> QED BY <1>6, <1>7

\* Two sequences that keep the order of two others, one behind the other.
LEMMA ComesBehind ==
  ASSUME NEW S, NEW q1 \in Seq(S), NEW q2 \in Seq(S), NEW w1 \in Seq(S), NEW w2 \in Seq(S),
         NEW D1 \in SUBSET (1 .. Len(q1)), NEW D2 \in SUBSET (1 .. Len(q2)),
         NEW h1, NEW h2, Comes(w1, q1, h1, D1), Comes(w2, q2, h2, D2),
         NEW D \in SUBSET (1 .. Len(q1 \o q2)),
         \A k \in 1 .. Len(q1) : k \in D <=> k \in D1,
         \A k \in 1 .. Len(q2) : k + Len(q1) \in D <=> k \in D2
  PROVE  \E h : Comes(w1 \o w2, q1 \o q2, h, D)
<1> DEFINE q == q1 \o q2
           w == w1 \o w2
           n == Len(q1)
           l == Len(w1)
           h == [j \in 1 .. Len(w) |-> IF j <= l THEN h1[j] ELSE h2[j - l] + n]
<1>1. /\ q \in Seq(S) /\ w \in Seq(S)
      /\ n \in Nat /\ l \in Nat /\ Len(q2) \in Nat /\ Len(w2) \in Nat
      /\ Len(q) = n + Len(q2) /\ Len(w) = l + Len(w2)
  BY ConcatProperties
<1>2. /\ \A k \in 1 .. n : q[k] = q1[k]
      /\ \A k \in 1 .. Len(q2) : q[k + n] = q2[k]
  <2>1. \A k \in 1 .. Len(q) : q[k] = IF k <= n THEN q1[k] ELSE q2[k - n]
    BY <1>1, ConcatProperties
  <2> HIDE DEF q
  <2>2. \A k \in 1 .. n : k \in 1 .. Len(q) /\ k <= n
    BY <1>1
  <2>3. \A k \in 1 .. Len(q2) : k + n \in 1 .. Len(q) /\ ~ k + n <= n /\ (k + n) - n = k
    BY <1>1
  <2> QED BY <2>1, <2>2, <2>3
<1>3. /\ \A j \in 1 .. l : w[j] = w1[j]
      /\ \A j \in 1 .. Len(w) : j > l => w[j] = w2[j - l] /\ j - l \in 1 .. Len(w2)
  <2>1. \A k \in 1 .. Len(w) : w[k] = IF k <= l THEN w1[k] ELSE w2[k - l]
    BY <1>1, ConcatProperties
  <2> HIDE DEF w
  <2> QED BY <1>1, <2>1
<1>4. /\ \A j \in 1 .. l : j \in 1 .. Len(w) /\ h[j] = h1[j]
      /\ \A j \in 1 .. Len(w) : j > l => h[j] = h2[j - l] + n
      /\ \A j \in 1 .. Len(w2) : j + l \in 1 .. Len(w) /\ h[j + l] = h2[j] + n
  BY <1>1
<1>5. /\ \A j \in 1 .. l : h1[j] \in D1 /\ w1[j] = q1[h1[j]]
      /\ \A i, j \in 1 .. l : i < j => h1[i] < h1[j]
      /\ \A k \in D1 : \E j \in 1 .. l : h1[j] = k
  BY DEF Comes
<1>6. /\ \A j \in 1 .. Len(w2) : h2[j] \in D2 /\ w2[j] = q2[h2[j]]
      /\ \A i, j \in 1 .. Len(w2) : i < j => h2[i] < h2[j]
      /\ \A k \in D2 : \E j \in 1 .. Len(w2) : h2[j] = k
  BY DEF Comes
<1>7. /\ \A k \in D1 : k \in 1 .. n /\ k \in D
      /\ \A k \in D2 : k \in 1 .. Len(q2) /\ k \in Nat /\ k + n \in D
  BY <1>1
<1>8. \A k \in D : (k \in D1) \/ (k - n \in D2 /\ (k - n) + n = k)
  <2> SUFFICES ASSUME NEW k \in D PROVE (k \in D1) \/ (k - n \in D2 /\ (k - n) + n = k)
    OBVIOUS
  <2>1. k \in 1 .. n + Len(q2)
    BY <1>1
  <2>2. CASE k <= n
    BY <1>1, <2>1, <2>2
  <2>3. CASE ~ k <= n
    <3>1. k - n \in 1 .. Len(q2) /\ (k - n) + n = k
      BY <1>1, <2>1, <2>3
    <3> QED BY <3>1
  <2> QED BY <2>2, <2>3
<1> HIDE DEF q, w, n, l, h
<1>9. ASSUME NEW j \in 1 .. Len(w) PROVE h[j] \in D /\ w[j] = q[h[j]]
  <2>1. CASE j <= l
    <3>1. j \in 1 .. l
      BY <1>1, <2>1
    <3>2. w[j] = w1[j] /\ h[j] = h1[j] /\ h1[j] \in D1 /\ w1[j] = q1[h1[j]]
      BY <1>3, <1>4, <1>5, <3>1
    <3> QED BY <1>2, <1>7, <3>2
  <2>2. CASE j > l
    <3>1. j - l \in 1 .. Len(w2) /\ w[j] = w2[j - l] /\ h[j] = h2[j - l] + n
      BY <1>3, <1>4, <2>2
    <3>2. h2[j - l] \in D2 /\ w2[j - l] = q2[h2[j - l]]
      BY <1>6, <3>1
    <3> QED BY <1>2, <1>7, <3>1, <3>2
  <2> QED BY <1>1, <2>1, <2>2
<1>10. ASSUME NEW i \in 1 .. Len(w), NEW j \in 1 .. Len(w), i < j PROVE h[i] < h[j]
  <2>1. CASE j <= l
    <3>1. i \in 1 .. l /\ j \in 1 .. l
      BY <1>1, <1>10, <2>1
    <3> QED BY <1>4, <1>5, <1>10, <3>1
  <2>2. CASE i <= l /\ j > l
    <3>1. i \in 1 .. l /\ j - l \in 1 .. Len(w2) /\ h[i] = h1[i] /\ h[j] = h2[j - l] + n
      BY <1>1, <1>3, <1>4, <2>2
    <3>2. h1[i] \in 1 .. n /\ h2[j - l] \in 1 .. Len(q2)
      BY <1>5, <1>6, <1>7, <3>1
    <3> QED BY <1>1, <3>1, <3>2
  <2>3. CASE i > l
    <3>1. j > l
      BY <1>1, <1>10, <2>3
    <3>2. /\ i - l \in 1 .. Len(w2) /\ j - l \in 1 .. Len(w2)
          /\ h[i] = h2[i - l] + n /\ h[j] = h2[j - l] + n
      BY <1>3, <1>4, <2>3, <3>1
    <3>3. i - l < j - l
      BY <1>1, <1>10
    <3>4. h2[i - l] < h2[j - l] /\ h2[i - l] \in Nat /\ h2[j - l] \in Nat
      BY <1>6, <1>7, <3>2, <3>3
    <3> QED BY <1>1, <3>2, <3>4
  <2> QED BY <1>1, <2>1, <2>2, <2>3
<1>11. ASSUME NEW k \in D PROVE \E j \in 1 .. Len(w) : h[j] = k
  <2>1. CASE k \in D1
    BY <1>4, <1>5, <2>1
  <2>2. CASE k - n \in D2 /\ (k - n) + n = k
    <3>1. PICK j \in 1 .. Len(w2) : h2[j] = k - n
      BY <1>6, <2>2
    <3> QED BY <1>4, <2>2, <3>1
  <2> QED BY <1>8, <2>1, <2>2
<1>12. Comes(w, q, h, D)
  BY <1>9, <1>10, <1>11 DEF Comes
<1> QED BY <1>12 DEF q, w

\* What Kept leaves of a queue.
LEMMA KeptIs ==
  ASSUME NEW S, NEW q \in Seq(S), NEW s, NEW i, NEW destroying
  PROVE  /\ Kept(q, s, i, destroying) \in Seq(S)
         /\ \E h : Comes(Kept(q, s, i, destroying), q, h,
                         {k \in 1 .. Len(q) : ~ Matches(q[k], s, i, destroying)})
<1> DEFINE D == {k \in 1 .. Len(q) : ~ Matches(q[k], s, i, destroying)}
           walk(f) == [n \in 0 .. Len(q) |->
                         IF n = 0 THEN <<>>
                         ELSE IF Matches(q[n], s, i, destroying) THEN f[n - 1]
                              ELSE Append(f[n - 1], q[n])]
           kept == CHOOSE f : f = walk(f)
<1>1. ASSUME NEW f PROVE Keeps(f, q, D) <=> f = walk(f)
  <2>1. walk(f) = [n \in 0 .. Len(q) |-> IF n = 0 THEN <<>>
                                         ELSE IF n \in D THEN Append(f[n - 1], q[n]) ELSE f[n - 1]]
    <3>1. \A n \in 0 .. Len(q) : n = 0 \/ (n \in D <=> ~ Matches(q[n], s, i, destroying))
      OBVIOUS
    <3> HIDE DEF D
    <3> QED BY <3>1
  <2> HIDE DEF walk, D
  <2> QED BY <2>1 DEF Keeps
<1>2. Kept(q, s, i, destroying) = kept[Len(q)]
  BY DEF Kept
<1>3. D \in SUBSET (1 .. Len(q))
  OBVIOUS
<1> HIDE DEF walk, D
<1>4. \E f : f = walk(f)
  BY <1>1, KeepsExists
<1>5. kept = walk(kept)
  BY <1>4
<1> HIDE DEF kept
<1>6. Keeps(kept, q, D)
  BY <1>1, <1>5
<1>7. kept[Len(q)] \in Seq(S) /\ \E h : Comes(kept[Len(q)], q, h, D)
  BY <1>3, <1>6, KeepsIs
<1> QED BY <1>2, <1>7 DEF D

\* w is what is left of q.
Left(w, q, s, i, destroying) ==
  \E h : Comes(w, q, h, {k \in 1 .. Len(q) : ~ Matches(q[k], s, i, destroying)})

LEMMA LeftIs ==
  ASSUME NEW S, NEW q \in Seq(S), NEW w \in Seq(S), NEW s, NEW i, NEW destroying,
         Left(w, q, s, i, destroying)
  PROVE  /\ Range(w) = {m \in Range(q) : ~ Matches(m, s, i, destroying)}
         /\ \A a, b : Before(q, a, b) /\ ~ Matches(a, s, i, destroying) => Before(w, a, b)
         /\ \A m : Unique(q, m) => Unique(w, m)
<1> DEFINE kept(k) == ~ Matches(k, s, i, destroying)
           D == {k \in 1 .. Len(q) : kept(q[k])}
<1>1. PICK h : Comes(w, q, h, D)
  BY DEF Left
<1> HIDE DEF kept
<1>2. D \in SUBSET (1 .. Len(q)) /\ \A k \in 1 .. Len(q) : k \in D <=> kept(q[k])
  OBVIOUS
<1> HIDE DEF D
<1>3. /\ Range(w) = {q[k] : k \in D}
      /\ \A a, b : Before(q, a, b) /\ (\A k \in 1 .. Len(q) : q[k] = a => k \in D)
           => Before(w, a, b)
      /\ \A m : Unique(q, m) => Unique(w, m)
  BY <1>1, <1>2, ComesIs
<1>4. Range(q) = {q[k] : k \in 1 .. Len(q)}
  BY RangeIs
<1>5. \A m : m \in Range(w) <=> m \in Range(q) /\ kept(m)
  BY <1>2, <1>3, <1>4
<1>6. \A a, b : Before(q, a, b) /\ kept(a) => Before(w, a, b)
  BY <1>2, <1>3
<1> QED BY <1>3, <1>5, <1>6 DEF kept

\* w is q without what matches.
Thinned(q, w, s, i, destroying) ==
  /\ Range(w) = {m \in Range(q) : ~ Matches(m, s, i, destroying)}
  /\ \A a, b : Before(q, a, b) /\ ~ Matches(a, s, i, destroying) => Before(w, a, b)
  /\ \A m : Unique(q, m) => Unique(w, m)

\* What it leaves of two queues, one behind the other.
LEMMA KeptOfBoth ==
  ASSUME NEW S, NEW q1 \in Seq(S), NEW q2 \in Seq(S), NEW s, NEW i, NEW destroying,
         NEW q, q = q1 \o q2,
         NEW w, w = Kept(q1, s, i, destroying) \o Kept(q2, s, i, destroying)
  PROVE  w \in Seq(S) /\ Thinned(q, w, s, i, destroying)
<1> DEFINE kept(k) == ~ Matches(k, s, i, destroying)
           D1 == {k \in 1 .. Len(q1) : kept(q1[k])}
           D2 == {k \in 1 .. Len(q2) : kept(q2[k])}
           D  == {k \in 1 .. Len(q1 \o q2) : kept((q1 \o q2)[k])}
           w1 == Kept(q1, s, i, destroying)
           w2 == Kept(q2, s, i, destroying)
<1>1. w1 \in Seq(S) /\ \E h : Comes(w1, q1, h, D1)
  BY KeptIs
<1>2. w2 \in Seq(S) /\ \E h : Comes(w2, q2, h, D2)
  BY KeptIs
<1>3. /\ q1 \o q2 \in Seq(S) /\ Len(q1) \in Nat /\ Len(q2) \in Nat
      /\ Len(q1 \o q2) = Len(q1) + Len(q2)
      /\ \A k \in 1 .. Len(q1) + Len(q2) :
           (q1 \o q2)[k] = IF k <= Len(q1) THEN q1[k] ELSE q2[k - Len(q1)]
  BY ConcatProperties
<1> HIDE DEF kept, w1, w2
<1>4. \A k \in 1 .. Len(q1) : k \in D <=> k \in D1
  <2>1. \A k \in 1 .. Len(q1) : k \in 1 .. Len(q1) + Len(q2) /\ k <= Len(q1)
    BY <1>3
  <2> QED BY <1>3, <2>1
<1>5. \A k \in 1 .. Len(q2) : k + Len(q1) \in D <=> k \in D2
  <2>1. \A k \in 1 .. Len(q2) : /\ k + Len(q1) \in 1 .. Len(q1) + Len(q2)
                                /\ ~ k + Len(q1) <= Len(q1) /\ (k + Len(q1)) - Len(q1) = k
    BY <1>3
  <2>2. \A k \in 1 .. Len(q2) : (q1 \o q2)[k + Len(q1)] = q2[k]
    BY <1>3, <2>1
  <2> QED BY <1>3, <2>1, <2>2
<1>6. /\ D1 \in SUBSET (1 .. Len(q1)) /\ D2 \in SUBSET (1 .. Len(q2))
      /\ D \in SUBSET (1 .. Len(q1 \o q2))
      /\ \A k \in 1 .. Len(q1 \o q2) : k \in D <=> kept((q1 \o q2)[k])
  OBVIOUS
<1> HIDE DEF D1, D2, D
<1>7. \E h : Comes(w1 \o w2, q1 \o q2, h, D)
  <2>1. PICK h1 : Comes(w1, q1, h1, D1)
    BY <1>1
  <2>2. PICK h2 : Comes(w2, q2, h2, D2)
    BY <1>2
  <2>3. w1 \in Seq(S) /\ w2 \in Seq(S)
    BY <1>1, <1>2
  <2> QED BY <1>4, <1>5, <1>6, <2>1, <2>2, <2>3, ComesBehind
<1>8. w1 \o w2 \in Seq(S)
  BY <1>1, <1>2, ConcatProperties
<1>9. w = w1 \o w2
  BY DEF w1, w2
<1>10. Left(w1 \o w2, q1 \o q2, s, i, destroying)
  BY <1>7 DEF D, kept, Left
<1>11. w \in Seq(S) /\ q \in Seq(S) /\ Left(w, q, s, i, destroying)
  BY <1>3, <1>8, <1>9, <1>10
<1>12. \A x, y \in Seq(S) : Left(y, x, s, i, destroying) =>
         /\ Range(y) = {m \in Range(x) : ~ Matches(m, s, i, destroying)}
         /\ \A a, b : Before(x, a, b) /\ ~ Matches(a, s, i, destroying) => Before(y, a, b)
         /\ \A m : Unique(x, m) => Unique(y, m)
  BY LeftIs
<1>13. Thinned(q, w, s, i, destroying)
  BY <1>11, <1>12 DEF Thinned
<1> QED BY <1>11, <1>13

-----------------------------------------------------------------------------
(* The commands of a controller: its capsule queue, then its incoming one. *)

Line(r, c)        == r.queue[c] \o r.incoming[c]
Waits(r, c)       == Range(Line(r, c))
Ahead(r, c, a, b) == Before(Line(r, c), a, b)
Single(r, c, m)   == Unique(Line(r, c), m)

Queues(r) == r.queue \in [Controller -> Seq(Command)] /\ r.incoming \in [Controller -> Seq(Command)]

SameLines(r, q) ==
  \A e \in Controller : /\ Waits(q, e) = Waits(r, e)
                        /\ \A a, b : Ahead(r, e, a, b) => Ahead(q, e, a, b)
                        /\ \A m : Single(r, e, m) => Single(q, e, m)

\* m is added for d; last: behind all others.
Grown(r, q, d, m, last) ==
  \A e \in Controller :
    /\ Waits(q, e) = IF e = d THEN Waits(r, e) \cup {m} ELSE Waits(r, e)
    /\ \A a, b : Ahead(r, e, a, b) /\ (e = d /\ b = m => last /\ a \in Waits(r, e))
         => Ahead(q, e, a, b)
    /\ \A n : Single(r, e, n) /\ (e = d /\ n = m => m \notin Waits(r, e)) => Single(q, e, n)

\* m is taken from the front of c's.
Took(r, q, c, m) ==
  /\ m \in Waits(r, c) /\ m \in Command
  /\ \A a : ~ Ahead(r, c, a, m)
  /\ Single(r, c, m) => m \notin Waits(q, c)
  /\ \A e \in Controller :
       /\ Waits(q, e) \subseteq Waits(r, e)
       /\ \A n \in Waits(r, e) : n \in Waits(q, e) \/ (e = c /\ n = m)
       /\ \A a, b : Ahead(r, e, a, b) /\ (e = c => a # m) => Ahead(q, e, a, b)
       /\ \A n : Single(r, e, n) => Single(q, e, n)

\* What matches is removed for d.
Purged(r, q, d, s, i, destroying) ==
  \A e \in Controller :
    /\ Waits(q, e) = {m \in Waits(r, e) : e = d => ~ Matches(m, s, i, destroying)}
    /\ \A a, b : Ahead(r, e, a, b) /\ (e = d => ~ Matches(a, s, i, destroying))
         => Ahead(q, e, a, b)
    /\ \A n : Single(r, e, n) => Single(q, e, n)

\* The same queues.
LEMMA LinesKept ==
  ASSUME NEW r, NEW q, q.queue = r.queue, q.incoming = r.incoming
  PROVE  SameLines(r, q)
BY DEF SameLines, Waits, Ahead, Single, Line

LEMMA AheadOfNone ==
  ASSUME NEW r, Queues(r), NEW c \in Controller, NEW a, NEW b, b \notin Waits(r, c)
  PROVE  Ahead(r, c, a, b)
<1>1. r.queue[c] \in Seq(Command) /\ r.incoming[c] \in Seq(Command)
  BY DEF Queues
<1>2. Line(r, c) \in Seq(Command)
  BY <1>1, ConcatProperties DEF Line
<1>3. \A i \in 1 .. Len(Line(r, c)) : Line(r, c)[i] \in Waits(r, c)
  <2>1. \A z \in Seq(Command) : \A i \in 1 .. Len(z) : z[i] \in Range(z)
    BY RangeIs
  <2> QED BY <1>2, <2>1 DEF Waits
<1> QED BY <1>3 DEF Ahead, Before

LEMMA SingleOfNone ==
  ASSUME NEW r, Queues(r), NEW c \in Controller, NEW m, m \notin Waits(r, c)
  PROVE  Single(r, c, m)
<1>1. r.queue[c] \in Seq(Command) /\ r.incoming[c] \in Seq(Command)
  BY DEF Queues
<1>2. Line(r, c) \in Seq(Command)
  BY <1>1, ConcatProperties DEF Line
<1>3. \A i \in 1 .. Len(Line(r, c)) : Line(r, c)[i] \in Waits(r, c)
  <2>1. \A z \in Seq(Command) : \A i \in 1 .. Len(z) : z[i] \in Range(z)
    BY RangeIs
  <2> QED BY <1>2, <2>1 DEF Waits
<1> QED BY <1>3 DEF Single, Unique

LEMMA WaitsIs ==
  ASSUME NEW r, Queues(r), NEW c \in Controller
  PROVE  /\ Waits(r, c) \subseteq Command
         /\ Waits(r, c) = Range(r.incoming[c] \o r.queue[c])
<1>1. r.queue[c] \in Seq(Command) /\ r.incoming[c] \in Seq(Command)
  BY DEF Queues
<1>2. \A x, y \in Seq(Command) : \A e : e \in Range(x \o y) <=> e \in Range(x) \/ e \in Range(y)
  <2> SUFFICES ASSUME NEW x \in Seq(Command), NEW y \in Seq(Command), NEW e
               PROVE  e \in Range(x \o y) <=> e \in Range(x) \/ e \in Range(y)
    OBVIOUS
  <2> DEFINE z == x \o y
  <2>1. /\ z \in Seq(Command) /\ Len(z) = Len(x) + Len(y)
        /\ Len(x) \in Nat /\ Len(y) \in Nat
        /\ \A k \in 1 .. Len(x) + Len(y) : z[k] = IF k <= Len(x) THEN x[k] ELSE y[k - Len(x)]
    BY ConcatProperties
  <2> HIDE DEF z
  <2>2. /\ \A k \in 1 .. Len(z) : (k \in 1 .. Len(x) /\ z[k] = x[k])
                                  \/ (k - Len(x) \in 1 .. Len(y) /\ z[k] = y[k - Len(x)])
        /\ \A k \in 1 .. Len(x) : k \in 1 .. Len(z) /\ z[k] = x[k]
    BY <2>1
  <2>3. \A k \in 1 .. Len(y) : k + Len(x) \in 1 .. Len(z) /\ z[k + Len(x)] = y[k]
    <3> SUFFICES ASSUME NEW k \in 1 .. Len(y)
                 PROVE  k + Len(x) \in 1 .. Len(z) /\ z[k + Len(x)] = y[k]
      OBVIOUS
    <3>1. k + Len(x) \in 1 .. Len(x) + Len(y) /\ ~ k + Len(x) <= Len(x) /\ (k + Len(x)) - Len(x) = k
      BY <2>1
    <3> QED BY <2>1, <3>1
  <2>4. /\ Range(z) = {z[k] : k \in 1 .. Len(z)} /\ Range(x) = {x[k] : k \in 1 .. Len(x)}
        /\ Range(y) = {y[k] : k \in 1 .. Len(y)}
    BY <2>1, RangeIs
  <2>5. e \in Range(z) <=> e \in Range(x) \/ e \in Range(y)
    BY <2>2, <2>3, <2>4
  <2> QED BY <2>5 DEF z
<1>3. Waits(r, c) = Range(r.queue[c] \o r.incoming[c])
  BY DEF Waits, Line
<1>4. Range(r.queue[c] \o r.incoming[c]) \subseteq Command
  <2>1. \A x, y \in Seq(Command) : x \o y \in Seq(Command)
    BY ConcatProperties
  <2>2. \A z \in Seq(Command) : Range(z) \subseteq Command
    BY RangeIs
  <2> QED BY <1>1, <2>1, <2>2
<1>5. \A e : e \in Range(r.queue[c] \o r.incoming[c]) <=> e \in Range(r.incoming[c] \o r.queue[c])
  BY <1>1, <1>2
<1>6. Range(r.queue[c] \o r.incoming[c]) = Range(r.incoming[c] \o r.queue[c])
  BY <1>5
<1> QED BY <1>3, <1>4, <1>6

\* A command is added behind a queue of d.
LEMMA GrownInFront ==
  ASSUME NEW r, NEW q, Queues(r), NEW d \in Controller, NEW m \in Command,
         q.queue = [r.queue EXCEPT ![d] = Append(@, m)], q.incoming = r.incoming
  PROVE  Queues(q) /\ Grown(r, q, d, m, FALSE)
<1>1. /\ r.queue[d] \in Seq(Command) /\ r.incoming[d] \in Seq(Command)
      /\ q.queue[d] = Append(r.queue[d], m) /\ q.incoming[d] = r.incoming[d]
      /\ \A e \in Controller : e # d => q.queue[e] = r.queue[e] /\ q.incoming[e] = r.incoming[e]
  BY DEF Queues
<1>2. Append(r.queue[d], m) \in Seq(Command)
  BY <1>1, AppendProperties
<1>3. Queues(q)
  BY <1>2 DEF Queues
<1>4. Line(q, d) = Append(r.queue[d], m) \o r.incoming[d]
  BY <1>1 DEF Line
<1>5. /\ Range(Line(q, d)) = Range(Line(r, d)) \cup {m}
      /\ \A a, b : Before(Line(r, d), a, b) /\ b # m => Before(Line(q, d), a, b)
      /\ \A n : Unique(Line(r, d), n) /\ (n = m => m \notin Range(Line(r, d)))
           => Unique(Line(q, d), n)
  <2>1. \A x, y \in Seq(Command) : Inserted(x \o y, Append(x, m) \o y, m)
    BY InsertedBetween
  <2>2. Inserted(Line(r, d), Line(q, d), m)
    BY <1>1, <1>4, <2>1 DEF Line
  <2> QED BY <2>2 DEF Inserted
<1>6. \A e \in Controller : e # d => Line(q, e) = Line(r, e)
  BY <1>1 DEF Line
<1> HIDE DEF Line
<1>7. Grown(r, q, d, m, FALSE)
  BY <1>5, <1>6 DEF Grown, Waits, Ahead, Single
<1> QED BY <1>3, <1>7

LEMMA GrownBehind ==
  ASSUME NEW r, NEW q, Queues(r), NEW d \in Controller, NEW m \in Command,
         q.incoming = [r.incoming EXCEPT ![d] = Append(@, m)], q.queue = r.queue
  PROVE  Queues(q) /\ Grown(r, q, d, m, TRUE)
<1>1. /\ r.queue[d] \in Seq(Command) /\ r.incoming[d] \in Seq(Command)
      /\ q.incoming[d] = Append(r.incoming[d], m) /\ q.queue[d] = r.queue[d]
      /\ \A e \in Controller : e # d => q.queue[e] = r.queue[e] /\ q.incoming[e] = r.incoming[e]
  BY DEF Queues
<1>2. Append(r.incoming[d], m) \in Seq(Command)
  BY <1>1, AppendProperties
<1>3. Queues(q)
  BY <1>2 DEF Queues
<1>4. /\ Line(r, d) \in Seq(Command)
      /\ Line(r, d) \o <<>> = Line(r, d)
      /\ Append(Line(r, d), m) \o <<>> = Append(Line(r, d), m)
  BY <1>1, ConcatProperties, ConcatEmptySeq, AppendProperties DEF Line
<1>5. Line(q, d) = Append(Line(r, d), m)
  <2>1. <<m>> \in Seq(Command)
    OBVIOUS
  <2>2. (r.queue[d] \o r.incoming[d]) \o <<m>> = r.queue[d] \o (r.incoming[d] \o <<m>>)
    <3>1. \A x, y, z \in Seq(Command) : (x \o y) \o z = x \o (y \o z)
      BY ConcatAssociative
    <3> QED BY <1>1, <2>1, <3>1
  <2>3. Append(r.incoming[d], m) = r.incoming[d] \o <<m>>
    BY <1>1, AppendIsConcat
  <2>4. Append(Line(r, d), m) = Line(r, d) \o <<m>>
    BY <1>4, AppendIsConcat
  <2> QED BY <1>1, <2>2, <2>3, <2>4 DEF Line
<1>6. <<>> \in Seq(Command)
  OBVIOUS
<1> HIDE DEF Line
<1>7. /\ Range(Line(q, d)) = Range(Line(r, d)) \cup {m}
      /\ \A a, b : Before(Line(r, d), a, b) /\ b # m => Before(Line(q, d), a, b)
      /\ \A n : Unique(Line(r, d), n) /\ (n = m => m \notin Range(Line(r, d)))
           => Unique(Line(q, d), n)
      /\ \A a \in Range(Line(r, d)) : Before(Line(r, d), a, m) => Before(Line(q, d), a, m)
  <2>1. \A x, y \in Seq(Command) : y = <<>> =>
          /\ Inserted(x \o y, Append(x, m) \o y, m)
          /\ \A a \in Range(x \o y) : Before(x \o y, a, m) => Before(Append(x, m) \o y, a, m)
    BY InsertedBetween
  <2> DEFINE x == Line(r, d)
             w == Append(x, m)
  <2>2. /\ Inserted(x \o <<>>, w \o <<>>, m)
        /\ \A a \in Range(x \o <<>>) : Before(x \o <<>>, a, m) => Before(w \o <<>>, a, m)
    BY <1>4, <1>6, <2>1
  <2>3. Inserted(x, w, m) /\ \A a \in Range(x) : Before(x, a, m) => Before(w, a, m)
    BY <1>4, <2>2
  <2> QED BY <1>5, <2>3 DEF Inserted
<1>8. \A e \in Controller : e # d => Line(q, e) = Line(r, e)
  BY <1>1 DEF Line
<1>9. Grown(r, q, d, m, TRUE)
  BY <1>7, <1>8 DEF Grown, Waits, Ahead, Single
<1> QED BY <1>3, <1>9

\* moveAll keeps the line.
LEMMA MovedLines ==
  ASSUME NEW r, NEW q, Queues(r), NEW c \in Controller,
         q.queue = [r.queue EXCEPT ![c] = @ \o r.incoming[c]],
         q.incoming = [r.incoming EXCEPT ![c] = <<>>]
  PROVE  Queues(q) /\ SameLines(r, q)
<1>1. /\ r.queue[c] \in Seq(Command) /\ r.incoming[c] \in Seq(Command)
      /\ q.queue[c] = Line(r, c) /\ q.incoming[c] = <<>>
      /\ \A e \in Controller : e # c => q.queue[e] = r.queue[e] /\ q.incoming[e] = r.incoming[e]
  BY DEF Queues, Line
<1>2. Line(r, c) \in Seq(Command) /\ Line(r, c) \o <<>> = Line(r, c) /\ <<>> \in Seq(Command)
  BY <1>1, ConcatProperties, ConcatEmptySeq DEF Line
<1>3. Queues(q)
  BY <1>2 DEF Queues, Line
<1>4. \A e \in Controller : Line(q, e) = Line(r, e)
  BY <1>1, <1>2 DEF Line
<1>5. SameLines(r, q)
  BY <1>4 DEF SameLines, Waits, Ahead, Single
<1> QED BY <1>3, <1>5

\* The run loop takes a command.
LEMMA TakenLines ==
  ASSUME NEW r, NEW q, Queues(r), NEW c \in Controller, r.queue[c] # <<>>,
         q.queue = [r.queue EXCEPT ![c] = Tail(@)], q.incoming = r.incoming
  PROVE  Queues(q) /\ Took(r, q, c, Head(r.queue[c]))
<1> DEFINE m == Head(r.queue[c])
<1>1. /\ r.queue[c] \in Seq(Command) /\ r.incoming[c] \in Seq(Command)
      /\ q.queue[c] = Tail(r.queue[c]) /\ q.incoming[c] = r.incoming[c]
      /\ \A e \in Controller : e # c => q.queue[e] = r.queue[e] /\ q.incoming[e] = r.incoming[e]
  BY DEF Queues
<1>2. Tail(r.queue[c]) \in Seq(Command)
  BY <1>1, HeadTailProperties
<1>3. Queues(q)
  BY <1>2 DEF Queues
<1>4. Line(q, c) = Tail(r.queue[c]) \o r.incoming[c] /\ Line(r, c) = r.queue[c] \o r.incoming[c]
  BY <1>1 DEF Line
<1> HIDE DEF m
<1>5. \A x, y \in Seq(Command) : x # <<>> =>
        Head(x) \in Command /\ Removed(x \o y, Tail(x) \o y, Head(x))
  BY TakenFromFront
<1>6. /\ m \in Range(Line(r, c)) /\ m \in Command
      /\ Range(Line(q, c)) \subseteq Range(Line(r, c))
      /\ Range(Line(r, c)) \subseteq Range(Line(q, c)) \cup {m}
      /\ \A a, b : Before(Line(r, c), a, b) /\ a # m => Before(Line(q, c), a, b)
      /\ \A a : ~ Before(Line(r, c), a, m)
      /\ \A n : Unique(Line(r, c), n) => Unique(Line(q, c), n)
      /\ Unique(Line(r, c), m) => m \notin Range(Line(q, c))
  <2>1. m \in Command /\ Removed(Line(r, c), Line(q, c), m)
    BY <1>1, <1>4, <1>5 DEF m
  <2> QED BY <2>1 DEF Removed
<1>7. \A e \in Controller : e # c => Line(q, e) = Line(r, e)
  BY <1>1 DEF Line
<1>8. Took(r, q, c, m)
  BY <1>6, <1>7 DEF Took, Waits, Ahead, Single
<1> QED BY <1>3, <1>8 DEF m

\* deallocateSlotResources
LEMMA PurgedLines ==
  ASSUME NEW r, NEW q, Queues(r), NEW d \in Controller, NEW s, NEW i, NEW destroying,
         q.queue = [r.queue EXCEPT ![d] = Kept(@, s, i, destroying)],
         q.incoming = [r.incoming EXCEPT ![d] = Kept(@, s, i, destroying)]
  PROVE  Queues(q) /\ Purged(r, q, d, s, i, destroying)
<1>1. /\ r.queue[d] \in Seq(Command) /\ r.incoming[d] \in Seq(Command)
      /\ q.queue[d] = Kept(r.queue[d], s, i, destroying)
      /\ q.incoming[d] = Kept(r.incoming[d], s, i, destroying)
      /\ \A e \in Controller : e # d => q.queue[e] = r.queue[e] /\ q.incoming[e] = r.incoming[e]
  BY DEF Queues
<1>2. /\ Kept(r.queue[d], s, i, destroying) \in Seq(Command)
      /\ Kept(r.incoming[d], s, i, destroying) \in Seq(Command)
  BY <1>1, KeptIs
<1>3. Queues(q)
  BY <1>2 DEF Queues
<1>4. /\ Line(q, d) = Kept(r.queue[d], s, i, destroying) \o Kept(r.incoming[d], s, i, destroying)
      /\ Line(r, d) = r.queue[d] \o r.incoming[d]
  BY <1>1 DEF Line
<1>5. \A x, y \in Seq(Command) :
        Thinned(x \o y, Kept(x, s, i, destroying) \o Kept(y, s, i, destroying), s, i, destroying)
  BY KeptOfBoth
<1>6. /\ Range(Line(q, d)) = {m \in Range(Line(r, d)) : ~ Matches(m, s, i, destroying)}
      /\ \A a, b : Before(Line(r, d), a, b) /\ ~ Matches(a, s, i, destroying)
           => Before(Line(q, d), a, b)
      /\ \A m : Unique(Line(r, d), m) => Unique(Line(q, d), m)
  BY <1>1, <1>4, <1>5 DEF Thinned
<1>7. \A e \in Controller : e # d => Line(q, e) = Line(r, e)
  BY <1>1 DEF Line
<1>8. Purged(r, q, d, s, i, destroying)
  BY <1>6, <1>7 DEF Purged, Waits, Ahead, Single
<1> QED BY <1>3, <1>8

-----------------------------------------------------------------------------
(* The names of slots and capsules.                                        *)

LEMMA Names ==
  /\ OptSlot \subseteq Slot /\ PlugSlot \subseteq Slot /\ Part \subseteq Slot /\ Plugin \subseteq Slot
  /\ \A s \in Slot : s \in OptSlot \/ s \in PlugSlot \/ s \in Part
  /\ \A s \in OptSlot : s \notin PlugSlot /\ s \notin Part /\ s \notin Plugin /\ s # NULL
  /\ \A s \in PlugSlot : s \notin Part /\ s \in Plugin
  /\ \A p \in Plugin : p \in PlugSlot \/ (p \in Part /\ p[2] = "plug")
  /\ \A p \in Part : /\ p[1] \in Capsule /\ p[2] \in Roles /\ p = <<p[1], p[2]>>
                     /\ p \notin Capsule
                     /\ p \in Plugin <=> p[2] = "plug"
                     /\ p \notin Plugin <=> p \in Instance
  /\ Capsule \subseteq Instance
  /\ \A i \in Instance : i \in Capsule \/ (i \in Part /\ i \notin Plugin /\ i \in Slot)
  /\ NULL \notin Slot /\ NULL \notin Instance /\ NULL \notin Capsule /\ NULL \notin Controller
  /\ \A s \in OptSlot \cup PlugSlot : Owner[s] \in Controller
  /\ \A x \in Capsule, role \in Roles : <<x, role>> \in Part
  /\ \A x \in Capsule : \A p : p \in PartsOf(x) <=> p \in Part /\ p[1] = x
BY FrameAssumption DEF Slot, Part, Plugin, Instance, PartsOf

LEMMA Commands ==
  /\ \A m \in Command : /\ m.slot \in Slot \cup {NULL} /\ m.capsule \in Instance \cup {NULL}
                        /\ m.waiter \in Controller \cup {NULL}
                        /\ m = Msg(m.op, m.slot, m.capsule, m.waiter)
  /\ \A op \in {"incarnate", "import", "deport", "destroy", "exit"} :
       \A s \in Slot \cup {NULL}, i \in Instance \cup {NULL}, c \in Controller \cup {NULL} :
         Msg(op, s, i, c) \in Command
  /\ \A op, s, i, c : /\ Msg(op, s, i, c).op = op /\ Msg(op, s, i, c).slot = s
                      /\ Msg(op, s, i, c).capsule = i /\ Msg(op, s, i, c).waiter = c
BY DEF Command, Msg

-----------------------------------------------------------------------------
(* The inductive invariant, for a state r of the frame service, the threads *)
(* (w: what they do, h: their hands), the plans pl, and whether EXIT has    *)
(* been sent, ex.  gone is a capsule that is just being destroyed, or NULL. *)

SlotState == [exists : BOOLEAN, capsule : Instance \cup {NULL},
              controller : Controller \cup {NULL}, condemned : BOOLEAN, mapped : BOOLEAN]

State == [slot : [Slot -> SlotState],
          home : [Capsule -> OptSlot \cup {NULL}],
          initialized : SUBSET Instance,
          incoming : [Controller -> Seq(Command)],
          queue : [Controller -> Seq(Command)],
          signals : [Controller -> SUBSET (Slot \X Instance)],
          fatal : BOOLEAN]

Threads(w, h, pl) ==
  /\ w \in [Controller -> {"loop", "import", "deport", "waiting", "exited"}]
  /\ h \in [Controller -> Command \cup {NULL}]
  /\ pl \in [Plugin -> Capsule \cup {NULL}]

\* The slots of the main program stay, a living capsule is in its optional slot and
\* has its parts.
Homes(r, gone) ==
  /\ \A s \in OptSlot \cup PlugSlot : r.slot[s].exists
  /\ \A s \in Slot : r.slot[s].exists => r.slot[s].controller \in Controller
  /\ \A x \in Capsule : r.home[x] # NULL => r.slot[r.home[x]].capsule = x
  /\ \A s \in OptSlot : r.slot[s].capsule # NULL =>
       r.slot[s].capsule \in Capsule /\ r.home[r.slot[s].capsule] = s
  /\ \A p \in Part : r.home[p[1]] # NULL /\ p[1] # gone => r.slot[p].exists
  /\ \A p \in Part : p \notin Plugin => r.slot[p].capsule = IF r.slot[p].exists THEN p ELSE NULL

\* A plugin slot holds a living capsule and runs where that one runs.
Occupants(r) ==
  \A p \in Plugin :
    /\ r.slot[p].mapped <=> r.slot[p].capsule # NULL
    /\ r.slot[p].capsule # NULL =>
         /\ r.slot[p].exists /\ r.slot[p].capsule \in Capsule /\ r.home[r.slot[p].capsule] # NULL
         /\ r.slot[p].controller = r.slot[r.home[r.slot[p].capsule]].controller

Begun(r) == \A i \in r.initialized : Alive(r, i)

SignalsKept(r) ==
  \A c \in Controller : \A g \in r.signals[c] :
    r.slot[g[1]].exists /\ r.slot[g[1]].controller = c /\ r.slot[g[1]].capsule = g[2]

Incarnates(r) ==
  \A c \in Controller : \A m \in Waits(r, c) : m.op = "incarnate" =>
    m.slot = NULL /\ m.capsule \in Instance /\ Alive(r, m.capsule) /\ RunsOn(r, m.capsule) = c

\* What an import needs: a planned one, into an empty slot, of a living capsule that runs on c.
Importable(r, pl, c, m) ==
  /\ m.slot \in Plugin /\ m.capsule \in Capsule /\ m.waiter = NULL
  /\ pl[m.slot] = m.capsule
  /\ r.slot[m.slot].exists /\ r.slot[m.slot].capsule = NULL /\ r.slot[m.slot].controller = c
  /\ r.home[m.capsule] # NULL /\ r.slot[r.home[m.capsule]].controller = c

Imports(r, w, h, pl) ==
  \A c \in Controller :
    /\ \A m \in Waits(r, c) : m.op = "import" => Importable(r, pl, c, m) /\ Single(r, c, m)
    /\ w[c] = "import" => h[c] \in Command /\ h[c].op = "import" /\ Importable(r, pl, c, h[c])
                          /\ h[c] \notin Waits(r, c)

\* A deport is about the capsule in the slot, where that one runs.
Deports(r, pl) ==
  \A c \in Controller : \A m \in Waits(r, c) : m.op = "deport" =>
    /\ m.slot \in Plugin /\ m.capsule \in Capsule /\ m.waiter = NULL /\ pl[m.slot] = NULL
    /\ r.slot[m.slot].capsule = m.capsule /\ r.slot[m.slot].controller = c
    /\ m.slot \in PlugSlot => Owner[m.slot] # c

\* A part that is to be destroyed is one of a deleted capsule, and empty by then.
PartDestroys(r, gone) ==
  \A c \in Controller : \A m \in Waits(r, c) : m.op = "destroy" /\ m.waiter = NULL =>
    /\ m.slot \in Part /\ r.slot[m.slot].exists /\ r.slot[m.slot].controller = c
    /\ r.home[m.slot[1]] = NULL \/ m.slot[1] = gone
    /\ m.slot \in Plugin /\ r.slot[m.slot].capsule # NULL =>
         Ahead(r, c, Msg("deport", m.slot, r.slot[m.slot].capsule, NULL), m)

\* A capsule that is to be destroyed is in no plan and, by then, in no plugin slot.
Leaves(r, pl, c, x, m) ==
  \A p \in Plugin :
    /\ pl[p] # x
    /\ p \in PartsOf(x) => pl[p] = NULL
    /\ r.slot[p].capsule = x => p \in PlugSlot /\ Ahead(r, c, Msg("deport", p, x, NULL), m)

TopDestroys(r, w, pl) ==
  \A c \in Controller : \A m \in Waits(r, c) : m.op = "destroy" /\ m.waiter # NULL =>
    /\ m.slot \in OptSlot /\ r.slot[m.slot].controller = c /\ r.slot[m.slot].capsule # NULL
    /\ w[m.waiter] = "waiting"
    /\ Leaves(r, pl, c, r.slot[m.slot].capsule, m)

\* Nobody waits for two slots to be destroyed.
Waiters(r) ==
  \A c, d \in Controller : \A m \in Waits(r, c), n \in Waits(r, d) :
    m.op = "destroy" /\ n.op = "destroy" /\ m.waiter # NULL /\ m.waiter = n.waiter
      => m.slot = n.slot

\* A plan has been carried out, or its import is on the way.
Plans(r, w, h, pl, gone) ==
  \A p \in Plugin : pl[p] # NULL =>
    /\ p \in Part => r.home[p[1]] # NULL /\ p[1] # gone
    /\ \/ r.slot[p].capsule = pl[p]
       \/ \E c \in Controller : LET m == Msg("import", p, pl[p], NULL)
                                IN m \in Waits(r, c) \/ (w[c] = "import" /\ h[c] = m)

\* A capsule that has to leave a plugin slot of the main program: its deport is on the way.
Undone(r, w, h, pl) ==
  \A p \in PlugSlot : r.slot[p].capsule # NULL /\ pl[p] = NULL =>
    \/ Msg("deport", p, r.slot[p].capsule, NULL) \in Waits(r, r.slot[p].controller)
    \/ w[Owner[p]] = "deport" /\ h[Owner[p]].slot = p

\* The container of a slot that is being deported runs on the controller that does it.
Hands(r, w, h, pl) ==
  \A c \in Controller : w[c] = "deport" =>
    /\ h[c] \in Command /\ h[c].slot \in Plugin /\ pl[h[c].slot] = NULL
    /\ h[c].slot \in PlugSlot => Owner[h[c].slot] = c
    /\ h[c].slot \in Part => /\ r.home[h[c].slot[1]] # NULL
                             /\ r.slot[r.home[h[c].slot[1]]].controller = c

Exits(r, ex) ==
  /\ \A c \in Controller : \A m \in Waits(r, c) : m.op = "exit" => ex /\ m.slot = NULL
  /\ r.fatal => ex

Inv(r, w, h, pl, ex, gone) ==
  /\ r \in State
  /\ Threads(w, h, pl)
  /\ Homes(r, gone)
  /\ Occupants(r)
  /\ Begun(r)
  /\ SignalsKept(r)
  /\ Incarnates(r)
  /\ Imports(r, w, h, pl)
  /\ Deports(r, pl)
  /\ PartDestroys(r, gone)
  /\ TopDestroys(r, w, pl)
  /\ Waiters(r)
  /\ Plans(r, w, h, pl, gone)
  /\ Undone(r, w, h, pl)
  /\ Hands(r, w, h, pl)
  /\ Exits(r, ex)

IInv == Inv(rt, pc, hand, plan, exiting, NULL) /\ exiting \in BOOLEAN

-----------------------------------------------------------------------------
(* What the operators do to a state.                                       *)

LEMMA StateIs ==
  ASSUME NEW r \in State
  PROVE  /\ Queues(r)
         /\ \A s \in Slot : /\ r.slot[s].exists \in BOOLEAN /\ r.slot[s].mapped \in BOOLEAN
                            /\ r.slot[s].capsule \in Instance \cup {NULL}
                            /\ r.slot[s].controller \in Controller \cup {NULL}
                            /\ r.slot[s].condemned \in BOOLEAN
         /\ \A x \in Capsule : r.home[x] \in OptSlot \cup {NULL}
         /\ r.initialized \subseteq Instance
         /\ \A c \in Controller : \A g \in r.signals[c] : g[1] \in Slot /\ g[2] \in Instance
         /\ \A c \in Controller : Waits(r, c) \subseteq Command
<1>1. Queues(r)
  BY DEF State, Queues
<1>2. \A c \in Controller : Waits(r, c) \subseteq Command
  BY <1>1, WaitsIs
<1>3. \A c \in Controller : r.signals[c] \subseteq Slot \X Instance
  BY DEF State
<1>4. \A s \in Slot : r.slot[s] \in SlotState
  BY DEF State
<1>5. r.initialized \subseteq Instance /\ \A x \in Capsule : r.home[x] \in OptSlot \cup {NULL}
  BY DEF State
<1> QED BY <1>1, <1>2, <1>3, <1>4, <1>5 DEF SlotState

\* Only the commands are others.
SameButCommands(r, q) ==
  /\ q.slot = r.slot /\ q.home = r.home /\ q.initialized = r.initialized
  /\ q.signals = r.signals /\ q.fatal = r.fatal

\* Only slot s and what waits for it are others.
Cleared(r, q, s, d, i, destroying) ==
  /\ \A t \in Slot : t # s => q.slot[t] = r.slot[t]
  /\ \A e \in Controller : q.signals[e] = {g \in r.signals[e] : e = d => g[1] # s}
  /\ Purged(r, q, d, s, i, destroying)
  /\ q.fatal => r.fatal \/ \E m \in Waits(r, d) : m.op = "exit"

LEMMA EnqueueIs ==
  ASSUME NEW r \in State, NEW c \in Controller, NEW d \in Controller, NEW m \in Command
  PROVE  /\ Enqueue(r, c, d, m) \in State
         /\ SameButCommands(r, Enqueue(r, c, d, m))
         /\ Grown(r, Enqueue(r, c, d, m), d, m, c # d)
<1> DEFINE q == Enqueue(r, c, d, m)
<1>1. Queues(r)
  BY StateIs
<1>2. CASE c = d
  <2>1. q = [r EXCEPT !.queue = [r.queue EXCEPT ![d] = Append(@, m)]]
    BY <1>2 DEF Enqueue
  <2>2. /\ SameButCommands(r, q)
        /\ q.queue = [r.queue EXCEPT ![d] = Append(@, m)] /\ q.incoming = r.incoming
    BY <2>1 DEF State, SameButCommands
  <2> HIDE DEF q
  <2>3. Queues(q) /\ Grown(r, q, d, m, FALSE)
    BY <1>1, <2>2, GrownInFront
  <2>4. q \in State
    <3>1. q = [r EXCEPT !.queue = q.queue] /\ q.queue \in [Controller -> Seq(Command)]
      BY <2>1, <2>2, <2>3 DEF Queues
    <3> QED BY <3>1 DEF State
  <2>5. Grown(r, q, d, m, c # d)
    BY <1>2, <2>3
  <2> QED BY <2>2, <2>4, <2>5 DEF q
<1>3. CASE c # d
  <2>1. q = [r EXCEPT !.incoming = [r.incoming EXCEPT ![d] = Append(@, m)]]
    BY <1>3 DEF Enqueue
  <2>2. /\ SameButCommands(r, q)
        /\ q.incoming = [r.incoming EXCEPT ![d] = Append(@, m)] /\ q.queue = r.queue
    BY <2>1 DEF State, SameButCommands
  <2> HIDE DEF q
  <2>3. Queues(q) /\ Grown(r, q, d, m, TRUE)
    BY <1>1, <2>2, GrownBehind
  <2>4. q \in State
    <3>1. q = [r EXCEPT !.incoming = q.incoming] /\ q.incoming \in [Controller -> Seq(Command)]
      BY <2>1, <2>2, <2>3 DEF Queues
    <3> QED BY <3>1 DEF State
  <2>5. Grown(r, q, d, m, c # d)
    BY <1>3, <2>3
  <2> QED BY <2>2, <2>4, <2>5 DEF q
<1> QED BY <1>2, <1>3

LEMMA DeallocateIs ==
  ASSUME NEW r \in State, NEW s \in Slot, NEW i, NEW destroying \in BOOLEAN,
         r.slot[s].controller \in Controller
  PROVE  LET q == Deallocate(r, s, i, destroying)
         IN /\ q \in State
            /\ q.slot = r.slot /\ q.home = r.home /\ q.initialized = r.initialized
            /\ Cleared(r, q, s, r.slot[s].controller, i, destroying)
<1> DEFINE q == Deallocate(r, s, i, destroying)
           d == r.slot[s].controller
           exits == {m \in Range(r.incoming[d] \o r.queue[d]) : m.op = "exit"}
           incoming == [r.incoming EXCEPT ![d] = Kept(@, s, i, destroying)]
           queue == [r.queue EXCEPT ![d] = Kept(@, s, i, destroying)]
           signals == [r.signals EXCEPT ![d] = {g \in @ : g[1] # s}]
           fatal == r.fatal \/ exits # {}
<1>1. Queues(r) /\ d \in Controller
  BY StateIs
<1>2. q = [r EXCEPT !.incoming = incoming, !.queue = queue, !.signals = signals, !.fatal = fatal]
  BY DEF Deallocate
<1>3. signals \in [Controller -> SUBSET (Slot \X Instance)]
      /\ \A e \in Controller : signals[e] = {g \in r.signals[e] : e = d => g[1] # s}
  BY <1>1 DEF State
<1>4. fatal \in BOOLEAN
  BY DEF State
<1>5. fatal => r.fatal \/ \E m \in Waits(r, d) : m.op = "exit"
  BY <1>1, WaitsIs
<1> HIDE DEF incoming, queue, signals, fatal, d
<1>6. /\ q.slot = r.slot /\ q.home = r.home /\ q.initialized = r.initialized
      /\ q.incoming = incoming /\ q.queue = queue /\ q.signals = signals /\ q.fatal = fatal
  BY <1>2 DEF State
<1> HIDE DEF q
<1>7. Queues(q) /\ Purged(r, q, d, s, i, destroying)
  BY <1>1, <1>6, PurgedLines DEF incoming, queue
<1>8. q \in State
  <2>1. incoming \in [Controller -> Seq(Command)] /\ queue \in [Controller -> Seq(Command)]
    BY <1>6, <1>7 DEF Queues
  <2> QED BY <1>2, <1>3, <1>4, <2>1 DEF State
<1>9. Cleared(r, q, s, d, i, destroying)
  BY <1>3, <1>5, <1>6, <1>7 DEF Cleared
<1> QED BY <1>6, <1>8, <1>9 DEF q, d

\* Slot p is emptied.
Emptied(r, q, p) ==
  /\ q \in State /\ q.home = r.home /\ q.initialized = r.initialized
  /\ q.slot[p] = [r.slot[p] EXCEPT !.capsule = NULL, !.mapped = FALSE]
  /\ Cleared(r, q, p, r.slot[p].controller, r.slot[p].capsule, FALSE)

LEMMA ControllerDeportIs ==
  ASSUME NEW r \in State, NEW p \in Slot, NEW synchronous \in BOOLEAN,
         r.slot[p].controller \in Controller, r.slot[p].capsule # NULL, r.slot[p].mapped
  PROVE  Emptied(r, ControllerDeport(r, p, synchronous), p)
<1> DEFINE w == Deallocate(r, p, r.slot[p].capsule, FALSE)
           v == [r.slot[p] EXCEPT !.capsule = NULL, !.mapped = FALSE]
           q == [w EXCEPT !.slot = [r.slot EXCEPT ![p] = v]]
<1>1. /\ w \in State
      /\ w.slot = r.slot /\ w.home = r.home /\ w.initialized = r.initialized
      /\ Cleared(r, w, p, r.slot[p].controller, r.slot[p].capsule, FALSE)
  BY DeallocateIs
<1> HIDE DEF w
<1>2. ControllerDeport(r, p, synchronous) = q
  BY <1>1 DEF ControllerDeport, w, State
<1>3. v \in SlotState
  <2>1. r.slot[p] \in SlotState
    BY DEF State
  <2> QED BY <2>1 DEF SlotState
<1> HIDE DEF v
<1>4. /\ q \in State /\ q.slot[p] = v /\ \A t \in Slot : t # p => q.slot[t] = r.slot[t]
      /\ q.home = r.home /\ q.initialized = r.initialized /\ q.signals = w.signals
      /\ q.fatal = w.fatal /\ q.queue = w.queue /\ q.incoming = w.incoming
  BY <1>1, <1>3 DEF State
<1> HIDE DEF q
<1>5. Cleared(r, q, p, r.slot[p].controller, r.slot[p].capsule, FALSE)
  BY <1>1, <1>4 DEF Cleared, Purged, Waits, Ahead, Single, Line
<1> QED BY <1>2, <1>4, <1>5 DEF Emptied, v

\* Only slots are others.
SameButSlots(r, q) ==
  /\ q.home = r.home /\ q.initialized = r.initialized /\ q.signals = r.signals
  /\ q.fatal = r.fatal /\ q.queue = r.queue /\ q.incoming = r.incoming

\* What both forms of controllerDestroy end with.
Removal(r, s, i, v) == [Deallocate(Delete(r, i), s, i, TRUE) EXCEPT !.slot[s] = v]

Cut(r, q, s, i, v) ==
  /\ q \in State
  /\ \A x \in Capsule : q.home[x] = IF x = i THEN NULL ELSE r.home[x]
  /\ q.initialized = r.initialized \ {i}
  /\ q.slot[s] = v
  /\ Cleared(r, q, s, r.slot[s].controller, i, TRUE)

LEMMA RemovalIs ==
  ASSUME NEW r \in State, NEW s \in Slot, NEW i, NEW v \in SlotState,
         r.slot[s].controller \in Controller
  PROVE  Cut(r, Removal(r, s, i, v), s, i, v)
<1> DEFINE home == [x \in Capsule |-> IF x = i THEN NULL ELSE r.home[x]]
           z == [r EXCEPT !.home = home, !.initialized = @ \ {i}]
           w == Deallocate(z, s, i, TRUE)
           q == [w EXCEPT !.slot[s] = v]
<1>1. z = Delete(r, i)
  BY DEF Delete
<1>2. home \in [Capsule -> OptSlot \cup {NULL}] /\ \A x \in Capsule : home[x] = IF x = i THEN NULL ELSE r.home[x]
  BY DEF State
<1> HIDE DEF home
<1>3. /\ z \in State /\ z.slot = r.slot /\ z.home = home /\ z.initialized = r.initialized \ {i}
      /\ z.signals = r.signals /\ z.fatal = r.fatal /\ z.queue = r.queue /\ z.incoming = r.incoming
  BY <1>2 DEF State
<1> HIDE DEF z
<1>4. /\ w \in State /\ w.slot = z.slot /\ w.home = z.home /\ w.initialized = z.initialized
      /\ Cleared(z, w, s, z.slot[s].controller, i, TRUE)
  BY <1>3, DeallocateIs
<1> HIDE DEF w
<1>5. /\ q \in State /\ q.slot[s] = v /\ \A t \in Slot : t # s => q.slot[t] = w.slot[t]
      /\ q.home = w.home /\ q.initialized = w.initialized /\ q.signals = w.signals
      /\ q.fatal = w.fatal /\ q.queue = w.queue /\ q.incoming = w.incoming
  BY <1>4 DEF State
<1>6. Removal(r, s, i, v) = q
  BY <1>1 DEF Removal, w
<1> HIDE DEF q
<1>7. Cleared(r, q, s, r.slot[s].controller, i, TRUE)
  <2>1. \A e : Line(z, e) = Line(r, e) /\ Line(q, e) = Line(w, e)
    BY <1>3, <1>5 DEF Line
  <2>3. \A d : Purged(z, w, d, s, i, TRUE) => Purged(r, q, d, s, i, TRUE)
    BY <2>1 DEF Purged, Waits, Ahead, Single
  <2>4. \A d : Waits(z, d) = Waits(r, d)
    BY <2>1 DEF Waits
  <2>5. \A d : Cleared(z, w, s, d, i, TRUE) => Cleared(r, q, s, d, i, TRUE)
    BY <1>3, <1>4, <1>5, <2>3, <2>4 DEF Cleared
  <2> QED BY <1>3, <1>4, <2>5
<1> QED BY <1>2, <1>3, <1>4, <1>5, <1>6, <1>7 DEF Cut

\* Slot p becomes v.
Turned(r, q, p, v) ==
  /\ q \in State /\ SameButSlots(r, q)
  /\ q.slot[p] = v /\ \A t \in Slot : t # p => q.slot[t] = r.slot[t]

LEMMA TurnedIs ==
  ASSUME NEW r \in State, NEW p \in Slot, NEW v \in SlotState
  PROVE  Turned(r, [r EXCEPT !.slot[p] = v], p, v)
BY DEF Turned, SameButSlots, State

LEMMA BindIs ==
  ASSUME NEW r \in State, NEW p \in Slot, NEW y \in Capsule,
         ~ r.slot[p].mapped, r.slot[p].exists, r.home[y] # NULL
  PROVE  Turned(r, Bind(r, p, y), p,
                [r.slot[p] EXCEPT !.capsule = y, !.controller = r.slot[r.home[y]].controller,
                                  !.mapped = TRUE])
<1> DEFINE e == r.slot[r.home[y]].controller
           v == [r.slot[p] EXCEPT !.capsule = y, !.controller = e, !.mapped = TRUE]
<1>1. e \in Controller \cup {NULL}
  BY StateIs, Names
<1>2. r.slot[p] \in SlotState /\ y \in Instance
  BY Names DEF State
<1>3. RunsOn(r, y) = e /\ Alive(r, y)
  BY DEF RunsOn, Alive
<1> HIDE DEF e
<1>4. v \in SlotState
  BY <1>1, <1>2 DEF SlotState
<1>5. Bind(r, p, y) = [r EXCEPT !.slot[p] = v]
  BY <1>1, <1>2, <1>3 DEF Bind, State, SlotState
<1> QED BY <1>4, <1>5, TurnedIs DEF e

LEMMA GivenIs ==
  ASSUME NEW r \in State, NEW p \in Slot, NEW d \in Controller
  PROVE  Turned(r, [r EXCEPT !.slot[p].controller = d], p, [r.slot[p] EXCEPT !.controller = d])
<1> DEFINE v == [r.slot[p] EXCEPT !.controller = d]
<1>1. v \in SlotState
  <2>1. r.slot[p] \in SlotState
    BY DEF State
  <2> QED BY <2>1 DEF SlotState
<1>2. [r EXCEPT !.slot[p].controller = d] = [r EXCEPT !.slot[p] = v]
  BY DEF State
<1> HIDE DEF v
<1>3. Turned(r, [r EXCEPT !.slot[p] = v], p, v)
  BY <1>1, TurnedIs
<1> QED BY <1>2, <1>3 DEF v

LEMMA CondemnIs ==
  ASSUME NEW r \in State, NEW slots
  PROVE  LET q == Condemn(r, slots)
         IN /\ q \in State /\ SameButSlots(r, q)
            /\ \A t \in Slot : /\ q.slot[t].exists = r.slot[t].exists
                               /\ q.slot[t].capsule = r.slot[t].capsule
                               /\ q.slot[t].controller = r.slot[t].controller
                               /\ q.slot[t].mapped = r.slot[t].mapped
<1> DEFINE v == [s \in Slot |-> IF s \in slots THEN [r.slot[s] EXCEPT !.condemned = TRUE]
                                ELSE r.slot[s]]
           q == [r EXCEPT !.slot = v]
<1>1. \A s \in Slot : r.slot[s] \in SlotState
  BY DEF State
<1>2. \A s \in Slot : v[s] \in SlotState
  BY <1>1 DEF SlotState
<1>3. \A t \in Slot : /\ v[t].exists = r.slot[t].exists /\ v[t].capsule = r.slot[t].capsule
                      /\ v[t].controller = r.slot[t].controller /\ v[t].mapped = r.slot[t].mapped
  BY <1>1 DEF SlotState
<1>4. v \in [Slot -> SlotState]
  BY <1>2
<1>5. Condemn(r, slots) = q
  BY DEF Condemn
<1> HIDE DEF v
<1>6. q \in State /\ SameButSlots(r, q) /\ q.slot = v
  BY <1>4 DEF State, SameButSlots
<1> QED BY <1>3, <1>5, <1>6

\* The new capsule x in slot s, on d, with its parts on the controllers e.
Made(r, s, x, d, e) ==
  [CreateParts(r, x, e) EXCEPT !.home[x] = s, !.slot[s].capsule = x, !.slot[s].controller = d]

Born(r, q, s, x, d) ==
  /\ q \in State
  /\ q.home[x] = s /\ \A y \in Capsule : y # x => q.home[y] = r.home[y]
  /\ q.slot[s].exists = r.slot[s].exists /\ q.slot[s].capsule = x /\ q.slot[s].controller = d
  /\ \A t \in Part : t[1] = x =>
       /\ q.slot[t].exists /\ q.slot[t].controller \in Controller /\ ~ q.slot[t].mapped
       /\ q.slot[t].capsule = IF t \in Plugin THEN NULL ELSE t
  /\ \A t \in Slot : t # s /\ ~ (t \in Part /\ t[1] = x) => q.slot[t] = r.slot[t]
  /\ q.initialized = r.initialized /\ q.signals = r.signals
  /\ q.fatal = r.fatal /\ q.queue = r.queue /\ q.incoming = r.incoming

LEMMA MadeIs ==
  ASSUME NEW r \in State, NEW s \in OptSlot, NEW x \in Capsule, NEW d \in Controller,
         NEW e \in [Roles -> Controller]
  PROVE  Born(r, Made(r, s, x, d, e), s, x, d)
<1> DEFINE v == [t \in Slot |-> IF t \in PartsOf(x)
                   THEN [Vacant(e[t[2]]) EXCEPT !.capsule = IF t \in Instance THEN t ELSE NULL]
                   ELSE r.slot[t]]
           u == [v EXCEPT ![s].capsule = x, ![s].controller = d]
           home == [r.home EXCEPT ![x] = s]
           q == [r EXCEPT !.slot = u, !.home = home]
<1>1. \A t \in Part : t \in Slot /\ (t \in PartsOf(x) <=> t[1] = x) /\ e[t[2]] \in Controller
                      /\ (t \in Instance <=> t \notin Plugin)
  BY Names
<1>2. \A t \in Part : t[1] = x =>
        /\ v[t] \in SlotState /\ v[t].exists /\ v[t].controller \in Controller /\ ~ v[t].mapped
        /\ v[t].capsule = IF t \in Plugin THEN NULL ELSE t
  BY <1>1 DEF Vacant, SlotState
<1>3. /\ s \in Slot /\ s \notin Part
      /\ \A t \in Slot : ~ (t \in Part /\ t[1] = x) => v[t] = r.slot[t] /\ v[t] \in SlotState
  <2>1. s \in Slot /\ s \notin Part
    BY Names
  <2>2. \A t \in Slot : ~ (t \in Part /\ t[1] = x) => t \notin PartsOf(x)
    BY Names
  <2> QED BY <2>1, <2>2 DEF State
<1>4. [v[s] EXCEPT !.capsule = x, !.controller = d] \in SlotState
  <2>1. v[s] \in SlotState /\ x \in Instance
    BY <1>3, Names
  <2> QED BY <2>1 DEF SlotState
<1>5. DOMAIN v = Slot /\ v = [t \in Slot |-> v[t]]
  OBVIOUS
<1>6. home \in [Capsule -> OptSlot \cup {NULL}] /\ home[x] = s
      /\ \A y \in Capsule : y # x => home[y] = r.home[y]
  BY DEF State
<1>7. Made(r, s, x, d, e) = q
  <2> DEFINE z == CreateParts(r, x, e)
  <2>1. z = [r EXCEPT !.slot = v]
    BY DEF CreateParts
  <2> HIDE DEF v
  <2>2. z.slot = v /\ z.home = r.home
    BY <2>1 DEF State
  <2>3. Made(r, s, x, d, e) = [z EXCEPT !.home = home, !.slot = u]
    <3> HIDE DEF z
    <3>1. /\ z = [slot |-> v, home |-> r.home, initialized |-> r.initialized, incoming |-> r.incoming,
                  queue |-> r.queue, signals |-> r.signals, fatal |-> r.fatal]
          /\ v \in [Slot -> SlotState] /\ r.home \in [Capsule -> OptSlot \cup {NULL}]
      BY <1>1, <1>2, <1>3, <1>5, <2>1 DEF State
    <3>2. [z EXCEPT !.home[x] = s, !.slot[s].capsule = x, !.slot[s].controller = d]
          = [z EXCEPT !.home = [r.home EXCEPT ![x] = s],
                      !.slot = [v EXCEPT ![s].capsule = x, ![s].controller = d]]
      BY <3>1, <1>3 DEF SlotState
    <3> QED BY <3>2 DEF Made, z
  <2> HIDE DEF z, u, home
  <2> QED BY <2>1, <2>3 DEF State
<1> HIDE DEF v
<1>8. /\ u \in [Slot -> SlotState] /\ \A t \in Slot : t # s => u[t] = v[t]
      /\ u[s] = [v[s] EXCEPT !.capsule = x, !.controller = d]
  <2>1. \A t \in Slot : v[t] \in SlotState
    BY <1>2, <1>3
  <2> QED BY <1>3, <1>4, <1>5, <2>1
<1>9. u[s].exists = r.slot[s].exists /\ u[s].capsule = x /\ u[s].controller = d
  BY <1>3, <1>8 DEF SlotState
<1> HIDE DEF u, home
<1>10. /\ q \in State /\ q.slot = u /\ q.home = home
       /\ q.initialized = r.initialized /\ q.signals = r.signals
       /\ q.fatal = r.fatal /\ q.queue = r.queue /\ q.incoming = r.incoming
  BY <1>6, <1>8 DEF State
<1> HIDE DEF q
<1>11. \A t \in Part : t # s /\ t \in Slot
  BY <1>1, <1>3
<1>12. \A t \in Part : t[1] = x => q.slot[t] = v[t]
  BY <1>8, <1>10, <1>11
<1>13. \A t \in Slot : t # s /\ ~ (t \in Part /\ t[1] = x) => q.slot[t] = r.slot[t]
  BY <1>3, <1>8, <1>10
<1>14. \A t \in Part : t[1] = x =>
         /\ q.slot[t].exists /\ q.slot[t].controller \in Controller /\ ~ q.slot[t].mapped
         /\ q.slot[t].capsule = IF t \in Plugin THEN NULL ELSE t
  BY <1>2, <1>12
<1> QED BY <1>6, <1>7, <1>9, <1>10, <1>13, <1>14 DEF Born

LEMMA TakenIs ==
  ASSUME NEW r \in State, NEW c \in Controller, r.queue[c] # <<>>
  PROVE  LET q == [r EXCEPT !.queue[c] = Tail(@)]
         IN q \in State /\ SameButCommands(r, q) /\ Took(r, q, c, Head(r.queue[c]))
<1> DEFINE queue == [r.queue EXCEPT ![c] = Tail(@)]
           q == [r EXCEPT !.queue = queue]
<1>1. /\ SameButCommands(r, q) /\ q.queue = queue /\ q.incoming = r.incoming
  BY DEF State, SameButCommands
<1>2. q = [r EXCEPT !.queue[c] = Tail(@)]
  OBVIOUS
<1> HIDE DEF q
<1>3. Queues(q) /\ Took(r, q, c, Head(r.queue[c]))
  BY <1>1, StateIs, TakenLines
<1>4. q \in State
  <2>1. queue \in [Controller -> Seq(Command)]
    BY <1>1, <1>3 DEF Queues
  <2> QED BY <2>1 DEF State, q
<1> QED BY <1>1, <1>2, <1>3, <1>4

LEMMA MovedIs ==
  ASSUME NEW r \in State, NEW c \in Controller
  PROVE  LET q == [r EXCEPT !.queue[c] = @ \o r.incoming[c], !.incoming[c] = <<>>]
         IN q \in State /\ SameButCommands(r, q) /\ SameLines(r, q)
<1> DEFINE queue == [r.queue EXCEPT ![c] = @ \o r.incoming[c]]
           incoming == [r.incoming EXCEPT ![c] = <<>>]
           q == [r EXCEPT !.queue = queue, !.incoming = incoming]
<1>1. /\ SameButCommands(r, q) /\ q.queue = queue /\ q.incoming = incoming
  BY DEF State, SameButCommands
<1>2. q = [r EXCEPT !.queue[c] = @ \o r.incoming[c], !.incoming[c] = <<>>]
  BY DEF State
<1> HIDE DEF q
<1>3. Queues(q) /\ SameLines(r, q)
  BY <1>1, StateIs, MovedLines
<1>4. q \in State
  <2>1. queue \in [Controller -> Seq(Command)] /\ incoming \in [Controller -> Seq(Command)]
    BY <1>1, <1>3 DEF Queues
  <2> HIDE DEF queue, incoming
  <2> QED BY <2>1 DEF State, q
<1> QED BY <1>1, <1>2, <1>3, <1>4

\* m is added for all.
Told(r, q, m) ==
  \A e \in Controller :
    /\ Waits(q, e) = Waits(r, e) \cup {m}
    /\ \A a, b : Ahead(r, e, a, b) /\ b # m => Ahead(q, e, a, b)
    /\ \A n : Single(r, e, n) /\ n # m => Single(q, e, n)

LEMMA ToldIs ==
  ASSUME NEW r \in State, NEW c \in Controller, NEW m \in Command
  PROVE  LET q == [r EXCEPT !.queue[c] = Append(@, m),
                            !.incoming = [d \in Controller |-> IF d = c THEN @[d]
                                                               ELSE Append(@[d], m)]]
         IN q \in State /\ SameButCommands(r, q) /\ Told(r, q, m)
<1> DEFINE queue == [r.queue EXCEPT ![c] = Append(@, m)]
           incoming == [d \in Controller |-> IF d = c THEN r.incoming[d]
                                             ELSE Append(r.incoming[d], m)]
           q == [r EXCEPT !.queue = queue, !.incoming = incoming]
<1>1. /\ SameButCommands(r, q) /\ q.queue = queue /\ q.incoming = incoming
  BY DEF State, SameButCommands
<1>2. q = [r EXCEPT !.queue[c] = Append(@, m),
                    !.incoming = [d \in Controller |-> IF d = c THEN @[d] ELSE Append(@[d], m)]]
  BY DEF State
<1>3. /\ r.queue \in [Controller -> Seq(Command)] /\ r.incoming \in [Controller -> Seq(Command)]
      /\ \A x \in Seq(Command) : Append(x, m) \in Seq(Command)
  BY AppendProperties DEF State
<1>4. queue \in [Controller -> Seq(Command)] /\ incoming \in [Controller -> Seq(Command)]
  BY <1>3
<1> HIDE DEF q
<1>5. q \in State
  <2> HIDE DEF queue, incoming
  <2> QED BY <1>4 DEF State, q
<1>6. ASSUME NEW e \in Controller
      PROVE  /\ Waits(q, e) = Waits(r, e) \cup {m}
             /\ \A a, b : Ahead(r, e, a, b) /\ b # m => Ahead(q, e, a, b)
             /\ \A n : Single(r, e, n) /\ n # m => Single(q, e, n)
  <2>1. Queues(r)
    BY StateIs
  <2>2. CASE e = c
    <3> DEFINE z == [r EXCEPT !.queue = [r.queue EXCEPT ![e] = Append(@, m)]]
    <3>1. z.queue = [r.queue EXCEPT ![e] = Append(@, m)] /\ z.incoming = r.incoming
      BY DEF State
    <3>2. Line(z, e) = Line(q, e)
      BY <1>1, <1>3, <2>2, <3>1 DEF Line
    <3> HIDE DEF z
    <3>3. Grown(r, z, e, m, FALSE)
      BY <2>1, <3>1, GrownInFront
    <3> QED BY <3>2, <3>3 DEF Grown, Waits, Ahead, Single
  <2>3. CASE e # c
    <3> DEFINE z == [r EXCEPT !.incoming = [r.incoming EXCEPT ![e] = Append(@, m)]]
    <3>1. z.incoming = [r.incoming EXCEPT ![e] = Append(@, m)] /\ z.queue = r.queue
      BY DEF State
    <3>2. Line(z, e) = Line(q, e)
      BY <1>1, <1>3, <2>3, <3>1 DEF Line
    <3> HIDE DEF z
    <3>3. Grown(r, z, e, m, TRUE)
      BY <2>1, <3>1, GrownBehind
    <3> QED BY <3>2, <3>3 DEF Grown, Waits, Ahead, Single
  <2> QED BY <2>2, <2>3
<1>7. Told(r, q, m)
  BY <1>6 DEF Told
<1> QED BY <1>1, <1>2, <1>5, <1>7

-----------------------------------------------------------------------------
(* Why each of them keeps the invariant.                                   *)

\* m is added for those in D.
More(r, q, D, m, last) ==
  \A e \in Controller :
    /\ Waits(q, e) = IF e \in D THEN Waits(r, e) \cup {m} ELSE Waits(r, e)
    /\ \A a, b : Ahead(r, e, a, b) /\ (e \in D /\ b = m => last /\ a \in Waits(r, e))
         => Ahead(q, e, a, b)
    /\ \A n : Single(r, e, n) /\ n # m => Single(q, e, n)

LEMMA MoreIs ==
  ASSUME NEW r, NEW q, NEW m
  PROVE  /\ \A d, last : Grown(r, q, d, m, last) => More(r, q, {d}, m, last)
         /\ Told(r, q, m) => More(r, q, Controller, m, FALSE)
BY DEF Grown, Told, More

\* What may be asked of d, but for an import; last: behind all that waits there.
Askable(r, w, pl, ex, gone, d, m, last) ==
  /\ m \in Command /\ m.op # "import"
  /\ m.op = "incarnate" =>
       m.slot = NULL /\ m.capsule \in Instance /\ Alive(r, m.capsule) /\ RunsOn(r, m.capsule) = d
  /\ m.op = "deport" =>
       /\ m.slot \in Plugin /\ m.capsule \in Capsule /\ m.waiter = NULL /\ pl[m.slot] = NULL
       /\ r.slot[m.slot].capsule = m.capsule /\ r.slot[m.slot].controller = d
       /\ m.slot \in PlugSlot => Owner[m.slot] # d
  /\ m.op = "destroy" /\ m.waiter = NULL =>
       /\ m.slot \in Part /\ r.slot[m.slot].exists /\ r.slot[m.slot].controller = d
       /\ r.home[m.slot[1]] = NULL \/ m.slot[1] = gone
       /\ m.slot \in Plugin /\ r.slot[m.slot].capsule # NULL =>
            last /\ Msg("deport", m.slot, r.slot[m.slot].capsule, NULL) \in Waits(r, d)
  /\ m.op = "destroy" /\ m.waiter # NULL =>
       LET x == r.slot[m.slot].capsule
       IN /\ m.slot \in OptSlot /\ r.slot[m.slot].controller = d /\ x # NULL
          /\ w[m.waiter] = "waiting"
          /\ \A p \in Plugin :
               /\ pl[p] # x
               /\ p \in PartsOf(x) => pl[p] = NULL
               /\ r.slot[p].capsule = x => p \in PlugSlot /\ last
                                           /\ Msg("deport", p, x, NULL) \in Waits(r, d)
          /\ \A c \in Controller : \A n \in Waits(r, c) : n.op = "destroy" => n.waiter # m.waiter
  /\ m.op = "exit" => ex /\ m.slot = NULL

\* A command is sent.
LEMMA AskedInv ==
  ASSUME NEW r, NEW q, NEW w, NEW h, NEW pl, NEW ex, NEW gone, Inv(r, w, h, pl, ex, gone),
         q \in State, SameButCommands(r, q),
         NEW D \in SUBSET Controller, NEW m \in Command, NEW last, More(r, q, D, m, last),
         \A d \in D : Askable(r, w, pl, ex, gone, d, m, last), D # {}
  PROVE  Inv(q, w, h, pl, ex, gone)
<1>1. /\ q.slot = r.slot /\ q.home = r.home /\ q.initialized = r.initialized
      /\ q.signals = r.signals /\ q.fatal = r.fatal
  BY DEF SameButCommands
<1>2. \A e \in Controller : \A n \in Waits(q, e) :
        n \in Waits(r, e) \/ (n = m /\ e \in D /\ Askable(r, w, pl, ex, gone, e, m, last))
  BY DEF More
<1>3. \A e \in Controller : Waits(r, e) \subseteq Waits(q, e)
  BY DEF More
<1>4. m.op # "import"
  BY DEF Askable
<1>0. \A c \in Controller : \A a, b : b \notin Waits(r, c) => Ahead(r, c, a, b)
  <2>1. Queues(r)
    BY StateIs DEF Inv
  <2> QED BY <2>1, AheadOfNone
<1>5. Homes(q, gone)
  BY <1>1 DEF Inv, Homes
<1>6. Occupants(q) /\ SignalsKept(q)
  BY <1>1 DEF Inv, Occupants, SignalsKept
<1>7. Begun(q)
  BY <1>1 DEF Inv, Begun, Alive
<1>8. Incarnates(q)
  <2>1. \A i : (Alive(q, i) <=> Alive(r, i)) /\ RunsOn(q, i) = RunsOn(r, i)
    BY <1>1 DEF Alive, RunsOn
  <2>2. Incarnates(r)
    BY DEF Inv
  <2> QED BY <1>2, <2>1, <2>2 DEF Incarnates, Askable
<1>9. Imports(q, w, h, pl)
  <2>1. Imports(r, w, h, pl)
    BY DEF Inv
  <2>2. \A c, n : Importable(q, pl, c, n) <=> Importable(r, pl, c, n)
    BY <1>1 DEF Importable
  <2>3. \A e \in Controller : \A n : n.op = "import" =>
          (n \in Waits(q, e) <=> n \in Waits(r, e)) /\ (Single(r, e, n) => Single(q, e, n))
    BY <1>2, <1>3, <1>4 DEF More
  <2> HIDE DEF Importable
  <2> QED BY <2>1, <2>2, <2>3 DEF Imports
<1>10. Deports(q, pl)
  <2>1. Deports(r, pl)
    BY DEF Inv
  <2> QED BY <1>1, <1>2, <2>1 DEF Deports, Askable
<1>11. PartDestroys(q, gone)
  <2>1. PartDestroys(r, gone)
    BY DEF Inv
  <2> SUFFICES ASSUME NEW c \in Controller, NEW n \in Waits(q, c), n.op = "destroy", n.waiter = NULL
               PROVE  /\ n.slot \in Part /\ q.slot[n.slot].exists /\ q.slot[n.slot].controller = c
                      /\ q.home[n.slot[1]] = NULL \/ n.slot[1] = gone
                      /\ n.slot \in Plugin /\ q.slot[n.slot].capsule # NULL =>
                           Ahead(q, c, Msg("deport", n.slot, q.slot[n.slot].capsule, NULL), n)
    BY DEF PartDestroys
  <2> DEFINE a == Msg("deport", n.slot, r.slot[n.slot].capsule, NULL)
  <2>2. CASE n = m /\ c \in D
    <3>1. Askable(r, w, pl, ex, gone, c, n, last)
      BY <2>2
    <3>2. n.slot \in Plugin /\ r.slot[n.slot].capsule # NULL => last /\ a \in Waits(r, c)
      BY <3>1 DEF Askable
    <3>3. n.slot \in Plugin /\ r.slot[n.slot].capsule # NULL => Ahead(r, c, a, n)
      <4>1. CASE n \in Waits(r, c)
        BY <2>1, <4>1 DEF PartDestroys
      <4>2. CASE n \notin Waits(r, c)
        BY <4>2, <1>0
      <4> QED BY <4>1, <4>2
    <3> HIDE DEF a
    <3>4. n.slot \in Plugin /\ r.slot[n.slot].capsule # NULL => Ahead(q, c, a, n)
      BY <3>2, <3>3 DEF More
    <3> QED BY <1>1, <3>1, <3>4 DEF Askable, a
  <2>3. CASE n \in Waits(r, c) /\ ~ (n = m /\ c \in D)
    <3>1. /\ n.slot \in Part /\ r.slot[n.slot].exists /\ r.slot[n.slot].controller = c
          /\ r.home[n.slot[1]] = NULL \/ n.slot[1] = gone
          /\ n.slot \in Plugin /\ r.slot[n.slot].capsule # NULL => Ahead(r, c, a, n)
      BY <2>1, <2>3 DEF PartDestroys
    <3> HIDE DEF a
    <3>2. n.slot \in Plugin /\ r.slot[n.slot].capsule # NULL => Ahead(q, c, a, n)
      BY <2>3, <3>1 DEF More
    <3> QED BY <1>1, <3>1, <3>2 DEF a
  <2> QED BY <1>2, <2>2, <2>3
<1>12. TopDestroys(q, w, pl)
  <2>1. TopDestroys(r, w, pl)
    BY DEF Inv
  <2> SUFFICES ASSUME NEW c \in Controller, NEW n \in Waits(q, c), n.op = "destroy", n.waiter # NULL
               PROVE  /\ n.slot \in OptSlot /\ q.slot[n.slot].controller = c
                      /\ q.slot[n.slot].capsule # NULL
                      /\ w[n.waiter] = "waiting"
                      /\ Leaves(q, pl, c, q.slot[n.slot].capsule, n)
    BY DEF TopDestroys
  <2> DEFINE x == r.slot[n.slot].capsule
  <2>2. CASE n = m /\ c \in D
    <3>1. Askable(r, w, pl, ex, gone, c, n, last)
      BY <2>2
    <3>2. /\ n.slot \in OptSlot /\ r.slot[n.slot].controller = c /\ x # NULL /\ w[n.waiter] = "waiting"
          /\ n \notin Waits(r, c)
      BY <3>1 DEF Askable
    <3>3. ASSUME NEW p \in Plugin
          PROVE  /\ pl[p] # x /\ (p \in PartsOf(x) => pl[p] = NULL)
                 /\ q.slot[p].capsule = x => p \in PlugSlot /\ Ahead(q, c, Msg("deport", p, x, NULL), n)
      <4>1. /\ pl[p] # x /\ (p \in PartsOf(x) => pl[p] = NULL)
            /\ q.slot[p].capsule = x => p \in PlugSlot /\ last /\ Msg("deport", p, x, NULL) \in Waits(r, c)
        BY <1>1, <3>1 DEF Askable
      <4>2. Ahead(r, c, Msg("deport", p, x, NULL), n)
        BY <3>2, <1>0
      <4> QED BY <4>1, <4>2 DEF More
    <3> QED BY <1>1, <3>2, <3>3 DEF Leaves
  <2>3. CASE n \in Waits(r, c) /\ ~ (n = m /\ c \in D)
    <3>1. /\ n.slot \in OptSlot /\ r.slot[n.slot].controller = c /\ x # NULL /\ w[n.waiter] = "waiting"
          /\ Leaves(r, pl, c, x, n)
      BY <2>1, <2>3 DEF TopDestroys
    <3>2. \A a : Ahead(r, c, a, n) => Ahead(q, c, a, n)
      BY <2>3 DEF More
    <3> QED BY <1>1, <3>1, <3>2 DEF Leaves
  <2> QED BY <1>2, <2>2, <2>3
<1>13. Waiters(q)
  <2>1. Waiters(r)
    BY DEF Inv
  <2>2. m.op = "destroy" /\ m.waiter # NULL =>
          \A c \in Controller : \A n \in Waits(r, c) : n.op = "destroy" => n.waiter # m.waiter
    BY DEF Askable
  <2> QED BY <1>2, <2>1, <2>2 DEF Waiters
<1>14. Plans(q, w, h, pl, gone)
  <2>1. Plans(r, w, h, pl, gone)
    BY DEF Inv
  <2> QED BY <1>1, <1>3, <2>1 DEF Plans
<1>15. Undone(q, w, h, pl)
  <2>1. \A p \in PlugSlot : r.slot[p].capsule # NULL => r.slot[p].controller \in Controller
    BY Names DEF Inv, Homes
  <2>2. Undone(r, w, h, pl)
    BY DEF Inv
  <2> QED BY <1>1, <1>3, <2>1, <2>2 DEF Undone
<1>16. Exits(q, ex)
  <2>1. Exits(r, ex)
    BY DEF Inv
  <2> QED BY <1>1, <1>2, <2>1 DEF Exits, Askable
<1>17. Threads(w, h, pl) /\ Hands(q, w, h, pl)
  BY <1>1 DEF Inv, Hands
<1> QED BY <1>5, <1>6, <1>7, <1>8, <1>9, <1>10, <1>11, <1>12, <1>13, <1>14, <1>15, <1>16, <1>17 DEF Inv

\* An import is asked of d, and the slot has been given its controller.
LEMMA ImportAskedInv ==
  ASSUME NEW r, NEW v, NEW q, NEW w, NEW h, NEW pl, NEW ex, Inv(r, w, h, pl, ex, NULL),
         NEW c \in Controller, NEW d \in Controller, NEW p \in Plugin, NEW y \in Capsule,
         Turned(r, v, p, [r.slot[p] EXCEPT !.controller = d]),
         q \in State, SameButCommands(v, q),
         NEW m, m = Msg("import", p, y, NULL), NEW last, Grown(v, q, d, m, last),
         w[c] = "loop", p \in PlugSlot => Owner[p] = c,
         p \in Part => r.home[p[1]] # NULL /\ r.slot[r.home[p[1]]].controller = c,
         pl[p] = NULL, r.slot[p].exists, r.slot[p].capsule = NULL,
         r.home[y] # NULL, r.slot[r.home[y]].controller = d,
         \A e \in Controller : \A n \in Waits(r, e) : n.op = "destroy" =>
           n.slot # r.home[y] /\ (p \in Part => n.slot # r.home[p[1]]),
         NEW pl2, pl2 = [pl EXCEPT ![p] = y]
  PROVE  Inv(q, w, h, pl2, ex, NULL)
<1>1. r \in State /\ v \in State
  BY DEF Inv, Turned
<1>2. /\ p \in Slot /\ p \notin OptSlot /\ p # NULL /\ y \in Instance /\ y # NULL
      /\ \A i \in Instance : i \notin Capsule => i # p
      /\ m \in Command /\ m.op = "import" /\ m.slot = p /\ m.capsule = y /\ m.waiter = NULL
  <2>1. p \in Slot /\ p \notin OptSlot /\ p # NULL /\ y \in Instance /\ y # NULL
    BY Names
  <2>2. \A i \in Instance : i \notin Capsule => i # p
    BY Names
  <2>3. m \in Command
    BY <2>1, Commands
  <2>4. m.op = "import" /\ m.slot = p /\ m.capsule = y /\ m.waiter = NULL
    BY DEF Msg
  <2> QED BY <2>1, <2>2, <2>3, <2>4
<1>3. /\ \A t \in Slot : /\ q.slot[t].exists = r.slot[t].exists
                         /\ q.slot[t].capsule = r.slot[t].capsule
                         /\ q.slot[t].mapped = r.slot[t].mapped
                         /\ q.slot[t].controller = IF t = p THEN d ELSE r.slot[t].controller
      /\ q.home = r.home /\ q.initialized = r.initialized
      /\ q.signals = r.signals /\ q.fatal = r.fatal
  <2>1. r.slot[p] \in SlotState
    BY <1>1, <1>2 DEF State
  <2>2. /\ q.slot[p] = [r.slot[p] EXCEPT !.controller = d]
        /\ \A t \in Slot : t # p => q.slot[t] = r.slot[t]
        /\ q.home = r.home /\ q.initialized = r.initialized
        /\ q.signals = r.signals /\ q.fatal = r.fatal
    BY DEF Turned, SameButSlots, SameButCommands
  <2> QED BY <2>1, <2>2 DEF SlotState
<1>4. \A e : Line(v, e) = Line(r, e)
  BY DEF Turned, SameButSlots, Line
<1>5. \A e \in Controller :
        /\ Waits(q, e) = IF e = d THEN Waits(r, e) \cup {m} ELSE Waits(r, e)
        /\ \A a, b : Ahead(r, e, a, b) /\ b.op = "destroy" => Ahead(q, e, a, b)
        /\ \A n : Single(r, e, n) /\ (e = d /\ n = m => m \notin Waits(r, e)) => Single(q, e, n)
  BY <1>2, <1>4 DEF Grown, Waits, Ahead, Single
<1>6. \A x \in Capsule : /\ r.home[x] \in OptSlot \cup {NULL}
                         /\ r.home[x] # NULL => r.home[x] # p /\ r.home[x] \in Slot
  BY <1>1, <1>2, StateIs, Names
<1>7. \A i \in Instance : (Alive(q, i) <=> Alive(r, i)) /\ (Alive(r, i) => RunsOn(q, i) = RunsOn(r, i))
  BY <1>2, <1>3, <1>6, Names DEF Alive, RunsOn
<1>8. pl2[p] = y /\ \A t \in Plugin : t # p => pl2[t] = pl[t]
  BY DEF Inv, Threads
<1>9. \A e \in Controller : \A n \in Waits(r, e) : n.op = "import" => n.slot # p
  BY <1>2, Names DEF Inv, Imports, Importable
<1>10. \A e \in Controller : w[e] = "import" => h[e].slot # p
  BY <1>2, Names DEF Inv, Imports, Importable
<1>11. Homes(q, NULL)
  <2>1. Homes(r, NULL)
    BY DEF Inv
  <2> QED BY <1>2, <1>3, <1>6, <2>1, Names DEF Homes
<1>12. Occupants(q)
  <2>1. Occupants(r)
    BY DEF Inv
  <2> QED BY <1>2, <1>3, <1>6, <2>1, Names DEF Occupants
<1>13. Begun(q)
  <2>1. Begun(r) /\ r.initialized \subseteq Instance
    BY <1>1, StateIs DEF Inv
  <2> QED BY <1>3, <1>7, <2>1 DEF Begun
<1>14. SignalsKept(q)
  <2>1. SignalsKept(r) /\ \A e \in Controller : \A g \in r.signals[e] : g[1] \in Slot /\ g[2] # NULL
    BY <1>1, StateIs, Names DEF Inv
  <2> QED BY <1>3, <2>1 DEF SignalsKept
<1>15. Incarnates(q)
  <2>1. Incarnates(r)
    BY DEF Inv
  <2>2. \A e \in Controller : \A n \in Waits(q, e) : n.op = "incarnate" => n \in Waits(r, e)
    BY <1>2, <1>5
  <2> QED BY <1>7, <2>1, <2>2 DEF Incarnates
<1>16. Imports(q, w, h, pl2)
  <2>1. Imports(r, w, h, pl)
    BY DEF Inv
  <2>2. \A e, n : Importable(r, pl, e, n) /\ n.slot # p => Importable(q, pl2, e, n)
    BY <1>3, <1>6, <1>8, Names DEF Importable
  <2>3. Importable(q, pl2, d, m)
    BY <1>2, <1>3, <1>6, <1>8 DEF Importable
  <2>4. \A e \in Controller : m \notin Waits(r, e)
    BY <1>2, <1>9
  <2>5. Single(r, d, m)
    BY <1>1, <2>4, StateIs, SingleOfNone
  <2>6. \A e \in Controller : \A n \in Waits(q, e) : n.op = "import" =>
          Importable(q, pl2, e, n) /\ Single(q, e, n)
    <3> SUFFICES ASSUME NEW e \in Controller, NEW n \in Waits(q, e), n.op = "import"
                 PROVE  Importable(q, pl2, e, n) /\ Single(q, e, n)
      OBVIOUS
    <3>1. CASE n \in Waits(r, e)
      BY <1>5, <1>9, <2>1, <2>2, <2>4, <3>1 DEF Imports
    <3>2. CASE e = d /\ n = m
      BY <1>5, <2>3, <2>4, <2>5, <3>2
    <3> QED BY <1>5, <3>1, <3>2
  <2>7. \A e \in Controller : w[e] = "import" =>
          h[e] \in Command /\ h[e].op = "import" /\ Importable(q, pl2, e, h[e]) /\ h[e] \notin Waits(q, e)
    <3> SUFFICES ASSUME NEW e \in Controller, w[e] = "import", NEW n, n = h[e]
                 PROVE  n \in Command /\ n.op = "import" /\ Importable(q, pl2, e, n) /\ n \notin Waits(q, e)
      OBVIOUS
    <3>1. n \in Command /\ n.op = "import" /\ Importable(r, pl, e, n) /\ n \notin Waits(r, e)
      BY <2>1 DEF Imports
    <3>2. n.slot # p
      BY <1>10
    <3>3. n \notin Waits(q, e)
      BY <1>2, <1>5, <3>1, <3>2
    <3>4. Importable(q, pl2, e, n)
      BY <2>2, <3>1, <3>2
    <3> QED BY <3>1, <3>3, <3>4
  <2> QED BY <2>6, <2>7 DEF Imports
<1>17. Deports(q, pl2)
  <2>1. Deports(r, pl)
    BY DEF Inv
  <2>2. \A e \in Controller : \A n \in Waits(q, e) : n.op = "deport" => n \in Waits(r, e)
    BY <1>2, <1>5
  <2>3. \A e \in Controller : \A n \in Waits(q, e) : n.op = "deport" => n.slot # p /\ n.slot \in Slot
    BY <2>1, <2>2, Names DEF Deports
  <2> QED BY <1>3, <1>8, <2>1, <2>2, <2>3 DEF Deports
<1>18. PartDestroys(q, NULL)
  <2>1. PartDestroys(r, NULL)
    BY DEF Inv
  <2>2. \A e \in Controller : \A n \in Waits(q, e) : n.op = "destroy" => n \in Waits(r, e)
    BY <1>2, <1>5
  <2>3. \A e \in Controller : \A n \in Waits(q, e) : n.op = "destroy" /\ n.waiter = NULL =>
          n.slot \in Slot /\ n.slot # p
    BY <2>1, <2>2, Names DEF PartDestroys
  <2> QED BY <1>3, <1>5, <2>1, <2>2, <2>3 DEF PartDestroys
<1>19. TopDestroys(q, w, pl2)
  <2>1. TopDestroys(r, w, pl)
    BY DEF Inv
  <2> SUFFICES ASSUME NEW e \in Controller, NEW n \in Waits(q, e), n.op = "destroy", n.waiter # NULL
               PROVE  /\ n.slot \in OptSlot /\ q.slot[n.slot].controller = e
                      /\ q.slot[n.slot].capsule # NULL
                      /\ w[n.waiter] = "waiting"
                      /\ Leaves(q, pl2, e, q.slot[n.slot].capsule, n)
    BY DEF TopDestroys
  <2> DEFINE x == r.slot[n.slot].capsule
  <2>2. n \in Waits(r, e)
    BY <1>2, <1>5
  <2>3. /\ n.slot \in OptSlot /\ r.slot[n.slot].controller = e /\ x # NULL /\ w[n.waiter] = "waiting"
        /\ Leaves(r, pl, e, x, n)
    BY <2>1, <2>2 DEF TopDestroys
  <2>4. n.slot \in Slot /\ n.slot # p /\ x \in Capsule /\ r.home[x] = n.slot
    BY <1>2, <2>3, Names DEF Inv, Homes
  <2>5. y # x /\ p \notin PartsOf(x)
    BY <2>2, <2>4, Names
  <2>6. \A a : Ahead(r, e, a, n) => Ahead(q, e, a, n)
    BY <1>5
  <2>7. \A t \in Plugin : t \in Slot
    BY Names
  <2> HIDE DEF x
  <2>8. Leaves(q, pl2, e, x, n)
    BY <1>3, <1>8, <2>3, <2>5, <2>6, <2>7 DEF Leaves
  <2> QED BY <1>3, <2>3, <2>4, <2>8 DEF x
<1>20. Waiters(q)
  <2>1. Waiters(r)
    BY DEF Inv
  <2>2. \A e \in Controller : \A n \in Waits(q, e) : n.op = "destroy" => n \in Waits(r, e)
    BY <1>2, <1>5
  <2> QED BY <2>1, <2>2 DEF Waiters
<1>21. Plans(q, w, h, pl2, NULL)
  <2>1. Plans(r, w, h, pl, NULL)
    BY DEF Inv
  <2>2. \A e \in Controller : Waits(r, e) \subseteq Waits(q, e)
    BY <1>5
  <2>3. m \in Waits(q, d)
    BY <1>5
  <2>4. p \in Part => p[1] # NULL
    BY Names
  <2>5. \A t \in Plugin : t \in Slot
    BY Names
  <2> QED BY <1>2, <1>3, <1>8, <2>1, <2>2, <2>3, <2>4, <2>5 DEF Plans
<1>22. Undone(q, w, h, pl2)
  <2>1. \A t \in PlugSlot : r.slot[t].controller \in Controller /\ t \in Slot /\ t \in Plugin
    BY Names DEF Inv, Homes
  <2>2. Undone(r, w, h, pl)
    BY DEF Inv
  <2>3. \A e \in Controller : Waits(r, e) \subseteq Waits(q, e)
    BY <1>5
  <2> QED BY <1>3, <1>8, <2>1, <2>2, <2>3 DEF Undone
<1>23. Hands(q, w, h, pl2)
  <2>1. Hands(r, w, h, pl)
    BY DEF Inv
  <2>2. \A e \in Controller : w[e] = "deport" => h[e].slot # p
    BY <2>1, Names DEF Hands
  <2>3. \A t \in Part : r.home[t[1]] # NULL => r.home[t[1]] # p /\ r.home[t[1]] \in Slot
    BY <1>6, Names
  <2> QED BY <1>3, <1>8, <2>1, <2>2, <2>3 DEF Hands
<1>24. Exits(q, ex)
  <2>1. Exits(r, ex)
    BY DEF Inv
  <2> QED BY <1>2, <1>3, <1>5, <2>1 DEF Exits
<1>25. Threads(w, h, pl2)
  BY <1>2 DEF Inv, Threads
<1> QED BY <1>11, <1>12, <1>13, <1>14, <1>15, <1>16, <1>17, <1>18, <1>19, <1>20, <1>21, <1>22,
           <1>23, <1>24, <1>25 DEF Inv

\* The thread that had the import into p in its hand, if any, has done it.
Handed(w, h, w2, h2, p) ==
  \A e \in Controller :
    /\ \/ w2[e] = w[e] /\ h2[e] = h[e]
       \/ w[e] = "import" /\ h[e].slot = p /\ w2[e] = "loop"
    /\ w2[e] \in {"import", "deport"} => h2[e].slot # p

\* No other import into p waits, nor a destroy of the capsules concerned.
Alone(r, p, y) ==
  \A e \in Controller : \A n \in Waits(r, e) :
    /\ n.op = "destroy" => n.slot # r.home[y] /\ (p \in Part => n.slot # r.home[p[1]])
    /\ n.op = "import" => n.slot # p

\* A capsule is bound to a slot; the thread that had the command in its hand has done it.
LEMMA BindInv ==
  ASSUME NEW r, NEW q, NEW w, NEW h, NEW pl, NEW ex, Inv(r, w, h, pl, ex, NULL),
         NEW c \in Controller, NEW p \in Plugin, NEW y \in Capsule,
         Turned(r, q, p, [r.slot[p] EXCEPT !.capsule = y,
                                           !.controller = r.slot[r.home[y]].controller,
                                           !.mapped = TRUE]),
         p \in Part => r.home[p[1]] # NULL,
         r.slot[p].exists, r.slot[p].capsule = NULL,
         r.home[y] # NULL, r.slot[r.home[y]].controller = c,
         Alone(r, p, y),
         NEW w2, NEW h2, NEW pl2, pl2 = [pl EXCEPT ![p] = y], Threads(w2, h2, pl2),
         Handed(w, h, w2, h2, p)
  PROVE  Inv(q, w2, h2, pl2, ex, NULL)
<1>1. r \in State /\ q \in State
  BY DEF Inv, Turned
<1>2. /\ p \in Slot /\ p \notin OptSlot /\ p # NULL /\ y \in Instance /\ y # NULL
      /\ \A i \in Instance : i \notin Capsule => i # p
  BY Names
<1>3. /\ \A t \in Slot : t # p => q.slot[t] = r.slot[t]
      /\ q.slot[p].exists /\ q.slot[p].capsule = y /\ q.slot[p].mapped /\ q.slot[p].controller = c
      /\ q.home = r.home /\ q.initialized = r.initialized
      /\ q.signals = r.signals /\ q.fatal = r.fatal
  <2>1. r.slot[p] \in SlotState
    BY <1>1, <1>2 DEF State
  <2>2. /\ q.slot[p] = [r.slot[p] EXCEPT !.capsule = y, !.controller = c, !.mapped = TRUE]
        /\ \A t \in Slot : t # p => q.slot[t] = r.slot[t]
        /\ q.home = r.home /\ q.initialized = r.initialized
        /\ q.signals = r.signals /\ q.fatal = r.fatal
    BY DEF Turned, SameButSlots
  <2> QED BY <2>1, <2>2 DEF SlotState
<1>4. \A e : Line(q, e) = Line(r, e)
  BY DEF Turned, SameButSlots, Line
<1>5. \A e \in Controller :
        /\ Waits(q, e) = Waits(r, e)
        /\ \A a, b : Ahead(q, e, a, b) <=> Ahead(r, e, a, b)
        /\ \A n : Single(q, e, n) <=> Single(r, e, n)
  BY <1>4 DEF Waits, Ahead, Single
<1>6. \A x \in Capsule : /\ r.home[x] \in OptSlot \cup {NULL}
                         /\ r.home[x] # NULL => r.home[x] # p /\ r.home[x] \in Slot
  BY <1>1, <1>2, StateIs, Names
<1>7. \A i \in Instance : (Alive(q, i) <=> Alive(r, i)) /\ (Alive(r, i) => RunsOn(q, i) = RunsOn(r, i))
  BY <1>2, <1>3, <1>6, Names DEF Alive, RunsOn
<1>8. pl2[p] = y /\ \A t \in Plugin : t # p => pl2[t] = pl[t]
  BY DEF Inv, Threads
<1>9. \A t \in Plugin : t \in Slot
  BY Names
<1>10. Homes(q, NULL)
  <2>1. Homes(r, NULL)
    BY DEF Inv
  <2> QED BY <1>2, <1>3, <1>6, <2>1, Names DEF Homes
<1>11. Occupants(q)
  <2>1. Occupants(r)
    BY DEF Inv
  <2>2. ASSUME NEW t \in Plugin
        PROVE  /\ q.slot[t].mapped <=> q.slot[t].capsule # NULL
               /\ q.slot[t].capsule # NULL =>
                    /\ q.slot[t].exists /\ q.slot[t].capsule \in Capsule
                    /\ q.home[q.slot[t].capsule] # NULL
                    /\ q.slot[t].controller = q.slot[q.home[q.slot[t].capsule]].controller
    <3>1. CASE t = p
      BY <1>2, <1>3, <1>6, <3>1
    <3>2. CASE t # p
      BY <1>3, <1>6, <1>9, <2>1, <3>2 DEF Occupants
    <3> QED BY <3>1, <3>2
  <2> QED BY <2>2 DEF Occupants
<1>12. Begun(q)
  <2>1. Begun(r) /\ r.initialized \subseteq Instance
    BY <1>1, StateIs DEF Inv
  <2> QED BY <1>3, <1>7, <2>1 DEF Begun
<1>13. SignalsKept(q)
  <2>1. SignalsKept(r) /\ \A e \in Controller : \A g \in r.signals[e] : g[1] \in Slot /\ g[2] # NULL
    BY <1>1, StateIs, Names DEF Inv
  <2> QED BY <1>3, <2>1 DEF SignalsKept
<1>14. Incarnates(q)
  <2>1. Incarnates(r)
    BY DEF Inv
  <2> QED BY <1>5, <1>7, <2>1 DEF Incarnates
<1>15. Imports(q, w2, h2, pl2)
  <2>1. Imports(r, w, h, pl)
    BY DEF Inv
  <2>2. \A e, n : Importable(r, pl, e, n) /\ n.slot # p => Importable(q, pl2, e, n)
    BY <1>3, <1>6, <1>8, <1>9 DEF Importable
  <2>3. \A e \in Controller : \A n \in Waits(q, e) : n.op = "import" =>
          Importable(q, pl2, e, n) /\ Single(q, e, n)
    BY <1>5, <2>1, <2>2 DEF Imports, Alone
  <2>4. \A e \in Controller : w2[e] = "import" =>
          h2[e] \in Command /\ h2[e].op = "import" /\ Importable(q, pl2, e, h2[e])
          /\ h2[e] \notin Waits(q, e)
    <3> SUFFICES ASSUME NEW e \in Controller, w2[e] = "import", NEW n, n = h2[e]
                 PROVE  n \in Command /\ n.op = "import" /\ Importable(q, pl2, e, n) /\ n \notin Waits(q, e)
      OBVIOUS
    <3>1. w[e] = "import" /\ n = h[e] /\ n.slot # p
      BY DEF Handed
    <3>2. n \in Command /\ n.op = "import" /\ Importable(r, pl, e, n) /\ n \notin Waits(r, e)
      BY <2>1, <3>1 DEF Imports
    <3>3. Importable(q, pl2, e, n)
      BY <2>2, <3>1, <3>2
    <3> QED BY <1>5, <3>2, <3>3
  <2> QED BY <2>3, <2>4 DEF Imports
<1>16. Deports(q, pl2)
  <2>1. Deports(r, pl)
    BY DEF Inv
  <2>2. \A e \in Controller : \A n \in Waits(r, e) : n.op = "deport" => n.slot # p /\ n.slot \in Slot
    BY <2>1, Names DEF Deports
  <2> QED BY <1>3, <1>5, <1>8, <2>1, <2>2 DEF Deports
<1>17. PartDestroys(q, NULL)
  <2>1. PartDestroys(r, NULL)
    BY DEF Inv
  <2>2. \A e \in Controller : \A n \in Waits(r, e) : n.op = "destroy" /\ n.waiter = NULL =>
          n.slot \in Slot /\ n.slot # p
    BY <2>1, Names DEF PartDestroys
  <2> QED BY <1>3, <1>5, <2>1, <2>2 DEF PartDestroys
<1>18. TopDestroys(q, w2, pl2)
  <2>1. TopDestroys(r, w, pl)
    BY DEF Inv
  <2> SUFFICES ASSUME NEW e \in Controller, NEW n \in Waits(q, e), n.op = "destroy", n.waiter # NULL
               PROVE  /\ n.slot \in OptSlot /\ q.slot[n.slot].controller = e
                      /\ q.slot[n.slot].capsule # NULL
                      /\ w2[n.waiter] = "waiting"
                      /\ Leaves(q, pl2, e, q.slot[n.slot].capsule, n)
    BY DEF TopDestroys
  <2> DEFINE x == r.slot[n.slot].capsule
  <2>0. n \in Waits(r, e) /\ n \in Command
    BY <1>1, <1>5, StateIs
  <2>2. /\ n.slot \in OptSlot /\ r.slot[n.slot].controller = e /\ x # NULL /\ w[n.waiter] = "waiting"
        /\ Leaves(r, pl, e, x, n)
    BY <2>1, <2>0 DEF TopDestroys
  <2>3. n.slot \in Slot /\ n.slot # p /\ x \in Capsule /\ r.home[x] = n.slot
    BY <1>2, <2>2, Names DEF Inv, Homes
  <2>4. y # x /\ p \notin PartsOf(x)
    BY <2>3, <2>0, Names DEF Alone
  <2>5. w2[n.waiter] = "waiting"
    BY <2>0, <2>2, Commands DEF Handed
  <2> HIDE DEF x
  <2>6. Leaves(q, pl2, e, x, n)
    BY <1>3, <1>5, <1>8, <1>9, <2>2, <2>4 DEF Leaves
  <2> QED BY <1>3, <2>2, <2>3, <2>5, <2>6 DEF x
<1>19. Waiters(q)
  BY <1>5 DEF Inv, Waiters
<1>20. Plans(q, w2, h2, pl2, NULL)
  <2>1. Plans(r, w, h, pl, NULL)
    BY DEF Inv
  <2>2. p \in Part => p[1] # NULL
    BY Names
  <2> SUFFICES ASSUME NEW t \in Plugin, pl2[t] # NULL
               PROVE  /\ t \in Part => q.home[t[1]] # NULL /\ t[1] # NULL
                      /\ \/ q.slot[t].capsule = pl2[t]
                         \/ \E e \in Controller : LET m == Msg("import", t, pl2[t], NULL)
                                 IN m \in Waits(q, e) \/ (w2[e] = "import" /\ h2[e] = m)
    BY DEF Plans
  <2>3. CASE t = p
    BY <1>3, <1>8, <2>2, <2>3
  <2>4. CASE t # p
    <3> DEFINE m == Msg("import", t, pl[t], NULL)
    <3>1. /\ t \in Part => r.home[t[1]] # NULL /\ t[1] # NULL
          /\ \/ r.slot[t].capsule = pl[t]
             \/ \E e \in Controller : m \in Waits(r, e) \/ (w[e] = "import" /\ h[e] = m)
      BY <1>8, <2>1, <2>4 DEF Plans
    <3>2. m.slot = t
      BY DEF Msg
    <3> HIDE DEF m
    <3>3. \A e \in Controller : w[e] = "import" /\ h[e] = m => w2[e] = "import" /\ h2[e] = m
      BY <2>4, <3>2 DEF Handed
    <3>4. \/ q.slot[t].capsule = pl2[t]
          \/ \E e \in Controller : m \in Waits(q, e) \/ (w2[e] = "import" /\ h2[e] = m)
      BY <1>3, <1>5, <1>8, <1>9, <2>4, <3>1, <3>3
    <3> QED BY <1>3, <1>8, <2>4, <3>1, <3>4 DEF m
  <2> QED BY <2>3, <2>4
<1>21. Undone(q, w2, h2, pl2)
  <2>1. \A t \in PlugSlot : /\ r.slot[t].controller \in Controller /\ Owner[t] \in Controller
                            /\ t \in Slot /\ t \in Plugin
    BY Names DEF Inv, Homes
  <2>2. Undone(r, w, h, pl)
    BY DEF Inv
  <2>3. \A e \in Controller : w[e] = "deport" => w2[e] = "deport" /\ h2[e] = h[e]
    BY DEF Handed
  <2> QED BY <1>2, <1>3, <1>5, <1>8, <2>1, <2>2, <2>3 DEF Undone
<1>22. Hands(q, w2, h2, pl2)
  <2>1. Hands(r, w, h, pl)
    BY DEF Inv
  <2>2. \A e \in Controller : w2[e] = "deport" => w[e] = "deport" /\ h2[e] = h[e] /\ h[e].slot # p
    BY DEF Handed
  <2>3. \A t \in Part : r.home[t[1]] # NULL => r.home[t[1]] # p /\ r.home[t[1]] \in Slot
    BY <1>6, Names
  <2> QED BY <1>3, <1>8, <2>1, <2>2, <2>3 DEF Hands
<1>23. Exits(q, ex)
  BY <1>3, <1>5 DEF Inv, Exits
<1> QED BY <1>1, <1>10, <1>11, <1>12, <1>13, <1>14, <1>15, <1>16, <1>17, <1>18, <1>19, <1>20, <1>21,
           <1>22, <1>23 DEF Inv

\* A plugin slot is emptied.
LEMMA DeportInv ==
  ASSUME NEW r, NEW q, NEW w, NEW h, NEW pl, NEW ex, NEW gone, Inv(r, w, h, pl, ex, gone),
         NEW p \in Plugin, pl[p] = NULL, r.slot[p].capsule # NULL,
         Emptied(r, q, p)
  PROVE  Inv(q, w, h, pl, ex, gone)
<1> DEFINE d == r.slot[p].controller
           i == r.slot[p].capsule
<1>1. r \in State /\ q \in State
  BY DEF Inv, Emptied
<1>2. /\ p \in Slot /\ p \notin OptSlot /\ p # NULL
      /\ \A k \in Instance : k \notin Capsule => k # p
      /\ \A t \in Plugin : t \in Slot
  BY Names
<1>3. /\ \A t \in Slot : t # p => q.slot[t] = r.slot[t]
      /\ q.slot[p].exists = r.slot[p].exists /\ q.slot[p].capsule = NULL
      /\ q.slot[p].mapped = FALSE /\ q.slot[p].controller = r.slot[p].controller
      /\ \A e \in Controller : q.signals[e] = {g \in r.signals[e] : e = d => g[1] # p}
      /\ q.fatal => r.fatal \/ \E m \in Waits(r, d) : m.op = "exit"
      /\ q.home = r.home /\ q.initialized = r.initialized
  <2>1. r.slot[p] \in SlotState
    BY <1>1, <1>2 DEF State
  <2> QED BY <2>1 DEF SlotState, Cleared, Emptied
<1>4. /\ d \in Controller /\ i \in Capsule /\ r.slot[p].exists
  BY <1>2 DEF Inv, Occupants, Homes
<1>5. \A m : m.slot # p /\ m.op # "incarnate" => ~ Matches(m, p, i, FALSE)
  BY DEF Matches
<1>6. \A m : Matches(m, p, i, FALSE) => m.slot = p /\ m.op \in {"import", "deport"}
  BY DEF Matches
<1>7. Purged(r, q, d, p, i, FALSE)
  BY DEF Cleared, Emptied
<1>8. \A e \in Controller :
        /\ Waits(q, e) \subseteq Waits(r, e)
        /\ \A n \in Waits(r, e) : n \in Waits(q, e) \/ n.slot = p
        /\ \A n \in Waits(q, e) : e = d => ~ Matches(n, p, i, FALSE)
        /\ \A a, b : Ahead(r, e, a, b) /\ a.slot # p => Ahead(q, e, a, b)
        /\ \A n : Single(r, e, n) => Single(q, e, n)
  BY <1>6, <1>7 DEF Purged
<1>9. \A x \in Capsule : /\ r.home[x] \in OptSlot \cup {NULL}
                         /\ r.home[x] # NULL => r.home[x] # p /\ r.home[x] \in Slot
  BY <1>1, <1>2, StateIs, Names
<1>30. q.initialized = r.initialized
  BY <1>3
<1>10. \A k \in Instance : (Alive(q, k) <=> Alive(r, k)) /\ (Alive(r, k) => RunsOn(q, k) = RunsOn(r, k))
  BY <1>2, <1>3, <1>9, Names DEF Alive, RunsOn
<1>26. /\ \A t \in Slot : /\ q.slot[t].exists = r.slot[t].exists
                          /\ q.slot[t].controller = r.slot[t].controller
                          /\ t # p => q.slot[t].capsule = r.slot[t].capsule
       /\ q.home = r.home
  BY <1>3
<1>27. \A e \in Controller : Waits(q, e) \subseteq Waits(r, e)
  BY <1>8
<1>28. \A e \in Controller : \A n \in Waits(r, e) : n.slot # p => n \in Waits(q, e)
  BY <1>8
<1>29. \A e \in Controller : \A a, b : Ahead(r, e, a, b) /\ a.slot # p => Ahead(q, e, a, b)
  BY <1>8
<1> HIDE DEF d, i
<1>11. Homes(q, gone)
  <2>1. Homes(r, gone)
    BY DEF Inv
  <2> QED BY <1>2, <1>9, <1>26, <2>1, Names DEF Homes
<1>12. Occupants(q)
  <2>1. Occupants(r)
    BY DEF Inv
  <2>2. ASSUME NEW t \in Plugin
        PROVE  /\ q.slot[t].mapped <=> q.slot[t].capsule # NULL
               /\ q.slot[t].capsule # NULL =>
                    /\ q.slot[t].exists /\ q.slot[t].capsule \in Capsule
                    /\ q.home[q.slot[t].capsule] # NULL
                    /\ q.slot[t].controller = q.slot[q.home[q.slot[t].capsule]].controller
    <3>1. CASE t = p
      BY <1>3, <3>1
    <3>2. CASE t # p
      BY <1>2, <1>3, <1>9, <2>1, <3>2 DEF Occupants
    <3> QED BY <3>1, <3>2
  <2> QED BY <2>2 DEF Occupants
<1>13. Begun(q)
  <2>1. Begun(r) /\ r.initialized \subseteq Instance
    BY <1>1, StateIs DEF Inv
  <2> QED BY <1>10, <1>30, <2>1 DEF Begun
<1>14. SignalsKept(q)
  <2>1. SignalsKept(r) /\ \A e \in Controller : \A g \in r.signals[e] : g[1] \in Slot
    BY <1>1, StateIs DEF Inv
  <2> QED BY <1>3, <2>1 DEF SignalsKept, d
<1>15. Incarnates(q)
  <2>1. Incarnates(r)
    BY DEF Inv
  <2> QED BY <1>8, <1>10, <2>1 DEF Incarnates
<1>16. Imports(q, w, h, pl)
  <2>1. Imports(r, w, h, pl)
    BY DEF Inv
  <2>2. \A e, n : Importable(r, pl, e, n) => Importable(q, pl, e, n)
    BY <1>2, <1>3, <1>9 DEF Importable
  <2>3. \A e \in Controller : \A n \in Waits(q, e) : n.op = "import" =>
          Importable(q, pl, e, n) /\ Single(q, e, n)
    BY <1>8, <2>1, <2>2 DEF Imports
  <2>4. \A e \in Controller : w[e] = "import" =>
          h[e] \in Command /\ h[e].op = "import" /\ Importable(q, pl, e, h[e])
          /\ h[e] \notin Waits(q, e)
    <3> SUFFICES ASSUME NEW e \in Controller, w[e] = "import", NEW n, n = h[e]
                 PROVE  n \in Command /\ n.op = "import" /\ Importable(q, pl, e, n) /\ n \notin Waits(q, e)
      OBVIOUS
    <3>1. n \in Command /\ n.op = "import" /\ Importable(r, pl, e, n) /\ n \notin Waits(r, e)
      BY <2>1 DEF Imports
    <3>2. Importable(q, pl, e, n)
      BY <2>2, <3>1
    <3> QED BY <1>8, <3>1, <3>2
  <2> QED BY <2>3, <2>4 DEF Imports
<1>17. Deports(q, pl)
  <2>1. Deports(r, pl)
    BY DEF Inv
  <2>2. \A e \in Controller : \A n \in Waits(q, e) : n.op = "deport" =>
          n \in Waits(r, e) /\ n.slot # p /\ n.slot \in Slot
    <3> SUFFICES ASSUME NEW e \in Controller, NEW n \in Waits(q, e), n.op = "deport"
                 PROVE  n \in Waits(r, e) /\ n.slot # p /\ n.slot \in Slot
      OBVIOUS
    <3>1. n \in Waits(r, e) /\ (e = d => ~ Matches(n, p, i, FALSE))
      BY <1>8
    <3>2. /\ n.slot \in Plugin /\ r.slot[n.slot].capsule = n.capsule /\ r.slot[n.slot].controller = e
      BY <2>1, <3>1 DEF Deports
    <3>3. n.slot # p
      BY <3>1, <3>2 DEF Matches, d, i
    <3> QED BY <1>2, <3>1, <3>2, <3>3
  <2> QED BY <1>3, <2>1, <2>2 DEF Deports
<1>18. PartDestroys(q, gone)
  <2>1. PartDestroys(r, gone)
    BY DEF Inv
  <2> SUFFICES ASSUME NEW c \in Controller, NEW n \in Waits(q, c), n.op = "destroy", n.waiter = NULL
               PROVE  /\ n.slot \in Part /\ q.slot[n.slot].exists /\ q.slot[n.slot].controller = c
                      /\ q.home[n.slot[1]] = NULL \/ n.slot[1] = gone
                      /\ n.slot \in Plugin /\ q.slot[n.slot].capsule # NULL =>
                           Ahead(q, c, Msg("deport", n.slot, q.slot[n.slot].capsule, NULL), n)
    BY DEF PartDestroys
  <2> DEFINE a == Msg("deport", n.slot, r.slot[n.slot].capsule, NULL)
  <2>2. n \in Waits(r, c)
    BY <1>8
  <2>3. /\ n.slot \in Part /\ r.slot[n.slot].exists /\ r.slot[n.slot].controller = c
        /\ r.home[n.slot[1]] = NULL \/ n.slot[1] = gone
        /\ n.slot \in Plugin /\ r.slot[n.slot].capsule # NULL => Ahead(r, c, a, n)
    BY <2>1, <2>2 DEF PartDestroys
  <2>4. a.slot = n.slot
    BY DEF Msg
  <2>5. n.slot \in Slot
    BY <2>3, Names
  <2> HIDE DEF a
  <2>6. n.slot # p /\ n.slot \in Plugin /\ r.slot[n.slot].capsule # NULL => Ahead(q, c, a, n)
    BY <1>8, <2>3, <2>4
  <2> QED BY <1>3, <2>3, <2>5, <2>6 DEF a
<1>19. TopDestroys(q, w, pl)
  <2>1. TopDestroys(r, w, pl)
    BY DEF Inv
  <2> SUFFICES ASSUME NEW e \in Controller, NEW n \in Waits(q, e), n.op = "destroy", n.waiter # NULL
               PROVE  /\ n.slot \in OptSlot /\ q.slot[n.slot].controller = e
                      /\ q.slot[n.slot].capsule # NULL
                      /\ w[n.waiter] = "waiting"
                      /\ Leaves(q, pl, e, q.slot[n.slot].capsule, n)
    BY DEF TopDestroys
  <2> DEFINE x == r.slot[n.slot].capsule
  <2>2. n \in Waits(r, e)
    BY <1>8
  <2>3. /\ n.slot \in OptSlot /\ r.slot[n.slot].controller = e /\ x # NULL /\ w[n.waiter] = "waiting"
        /\ Leaves(r, pl, e, x, n)
    BY <2>1, <2>2 DEF TopDestroys
  <2>4. n.slot \in Slot /\ n.slot # p
    BY <1>2, <2>3, Names
  <2>5. \A t, k : Msg("deport", t, k, NULL).slot = t
    BY DEF Msg
  <2> HIDE DEF x
  <2>6. Leaves(q, pl, e, x, n)
    <3>1. ASSUME NEW t \in Plugin
          PROVE  /\ pl[t] # x /\ (t \in PartsOf(x) => pl[t] = NULL)
                 /\ q.slot[t].capsule = x => t \in PlugSlot /\ Ahead(q, e, Msg("deport", t, x, NULL), n)
      <4>1. CASE t = p
        BY <1>3, <2>3, <4>1 DEF Leaves
      <4>2. CASE t # p
        <5> DEFINE a == Msg("deport", t, x, NULL)
        <5>1. /\ pl[t] # x /\ (t \in PartsOf(x) => pl[t] = NULL)
              /\ r.slot[t].capsule = x => t \in PlugSlot /\ Ahead(r, e, a, n)
          BY <2>3 DEF Leaves
        <5>2. a.slot # p
          BY <2>5, <4>2
        <5> HIDE DEF a
        <5>3. Ahead(r, e, a, n) => Ahead(q, e, a, n)
          BY <1>29, <5>2
        <5> QED BY <1>2, <1>26, <4>2, <5>1, <5>3 DEF a
      <4> QED BY <4>1, <4>2
    <3> QED BY <3>1 DEF Leaves
  <2> QED BY <1>3, <2>3, <2>4, <2>6 DEF x
<1>20. Waiters(q)
  <2>1. Waiters(r)
    BY DEF Inv
  <2> QED BY <1>27, <2>1 DEF Waiters
<1>21. Plans(q, w, h, pl, gone)
  <2>1. Plans(r, w, h, pl, gone)
    BY DEF Inv
  <2>2. \A t, k : Msg("import", t, k, NULL).slot = t
    BY DEF Msg
  <2> SUFFICES ASSUME NEW t \in Plugin, pl[t] # NULL
               PROVE  /\ t \in Part => q.home[t[1]] # NULL /\ t[1] # gone
                      /\ \/ q.slot[t].capsule = pl[t]
                         \/ \E e \in Controller : LET m == Msg("import", t, pl[t], NULL)
                                 IN m \in Waits(q, e) \/ (w[e] = "import" /\ h[e] = m)
    BY DEF Plans
  <2>3. t # p
    OBVIOUS
  <2> DEFINE m == Msg("import", t, pl[t], NULL)
  <2>4. /\ t \in Part => r.home[t[1]] # NULL /\ t[1] # gone
        /\ \/ r.slot[t].capsule = pl[t]
           \/ \E e \in Controller : m \in Waits(r, e) \/ (w[e] = "import" /\ h[e] = m)
    BY <2>1 DEF Plans
  <2>5. m.slot = t
    BY <2>2
  <2> HIDE DEF m
  <2>6. \/ q.slot[t].capsule = pl[t]
        \/ \E e \in Controller : m \in Waits(q, e) \/ (w[e] = "import" /\ h[e] = m)
    BY <1>2, <1>26, <1>28, <2>3, <2>4, <2>5
  <2> QED BY <1>26, <2>4, <2>6 DEF m
<1>22. Undone(q, w, h, pl)
  <2>1. \A t \in PlugSlot : r.slot[t].controller \in Controller /\ t \in Slot /\ t \in Plugin
    BY Names DEF Inv, Homes
  <2>2. Undone(r, w, h, pl)
    BY DEF Inv
  <2>3. \A t, k : Msg("deport", t, k, NULL).slot = t
    BY DEF Msg
  <2> QED BY <1>3, <1>26, <1>28, <2>1, <2>2, <2>3 DEF Undone
<1>23. Hands(q, w, h, pl)
  <2>1. Hands(r, w, h, pl)
    BY DEF Inv
  <2>2. \A t \in Part : r.home[t[1]] # NULL => r.home[t[1]] # p /\ r.home[t[1]] \in Slot
    BY <1>9, Names
  <2> QED BY <1>3, <2>1, <2>2 DEF Hands
<1>24. Exits(q, ex)
  <2>1. Exits(r, ex)
    BY DEF Inv
  <2> QED BY <1>3, <1>4, <1>8, <2>1 DEF Exits
<1>25. Threads(w, h, pl)
  BY DEF Inv
<1> QED BY <1>11, <1>12, <1>13, <1>14, <1>15, <1>16, <1>17, <1>18, <1>19, <1>20, <1>21, <1>22,
           <1>23, <1>24, <1>25, <1>1 DEF Inv

\* A part of a capsule that is being destroyed, or has been, is destroyed.
LEMMA PartInv ==
  ASSUME NEW r, NEW q, NEW w, NEW h, NEW pl, NEW ex, NEW gone, Inv(r, w, h, pl, ex, gone),
         NEW p \in Part, r.slot[p].exists, r.home[p[1]] = NULL \/ p[1] = gone,
         p \in Plugin => r.slot[p].capsule = NULL,
         Cut(r, q, p, r.slot[p].capsule, Gone)
  PROVE  Inv(q, w, h, pl, ex, gone)
<1> DEFINE d == r.slot[p].controller
           i == r.slot[p].capsule
<1>1. r \in State /\ q \in State
  BY DEF Inv, Cut
<1>2. /\ p \in Slot /\ p \notin OptSlot /\ p \notin PlugSlot /\ p # NULL /\ p \notin Capsule
      /\ p \in Plugin <=> p \notin Instance
      /\ \A t \in Plugin : t \in Slot
  BY Names
<1>3. /\ d \in Controller
      /\ p \notin Plugin => i = p
      /\ p \in Plugin => i = NULL
      /\ i \notin Capsule
  BY <1>2, Names DEF Inv, Homes
<1>4. /\ \A t \in Slot : t # p => q.slot[t] = r.slot[t]
      /\ ~ q.slot[p].exists /\ q.slot[p].capsule = NULL /\ ~ q.slot[p].mapped
      /\ \A x \in Capsule : q.home[x] = r.home[x]
      /\ q.initialized = r.initialized \ {i}
      /\ \A e \in Controller : q.signals[e] = {g \in r.signals[e] : e = d => g[1] # p}
      /\ q.fatal => r.fatal \/ \E m \in Waits(r, d) : m.op = "exit"
  BY <1>3 DEF Cut, Cleared, Gone, Vacant
<1>5. Purged(r, q, d, p, i, TRUE)
  BY DEF Cut, Cleared
<1>6. \A m : m.slot # p /\ m.op # "incarnate" => ~ Matches(m, p, i, TRUE)
  BY DEF Matches
<1>7. \A e \in Controller : Waits(q, e) \subseteq Waits(r, e)
  BY <1>5 DEF Purged
<1>8. \A e \in Controller : \A n \in Waits(r, e) : n.slot # p /\ n.op # "incarnate" => n \in Waits(q, e)
  BY <1>5, <1>6 DEF Purged
<1>9. \A e \in Controller : \A a, b :
        Ahead(r, e, a, b) /\ a.slot # p /\ a.op # "incarnate" => Ahead(q, e, a, b)
  BY <1>5, <1>6 DEF Purged
<1>10. \A e \in Controller : \A n : Single(r, e, n) => Single(q, e, n)
  BY <1>5 DEF Purged
<1>11. \A n \in Waits(q, d) : ~ Matches(n, p, i, TRUE)
  BY <1>3, <1>5 DEF Purged
<1>12. \A x \in Capsule : /\ r.home[x] \in OptSlot \cup {NULL}
                          /\ r.home[x] # NULL => r.home[x] # p /\ r.home[x] \in Slot
  BY <1>1, <1>2, StateIs, Names
<1>13. \A k \in Instance : k # p =>
         (Alive(q, k) <=> Alive(r, k)) /\ (Alive(r, k) => RunsOn(q, k) = RunsOn(r, k))
  BY <1>2, <1>4, <1>12, Names DEF Alive, RunsOn
<1>14. RunsOn(r, p) = d
  BY <1>2 DEF RunsOn
<1>15. \A t \in Part : t[1] \in Capsule /\ t \in Slot
  BY Names
<1> HIDE DEF d, i
<1>16. pl[p] = NULL \/ p \notin Plugin
  BY DEF Inv, Plans
<1>17. Homes(q, gone)
  <2>1. Homes(r, gone)
    BY DEF Inv
  <2>2. \A s \in Slot : s \in OptSlot \/ s \in PlugSlot => s # p
    BY <1>2
  <2>3. \A s \in OptSlot \cup PlugSlot : q.slot[s].exists
    BY <1>4, <2>1, <2>2, Names DEF Homes
  <2>4. \A s \in Slot : q.slot[s].exists => q.slot[s].controller \in Controller
    BY <1>4, <2>1 DEF Homes
  <2>5. \A x \in Capsule : q.home[x] # NULL => q.slot[q.home[x]].capsule = x
    BY <1>4, <1>12, <2>1 DEF Homes
  <2>6. \A s \in OptSlot : q.slot[s].capsule # NULL =>
          q.slot[s].capsule \in Capsule /\ q.home[q.slot[s].capsule] = s
    BY <1>4, <2>1, <2>2, Names DEF Homes
  <2>7. \A t \in Part : q.home[t[1]] # NULL /\ t[1] # gone => q.slot[t].exists
    BY <1>4, <1>15, <2>1 DEF Homes
  <2>8. \A t \in Part : t \notin Plugin => q.slot[t].capsule = IF q.slot[t].exists THEN t ELSE NULL
    BY <1>4, <1>15, <2>1 DEF Homes
  <2> QED BY <2>3, <2>4, <2>5, <2>6, <2>7, <2>8 DEF Homes
<1>18. Occupants(q)
  <2>1. Occupants(r)
    BY DEF Inv
  <2>2. ASSUME NEW t \in Plugin
        PROVE  /\ q.slot[t].mapped <=> q.slot[t].capsule # NULL
               /\ q.slot[t].capsule # NULL =>
                    /\ q.slot[t].exists /\ q.slot[t].capsule \in Capsule
                    /\ q.home[q.slot[t].capsule] # NULL
                    /\ q.slot[t].controller = q.slot[q.home[q.slot[t].capsule]].controller
    <3>1. CASE t = p
      BY <1>4, <3>1
    <3>2. CASE t # p
      <4>1. q.slot[t] = r.slot[t]
        BY <1>2, <1>4, <3>2
      <4>2. r.slot[t].mapped <=> r.slot[t].capsule # NULL
        BY <2>1 DEF Occupants
      <4>3. SUFFICES ASSUME NEW x, x = r.slot[t].capsule, x # NULL
                     PROVE  /\ r.slot[t].exists /\ x \in Capsule /\ q.home[x] # NULL
                            /\ r.slot[t].controller = q.slot[q.home[x]].controller
        BY <4>1, <4>2
      <4>4. /\ r.slot[t].exists /\ x \in Capsule /\ r.home[x] # NULL
            /\ r.slot[t].controller = r.slot[r.home[x]].controller
        BY <2>1, <4>3 DEF Occupants
      <4>5. q.home[x] = r.home[x] /\ q.slot[r.home[x]] = r.slot[r.home[x]]
        BY <1>4, <1>12, <4>4
      <4> QED BY <4>4, <4>5
    <3> QED BY <3>1, <3>2
  <2> QED BY <2>2 DEF Occupants
<1>19. Begun(q)
  <2>1. Begun(r) /\ r.initialized \subseteq Instance
    BY <1>1, StateIs DEF Inv
  <2>2. \A k \in q.initialized : k # p
    BY <1>2, <1>3, <1>4, <2>1
  <2> QED BY <1>4, <1>13, <2>1, <2>2 DEF Begun
<1>20. SignalsKept(q)
  <2>1. SignalsKept(r) /\ \A e \in Controller : \A g \in r.signals[e] : g[1] \in Slot
    BY <1>1, StateIs DEF Inv
  <2> QED BY <1>4, <2>1 DEF SignalsKept, d
<1>21. Incarnates(q)
  <2>1. Incarnates(r)
    BY DEF Inv
  <2>2. \A e \in Controller : \A n \in Waits(q, e) : n.op = "incarnate" => n.capsule # p
    <3> SUFFICES ASSUME NEW e \in Controller, NEW n \in Waits(q, e), n.op = "incarnate", n.capsule = p
                 PROVE  FALSE
      OBVIOUS
    <3>1. n.capsule \in Instance /\ RunsOn(r, n.capsule) = e
      BY <1>7, <2>1 DEF Incarnates
    <3>2. e = d /\ i = p
      BY <1>2, <1>3, <1>14, <3>1
    <3> QED BY <1>11, <3>2 DEF Matches
  <2> QED BY <1>7, <1>13, <2>1, <2>2 DEF Incarnates
<1>22. Imports(q, w, h, pl)
  <2>1. Imports(r, w, h, pl)
    BY DEF Inv
  <2>2. \A e, n : Importable(r, pl, e, n) => Importable(q, pl, e, n)
    BY <1>2, <1>4, <1>12, <1>16, Names DEF Importable
  <2>3. \A e \in Controller : \A n \in Waits(q, e) : n.op = "import" =>
          Importable(q, pl, e, n) /\ Single(q, e, n)
    BY <1>7, <1>10, <2>1, <2>2 DEF Imports
  <2>4. \A e \in Controller : w[e] = "import" =>
          h[e] \in Command /\ h[e].op = "import" /\ Importable(q, pl, e, h[e])
          /\ h[e] \notin Waits(q, e)
    <3> SUFFICES ASSUME NEW e \in Controller, w[e] = "import", NEW n, n = h[e]
                 PROVE  n \in Command /\ n.op = "import" /\ Importable(q, pl, e, n) /\ n \notin Waits(q, e)
      OBVIOUS
    <3>1. n \in Command /\ n.op = "import" /\ Importable(r, pl, e, n) /\ n \notin Waits(r, e)
      BY <2>1 DEF Imports
    <3>2. Importable(q, pl, e, n)
      BY <2>2, <3>1
    <3> QED BY <1>7, <3>1, <3>2
  <2> QED BY <2>3, <2>4 DEF Imports
<1>23. Deports(q, pl)
  <2>1. Deports(r, pl)
    BY DEF Inv
  <2>2. \A e \in Controller : \A n \in Waits(q, e) : n.op = "deport" =>
          n \in Waits(r, e) /\ n.slot # p /\ n.slot \in Slot
    BY <1>2, <1>7, <2>1, Names DEF Deports
  <2> QED BY <1>4, <2>1, <2>2 DEF Deports
<1>24. PartDestroys(q, gone)
  <2>1. PartDestroys(r, gone)
    BY DEF Inv
  <2> SUFFICES ASSUME NEW c \in Controller, NEW n \in Waits(q, c), n.op = "destroy", n.waiter = NULL
               PROVE  /\ n.slot \in Part /\ q.slot[n.slot].exists /\ q.slot[n.slot].controller = c
                      /\ q.home[n.slot[1]] = NULL \/ n.slot[1] = gone
                      /\ n.slot \in Plugin /\ q.slot[n.slot].capsule # NULL =>
                           Ahead(q, c, Msg("deport", n.slot, q.slot[n.slot].capsule, NULL), n)
    BY DEF PartDestroys
  <2> DEFINE a == Msg("deport", n.slot, r.slot[n.slot].capsule, NULL)
  <2>2. n \in Waits(r, c)
    BY <1>7
  <2>3. /\ n.slot \in Part /\ r.slot[n.slot].exists /\ r.slot[n.slot].controller = c
        /\ r.home[n.slot[1]] = NULL \/ n.slot[1] = gone
        /\ n.slot \in Plugin /\ r.slot[n.slot].capsule # NULL => Ahead(r, c, a, n)
    BY <2>1, <2>2 DEF PartDestroys
  <2>4. n.slot # p
    <3> SUFFICES ASSUME n.slot = p PROVE FALSE
      OBVIOUS
    <3>1. c = d
      BY <2>3 DEF d
    <3> QED BY <1>11, <3>1 DEF Matches
  <2>5. a.slot = n.slot /\ a.op = "deport"
    BY DEF Msg
  <2> HIDE DEF a
  <2>6. n.slot \in Plugin /\ r.slot[n.slot].capsule # NULL => Ahead(q, c, a, n)
    BY <1>9, <2>3, <2>4, <2>5
  <2>7. q.slot[n.slot] = r.slot[n.slot] /\ q.home[n.slot[1]] = r.home[n.slot[1]]
    BY <1>4, <1>15, <2>3, <2>4
  <2> QED BY <2>3, <2>6, <2>7 DEF a
<1>25. TopDestroys(q, w, pl)
  <2>1. TopDestroys(r, w, pl)
    BY DEF Inv
  <2> SUFFICES ASSUME NEW e \in Controller, NEW n \in Waits(q, e), n.op = "destroy", n.waiter # NULL
               PROVE  /\ n.slot \in OptSlot /\ q.slot[n.slot].controller = e
                      /\ q.slot[n.slot].capsule # NULL
                      /\ w[n.waiter] = "waiting"
                      /\ Leaves(q, pl, e, q.slot[n.slot].capsule, n)
    BY DEF TopDestroys
  <2> DEFINE x == r.slot[n.slot].capsule
  <2>2. n \in Waits(r, e)
    BY <1>7
  <2>3. /\ n.slot \in OptSlot /\ r.slot[n.slot].controller = e /\ x # NULL /\ w[n.waiter] = "waiting"
        /\ Leaves(r, pl, e, x, n)
    BY <2>1, <2>2 DEF TopDestroys
  <2>4. n.slot \in Slot /\ n.slot # p
    BY <1>2, <2>3, Names
  <2> HIDE DEF x
  <2>5. ASSUME NEW t \in Plugin
        PROVE  /\ pl[t] # x /\ (t \in PartsOf(x) => pl[t] = NULL)
               /\ q.slot[t].capsule = x => t \in PlugSlot /\ Ahead(q, e, Msg("deport", t, x, NULL), n)
    <3> DEFINE a == Msg("deport", t, x, NULL)
    <3>1. /\ pl[t] # x /\ (t \in PartsOf(x) => pl[t] = NULL)
          /\ r.slot[t].capsule = x => t \in PlugSlot /\ Ahead(r, e, a, n)
      BY <2>3 DEF Leaves
    <3>2. a.slot = t /\ a.op = "deport"
      BY DEF Msg
    <3> HIDE DEF a
    <3>3. t # p => (Ahead(r, e, a, n) => Ahead(q, e, a, n))
      BY <1>9, <3>2
    <3> QED BY <1>2, <1>4, <2>3, <3>1, <3>3 DEF a
  <2>6. Leaves(q, pl, e, x, n)
    BY <2>5 DEF Leaves
  <2> QED BY <1>4, <2>3, <2>4, <2>6 DEF x
<1>26. Waiters(q)
  <2>1. Waiters(r)
    BY DEF Inv
  <2> QED BY <1>7, <2>1 DEF Waiters
<1>27. Plans(q, w, h, pl, gone)
  <2>1. Plans(r, w, h, pl, gone)
    BY DEF Inv
  <2> SUFFICES ASSUME NEW t \in Plugin, pl[t] # NULL
               PROVE  /\ t \in Part => q.home[t[1]] # NULL /\ t[1] # gone
                      /\ \/ q.slot[t].capsule = pl[t]
                         \/ \E e \in Controller : LET m == Msg("import", t, pl[t], NULL)
                                 IN m \in Waits(q, e) \/ (w[e] = "import" /\ h[e] = m)
    BY DEF Plans
  <2>2. t # p
    BY <1>16
  <2> DEFINE m == Msg("import", t, pl[t], NULL)
  <2>3. /\ t \in Part => r.home[t[1]] # NULL /\ t[1] # gone
        /\ \/ r.slot[t].capsule = pl[t]
           \/ \E e \in Controller : m \in Waits(r, e) \/ (w[e] = "import" /\ h[e] = m)
    BY <2>1 DEF Plans
  <2>4. m.slot = t /\ m.op = "import"
    BY DEF Msg
  <2> HIDE DEF m
  <2>5. \/ q.slot[t].capsule = pl[t]
        \/ \E e \in Controller : m \in Waits(q, e) \/ (w[e] = "import" /\ h[e] = m)
    BY <1>2, <1>4, <1>8, <2>2, <2>3, <2>4
  <2> QED BY <1>4, <1>15, <2>3, <2>5 DEF m
<1>28. Undone(q, w, h, pl)
  <2>1. \A t \in PlugSlot : /\ r.slot[t].controller \in Controller
                            /\ t \in Slot /\ t \in Plugin /\ t # p
    BY <1>2, Names DEF Inv, Homes
  <2>2. Undone(r, w, h, pl)
    BY DEF Inv
  <2>3. \A t, k : Msg("deport", t, k, NULL).slot = t /\ Msg("deport", t, k, NULL).op = "deport"
    BY DEF Msg
  <2> QED BY <1>4, <1>8, <2>1, <2>2, <2>3 DEF Undone
<1>29. Hands(q, w, h, pl)
  <2>1. Hands(r, w, h, pl)
    BY DEF Inv
  <2>2. \A t \in Part : /\ q.home[t[1]] = r.home[t[1]]
                        /\ r.home[t[1]] # NULL => r.home[t[1]] # p /\ r.home[t[1]] \in Slot
    BY <1>4, <1>12, <1>15
  <2> QED BY <1>4, <2>1, <2>2 DEF Hands
<1>30. Exits(q, ex)
  <2>1. Exits(r, ex)
    BY DEF Inv
  <2> QED BY <1>3, <1>4, <1>7, <2>1 DEF Exits
<1>31. Threads(w, h, pl)
  BY DEF Inv
<1> QED BY <1>1, <1>17, <1>18, <1>19, <1>20, <1>21, <1>22, <1>23, <1>24, <1>25, <1>26, <1>27,
           <1>28, <1>29, <1>30, <1>31 DEF Inv

\* A capsule leaves its optional slot, after all else has been done.
LEMMA FinishInv ==
  ASSUME NEW r, NEW q, NEW w, NEW h, NEW pl, NEW ex, NEW x \in Capsule, Inv(r, w, h, pl, ex, x),
         NEW s \in OptSlot, r.slot[s].capsule = x, w[r.slot[s].controller] = "loop",
         \A p \in Plugin : pl[p] # x /\ (p \in PartsOf(x) => pl[p] = NULL) /\ r.slot[p].capsule # x,
         Cut(r, q, s, x, Vacant(r.slot[s].controller))
  PROVE  Inv(q, w, h, pl, ex, NULL)
<1> DEFINE d == r.slot[s].controller
<1>1. r \in State /\ q \in State
  BY DEF Inv, Cut
<1>2. /\ s \in Slot /\ s \notin Plugin /\ s \notin PlugSlot /\ s \notin Part /\ s # NULL /\ x # NULL
      /\ \A t \in Plugin : t \in Slot /\ t # s
  BY Names
<1>3. d \in Controller /\ r.home[x] = s
  BY <1>2, Names DEF Inv, Homes
<1>4. /\ \A t \in Slot : t # s => q.slot[t] = r.slot[t]
      /\ q.slot[s].exists /\ q.slot[s].capsule = NULL /\ q.slot[s].controller = d
      /\ \A y \in Capsule : q.home[y] = IF y = x THEN NULL ELSE r.home[y]
      /\ q.initialized = r.initialized \ {x}
      /\ \A e \in Controller : q.signals[e] = {g \in r.signals[e] : e = d => g[1] # s}
      /\ q.fatal => r.fatal \/ \E m \in Waits(r, d) : m.op = "exit"
  BY <1>3 DEF Cut, Cleared, Vacant
<1>5. Purged(r, q, d, s, x, TRUE)
  BY DEF Cut, Cleared
<1>6. \A m : m.slot # s /\ m.op # "incarnate" => ~ Matches(m, s, x, TRUE)
  BY DEF Matches
<1>7. \A e \in Controller : Waits(q, e) \subseteq Waits(r, e)
  BY <1>5 DEF Purged
<1>8. \A e \in Controller : \A n \in Waits(r, e) : n.slot # s /\ n.op # "incarnate" => n \in Waits(q, e)
  BY <1>5, <1>6 DEF Purged
<1>9. \A e \in Controller : \A a, b :
        Ahead(r, e, a, b) /\ a.slot # s /\ a.op # "incarnate" => Ahead(q, e, a, b)
  BY <1>5, <1>6 DEF Purged
<1>10. \A e \in Controller : \A n : Single(r, e, n) => Single(q, e, n)
  BY <1>5 DEF Purged
<1>11. \A n \in Waits(q, d) : ~ Matches(n, s, x, TRUE)
  BY <1>3, <1>5 DEF Purged
<1>12. \A y \in Capsule : /\ r.home[y] \in OptSlot \cup {NULL}
                          /\ r.home[y] # NULL => r.home[y] \in Slot /\ (y # x => r.home[y] # s)
  BY <1>1, StateIs, Names DEF Inv, Homes
<1>13. \A k \in Instance : k # x =>
         (Alive(q, k) <=> Alive(r, k)) /\ (Alive(r, k) => RunsOn(q, k) = RunsOn(r, k))
  <2>1. ASSUME NEW k \in Capsule, k # x
        PROVE  (Alive(q, k) <=> Alive(r, k)) /\ (Alive(r, k) => RunsOn(q, k) = RunsOn(r, k))
    BY <1>4, <1>12, <2>1 DEF Alive, RunsOn
  <2>2. ASSUME NEW k \in Instance, k \notin Capsule
        PROVE  (Alive(q, k) <=> Alive(r, k)) /\ (Alive(r, k) => RunsOn(q, k) = RunsOn(r, k))
    <3>1. k \in Slot /\ k # s
      BY <1>2, <2>2, Names
    <3> QED BY <1>4, <2>2, <3>1 DEF Alive, RunsOn
  <2> QED BY <2>1, <2>2
<1>14. RunsOn(r, x) = d
  BY <1>3 DEF RunsOn
<1>15. \A t \in Part : t[1] \in Capsule /\ t \in Slot /\ t # s /\ t[1] # NULL
  BY <1>2, Names
<1>16. \A p \in Plugin : pl[p] # x /\ (p \in PartsOf(x) => pl[p] = NULL) /\ r.slot[p].capsule # x
  OBVIOUS
<1> HIDE DEF d
<1>17. Homes(q, NULL)
  <2>1. Homes(r, x)
    BY DEF Inv
  <2>2. \A t \in OptSlot \cup PlugSlot : q.slot[t].exists
    BY <1>4, <2>1, Names DEF Homes
  <2>3. \A t \in Slot : q.slot[t].exists => q.slot[t].controller \in Controller
    BY <1>3, <1>4, <2>1 DEF Homes
  <2>4. \A y \in Capsule : q.home[y] # NULL => q.slot[q.home[y]].capsule = y
    BY <1>4, <1>12, <2>1 DEF Homes
  <2>5. \A t \in OptSlot : q.slot[t].capsule # NULL =>
          q.slot[t].capsule \in Capsule /\ q.home[q.slot[t].capsule] = t
    <3> SUFFICES ASSUME NEW t \in OptSlot, q.slot[t].capsule # NULL
                 PROVE  q.slot[t].capsule \in Capsule /\ q.home[q.slot[t].capsule] = t
      OBVIOUS
    <3>1. t # s /\ t \in Slot
      BY <1>4, Names
    <3>2. r.slot[t].capsule \in Capsule /\ r.home[r.slot[t].capsule] = t
      BY <1>4, <2>1, <3>1 DEF Homes
    <3>3. r.slot[t].capsule # x
      BY <1>3, <3>1, <3>2
    <3> QED BY <1>4, <3>1, <3>2, <3>3
  <2>6. \A t \in Part : q.home[t[1]] # NULL /\ t[1] # NULL => q.slot[t].exists
    BY <1>4, <1>15, <2>1 DEF Homes
  <2>7. \A t \in Part : t \notin Plugin => q.slot[t].capsule = IF q.slot[t].exists THEN t ELSE NULL
    BY <1>4, <1>15, <2>1 DEF Homes
  <2> QED BY <2>2, <2>3, <2>4, <2>5, <2>6, <2>7 DEF Homes
<1>18. Occupants(q)
  <2>1. Occupants(r)
    BY DEF Inv
  <2>2. ASSUME NEW t \in Plugin
        PROVE  /\ q.slot[t].mapped <=> q.slot[t].capsule # NULL
               /\ q.slot[t].capsule # NULL =>
                    /\ q.slot[t].exists /\ q.slot[t].capsule \in Capsule
                    /\ q.home[q.slot[t].capsule] # NULL
                    /\ q.slot[t].controller = q.slot[q.home[q.slot[t].capsule]].controller
    <3>1. q.slot[t] = r.slot[t] /\ r.slot[t].capsule # x
      BY <1>2, <1>4, <1>16
    <3>2. r.slot[t].mapped <=> r.slot[t].capsule # NULL
      BY <2>1 DEF Occupants
    <3>3. ASSUME NEW y, y = r.slot[t].capsule, y # NULL
          PROVE  /\ q.slot[t].exists /\ y \in Capsule /\ q.home[y] # NULL
                 /\ q.slot[t].controller = q.slot[q.home[y]].controller
      <4>1. /\ r.slot[t].exists /\ y \in Capsule /\ r.home[y] # NULL /\ y # x
            /\ r.slot[t].controller = r.slot[r.home[y]].controller
        BY <2>1, <3>1, <3>3 DEF Occupants
      <4>2. q.home[y] = r.home[y] /\ q.slot[r.home[y]] = r.slot[r.home[y]]
        BY <1>4, <1>12, <4>1
      <4> QED BY <3>1, <4>1, <4>2
    <3> QED BY <3>1, <3>2, <3>3
  <2> QED BY <2>2 DEF Occupants
<1>19. Begun(q)
  <2>1. Begun(r) /\ r.initialized \subseteq Instance
    BY <1>1, StateIs DEF Inv
  <2>2. \A k \in q.initialized : k # x
    BY <1>4
  <2> QED BY <1>4, <1>13, <2>1, <2>2 DEF Begun
<1>20. SignalsKept(q)
  <2>1. SignalsKept(r) /\ \A e \in Controller : \A g \in r.signals[e] : g[1] \in Slot
    BY <1>1, StateIs DEF Inv
  <2> QED BY <1>4, <2>1 DEF SignalsKept, d
<1>21. Incarnates(q)
  <2>1. Incarnates(r)
    BY DEF Inv
  <2>2. \A e \in Controller : \A n \in Waits(q, e) : n.op = "incarnate" => n.capsule # x
    <3> SUFFICES ASSUME NEW e \in Controller, NEW n \in Waits(q, e), n.op = "incarnate", n.capsule = x
                 PROVE  FALSE
      OBVIOUS
    <3>1. n.capsule \in Instance /\ RunsOn(r, n.capsule) = e
      BY <1>7, <2>1 DEF Incarnates
    <3>2. e = d
      BY <1>14, <3>1
    <3> QED BY <1>11, <3>2 DEF Matches
  <2> QED BY <1>7, <1>13, <2>1, <2>2 DEF Incarnates
<1>22. Imports(q, w, h, pl)
  <2>1. Imports(r, w, h, pl)
    BY DEF Inv
  <2>2. \A e, n : Importable(r, pl, e, n) => Importable(q, pl, e, n)
    BY <1>2, <1>4, <1>12, <1>16, Names DEF Importable
  <2>3. \A e \in Controller : \A n \in Waits(q, e) : n.op = "import" =>
          Importable(q, pl, e, n) /\ Single(q, e, n)
    BY <1>7, <1>10, <2>1, <2>2 DEF Imports
  <2>4. \A e \in Controller : w[e] = "import" =>
          h[e] \in Command /\ h[e].op = "import" /\ Importable(q, pl, e, h[e])
          /\ h[e] \notin Waits(q, e)
    <3> SUFFICES ASSUME NEW e \in Controller, w[e] = "import", NEW n, n = h[e]
                 PROVE  n \in Command /\ n.op = "import" /\ Importable(q, pl, e, n) /\ n \notin Waits(q, e)
      OBVIOUS
    <3>1. n \in Command /\ n.op = "import" /\ Importable(r, pl, e, n) /\ n \notin Waits(r, e)
      BY <2>1 DEF Imports
    <3>2. Importable(q, pl, e, n)
      BY <2>2, <3>1
    <3> QED BY <1>7, <3>1, <3>2
  <2> QED BY <2>3, <2>4 DEF Imports
<1>23. Deports(q, pl)
  <2>1. Deports(r, pl)
    BY DEF Inv
  <2>2. \A e \in Controller : \A n \in Waits(q, e) : n.op = "deport" =>
          n \in Waits(r, e) /\ n.slot # s /\ n.slot \in Slot
    BY <1>2, <1>7, <2>1, Names DEF Deports
  <2> QED BY <1>4, <2>1, <2>2 DEF Deports
<1>24. PartDestroys(q, NULL)
  <2>1. PartDestroys(r, x)
    BY DEF Inv
  <2> SUFFICES ASSUME NEW c \in Controller, NEW n \in Waits(q, c), n.op = "destroy", n.waiter = NULL
               PROVE  /\ n.slot \in Part /\ q.slot[n.slot].exists /\ q.slot[n.slot].controller = c
                      /\ q.home[n.slot[1]] = NULL \/ n.slot[1] = NULL
                      /\ n.slot \in Plugin /\ q.slot[n.slot].capsule # NULL =>
                           Ahead(q, c, Msg("deport", n.slot, q.slot[n.slot].capsule, NULL), n)
    BY DEF PartDestroys
  <2> DEFINE a == Msg("deport", n.slot, r.slot[n.slot].capsule, NULL)
  <2>2. n \in Waits(r, c)
    BY <1>7
  <2>3. /\ n.slot \in Part /\ r.slot[n.slot].exists /\ r.slot[n.slot].controller = c
        /\ r.home[n.slot[1]] = NULL \/ n.slot[1] = x
        /\ n.slot \in Plugin /\ r.slot[n.slot].capsule # NULL => Ahead(r, c, a, n)
    BY <2>1, <2>2 DEF PartDestroys
  <2>4. a.slot = n.slot /\ a.op = "deport"
    BY DEF Msg
  <2> HIDE DEF a
  <2>5. n.slot \in Plugin /\ r.slot[n.slot].capsule # NULL => Ahead(q, c, a, n)
    BY <1>9, <1>15, <2>3, <2>4
  <2>6. q.slot[n.slot] = r.slot[n.slot] /\ q.home[n.slot[1]] = NULL
    BY <1>4, <1>15, <2>3
  <2> QED BY <2>3, <2>5, <2>6 DEF a
<1>25. TopDestroys(q, w, pl)
  <2>1. TopDestroys(r, w, pl)
    BY DEF Inv
  <2> SUFFICES ASSUME NEW e \in Controller, NEW n \in Waits(q, e), n.op = "destroy", n.waiter # NULL
               PROVE  /\ n.slot \in OptSlot /\ q.slot[n.slot].controller = e
                      /\ q.slot[n.slot].capsule # NULL
                      /\ w[n.waiter] = "waiting"
                      /\ Leaves(q, pl, e, q.slot[n.slot].capsule, n)
    BY DEF TopDestroys
  <2> DEFINE y == r.slot[n.slot].capsule
  <2>2. n \in Waits(r, e)
    BY <1>7
  <2>3. /\ n.slot \in OptSlot /\ r.slot[n.slot].controller = e /\ y # NULL /\ w[n.waiter] = "waiting"
        /\ Leaves(r, pl, e, y, n)
    BY <2>1, <2>2 DEF TopDestroys
  <2>4. n.slot \in Slot /\ n.slot # s
    <3>1. n.slot = s => e = d
      BY <2>3 DEF d
    <3>2. n.slot # s
      BY <1>11, <3>1 DEF Matches
    <3> QED BY <2>3, <3>2, Names
  <2> HIDE DEF y
  <2>5. ASSUME NEW t \in Plugin
        PROVE  /\ pl[t] # y /\ (t \in PartsOf(y) => pl[t] = NULL)
               /\ q.slot[t].capsule = y => t \in PlugSlot /\ Ahead(q, e, Msg("deport", t, y, NULL), n)
    <3> DEFINE a == Msg("deport", t, y, NULL)
    <3>1. /\ pl[t] # y /\ (t \in PartsOf(y) => pl[t] = NULL)
          /\ r.slot[t].capsule = y => t \in PlugSlot /\ Ahead(r, e, a, n)
      BY <2>3 DEF Leaves
    <3>2. a.slot = t /\ a.op = "deport"
      BY DEF Msg
    <3> HIDE DEF a
    <3>3. Ahead(r, e, a, n) => Ahead(q, e, a, n)
      BY <1>2, <1>9, <3>2
    <3> QED BY <1>2, <1>4, <2>3, <3>1, <3>3 DEF a
  <2>6. Leaves(q, pl, e, y, n)
    BY <2>5 DEF Leaves
  <2> QED BY <1>4, <2>3, <2>4, <2>6 DEF y
<1>26. Waiters(q)
  <2>1. Waiters(r)
    BY DEF Inv
  <2> QED BY <1>7, <2>1 DEF Waiters
<1>27. Plans(q, w, h, pl, NULL)
  <2>1. Plans(r, w, h, pl, x)
    BY DEF Inv
  <2> SUFFICES ASSUME NEW t \in Plugin, pl[t] # NULL
               PROVE  /\ t \in Part => q.home[t[1]] # NULL /\ t[1] # NULL
                      /\ \/ q.slot[t].capsule = pl[t]
                         \/ \E e \in Controller : LET m == Msg("import", t, pl[t], NULL)
                                 IN m \in Waits(q, e) \/ (w[e] = "import" /\ h[e] = m)
    BY DEF Plans
  <2> DEFINE m == Msg("import", t, pl[t], NULL)
  <2>3. /\ t \in Part => r.home[t[1]] # NULL /\ t[1] # x
        /\ \/ r.slot[t].capsule = pl[t]
           \/ \E e \in Controller : m \in Waits(r, e) \/ (w[e] = "import" /\ h[e] = m)
    BY <2>1 DEF Plans
  <2>4. m.slot = t /\ m.op = "import"
    BY DEF Msg
  <2> HIDE DEF m
  <2>5. \/ q.slot[t].capsule = pl[t]
        \/ \E e \in Controller : m \in Waits(q, e) \/ (w[e] = "import" /\ h[e] = m)
    BY <1>2, <1>4, <1>8, <2>3, <2>4
  <2> QED BY <1>4, <1>15, <2>3, <2>5 DEF m
<1>28. Undone(q, w, h, pl)
  <2>1. \A t \in PlugSlot : /\ r.slot[t].controller \in Controller
                            /\ t \in Slot /\ t \in Plugin /\ t # s
    BY <1>2, Names DEF Inv, Homes
  <2>2. Undone(r, w, h, pl)
    BY DEF Inv
  <2>3. \A t, k : Msg("deport", t, k, NULL).slot = t /\ Msg("deport", t, k, NULL).op = "deport"
    BY DEF Msg
  <2> QED BY <1>4, <1>8, <2>1, <2>2, <2>3 DEF Undone
<1>29. Hands(q, w, h, pl)
  <2>1. Hands(r, w, h, pl)
    BY DEF Inv
  <2> SUFFICES ASSUME NEW c \in Controller, w[c] = "deport", NEW t, t = h[c].slot
               PROVE  /\ h[c] \in Command /\ t \in Plugin /\ pl[t] = NULL
                      /\ t \in PlugSlot => Owner[t] = c
                      /\ t \in Part => q.home[t[1]] # NULL /\ q.slot[q.home[t[1]]].controller = c
    BY DEF Hands
  <2>2. /\ h[c] \in Command /\ t \in Plugin /\ pl[t] = NULL
        /\ t \in PlugSlot => Owner[t] = c
        /\ t \in Part => r.home[t[1]] # NULL /\ r.slot[r.home[t[1]]].controller = c
    BY <2>1 DEF Hands
  <2>3. c # d
    BY DEF d
  <2>4. t \in Part => t[1] # x
    BY <1>3, <2>2, <2>3 DEF d
  <2>5. t \in Part => q.home[t[1]] = r.home[t[1]] /\ q.slot[r.home[t[1]]] = r.slot[r.home[t[1]]]
    BY <1>4, <1>12, <1>15, <2>2, <2>4
  <2> QED BY <2>2, <2>5
<1>30. Exits(q, ex)
  <2>1. Exits(r, ex)
    BY DEF Inv
  <2> QED BY <1>3, <1>4, <1>7, <2>1 DEF Exits
<1>31. Threads(w, h, pl)
  BY DEF Inv
<1> QED BY <1>1, <1>17, <1>18, <1>19, <1>20, <1>21, <1>22, <1>23, <1>24, <1>25, <1>26, <1>27,
           <1>28, <1>29, <1>30, <1>31 DEF Inv

\* At most the command m has been taken away.
Lost(r, q, m) ==
  \A e \in Controller :
    /\ Waits(q, e) \subseteq Waits(r, e)
    /\ \A n \in Waits(r, e) : n \in Waits(q, e) \/ n = m
    /\ \A a, b : Ahead(r, e, a, b) /\ a # m => Ahead(q, e, a, b)
    /\ \A n : Single(r, e, n) => Single(q, e, n)

LEMMA LostIs ==
  ASSUME NEW r, NEW q
  PROVE  /\ \A c, m : Took(r, q, c, m) => Lost(r, q, m)
         /\ SameLines(r, q) => \A m : Lost(r, q, m)
BY DEF Took, SameLines, Lost

\* The slots are the same, but for condemned.
SameSlots(r, q) ==
  \A t \in Slot : /\ q.slot[t].exists = r.slot[t].exists
                  /\ q.slot[t].capsule = r.slot[t].capsule
                  /\ q.slot[t].controller = r.slot[t].controller
                  /\ q.slot[t].mapped = r.slot[t].mapped

\* Signals come and go, slots are condemned, and what needs nothing is taken.
LEMMA LostInv ==
  ASSUME NEW r, NEW q, NEW w, NEW h, NEW pl, NEW ex, NEW gone, Inv(r, w, h, pl, ex, gone),
         q \in State, SameSlots(r, q), q.home = r.home,
         \A k \in q.initialized : Alive(r, k), SignalsKept(q), q.fatal => ex,
         NEW m, m.op \in {"incarnate", "destroy", "exit"}, Lost(r, q, m)
  PROVE  Inv(q, w, h, pl, ex, gone)
<1>1. r \in State
  BY DEF Inv
<1>2. \A t \in Slot : /\ q.slot[t].exists = r.slot[t].exists
                      /\ q.slot[t].capsule = r.slot[t].capsule
                      /\ q.slot[t].controller = r.slot[t].controller
                      /\ q.slot[t].mapped = r.slot[t].mapped
  BY DEF SameSlots
<1>3. \A e \in Controller : Waits(q, e) \subseteq Waits(r, e)
  BY DEF Lost
<1>4. \A e \in Controller : \A n \in Waits(r, e) : n.op \in {"import", "deport"} => n \in Waits(q, e)
  BY DEF Lost
<1>5. \A e \in Controller : \A a, b : Ahead(r, e, a, b) /\ a.op = "deport" => Ahead(q, e, a, b)
  BY DEF Lost
<1>6. \A e \in Controller : \A n : Single(r, e, n) => Single(q, e, n)
  BY DEF Lost
<1>7. \A x \in Capsule : /\ r.home[x] \in OptSlot \cup {NULL}
                         /\ r.home[x] # NULL => r.home[x] \in Slot
  BY <1>1, StateIs, Names
<1>8. \A t \in Plugin : t \in Slot
  BY Names
<1>9. \A k \in Instance : (Alive(q, k) <=> Alive(r, k)) /\ (Alive(r, k) => RunsOn(q, k) = RunsOn(r, k))
  BY <1>2, <1>7, Names DEF Alive, RunsOn
<1>10. \A t \in Part : t[1] \in Capsule /\ t \in Slot
  BY Names
<1>11. Homes(q, gone)
  <2>1. Homes(r, gone)
    BY DEF Inv
  <2> QED BY <1>2, <1>7, <1>10, <2>1, Names DEF Homes
<1>12. Occupants(q)
  <2>1. Occupants(r)
    BY DEF Inv
  <2> QED BY <1>2, <1>7, <1>8, <2>1 DEF Occupants
<1>13. Begun(q)
  <2>1. q.initialized \subseteq Instance
    BY StateIs
  <2> QED BY <1>9, <2>1 DEF Begun
<1>14. Incarnates(q)
  <2>1. Incarnates(r)
    BY DEF Inv
  <2> QED BY <1>3, <1>9, <2>1 DEF Incarnates
<1>15. Imports(q, w, h, pl)
  <2>1. Imports(r, w, h, pl)
    BY DEF Inv
  <2>2. \A e, n : Importable(r, pl, e, n) => Importable(q, pl, e, n)
    BY <1>2, <1>7, <1>8 DEF Importable
  <2>3. \A e \in Controller : \A n \in Waits(q, e) : n.op = "import" =>
          Importable(q, pl, e, n) /\ Single(q, e, n)
    BY <1>3, <1>6, <2>1, <2>2 DEF Imports
  <2>4. \A e \in Controller : w[e] = "import" =>
          h[e] \in Command /\ h[e].op = "import" /\ Importable(q, pl, e, h[e])
          /\ h[e] \notin Waits(q, e)
    <3> SUFFICES ASSUME NEW e \in Controller, w[e] = "import", NEW n, n = h[e]
                 PROVE  n \in Command /\ n.op = "import" /\ Importable(q, pl, e, n) /\ n \notin Waits(q, e)
      OBVIOUS
    <3>1. n \in Command /\ n.op = "import" /\ Importable(r, pl, e, n) /\ n \notin Waits(r, e)
      BY <2>1 DEF Imports
    <3>2. Importable(q, pl, e, n)
      BY <2>2, <3>1
    <3> QED BY <1>3, <3>1, <3>2
  <2> QED BY <2>3, <2>4 DEF Imports
<1>16. Deports(q, pl)
  <2>1. Deports(r, pl)
    BY DEF Inv
  <2> QED BY <1>2, <1>3, <1>8, <2>1 DEF Deports
<1>17. PartDestroys(q, gone)
  <2>1. PartDestroys(r, gone)
    BY DEF Inv
  <2> SUFFICES ASSUME NEW c \in Controller, NEW n \in Waits(q, c), n.op = "destroy", n.waiter = NULL
               PROVE  /\ n.slot \in Part /\ q.slot[n.slot].exists /\ q.slot[n.slot].controller = c
                      /\ q.home[n.slot[1]] = NULL \/ n.slot[1] = gone
                      /\ n.slot \in Plugin /\ q.slot[n.slot].capsule # NULL =>
                           Ahead(q, c, Msg("deport", n.slot, q.slot[n.slot].capsule, NULL), n)
    BY DEF PartDestroys
  <2> DEFINE a == Msg("deport", n.slot, r.slot[n.slot].capsule, NULL)
  <2>2. n \in Waits(r, c)
    BY <1>3
  <2>3. /\ n.slot \in Part /\ r.slot[n.slot].exists /\ r.slot[n.slot].controller = c
        /\ r.home[n.slot[1]] = NULL \/ n.slot[1] = gone
        /\ n.slot \in Plugin /\ r.slot[n.slot].capsule # NULL => Ahead(r, c, a, n)
    BY <2>1, <2>2 DEF PartDestroys
  <2>4. a.op = "deport"
    BY DEF Msg
  <2> HIDE DEF a
  <2>5. n.slot \in Plugin /\ r.slot[n.slot].capsule # NULL => Ahead(q, c, a, n)
    BY <1>5, <2>3, <2>4
  <2> QED BY <1>2, <1>10, <2>3, <2>5 DEF a
<1>18. TopDestroys(q, w, pl)
  <2>1. TopDestroys(r, w, pl)
    BY DEF Inv
  <2> SUFFICES ASSUME NEW e \in Controller, NEW n \in Waits(q, e), n.op = "destroy", n.waiter # NULL
               PROVE  /\ n.slot \in OptSlot /\ q.slot[n.slot].controller = e
                      /\ q.slot[n.slot].capsule # NULL
                      /\ w[n.waiter] = "waiting"
                      /\ Leaves(q, pl, e, q.slot[n.slot].capsule, n)
    BY DEF TopDestroys
  <2> DEFINE x == r.slot[n.slot].capsule
  <2>2. n \in Waits(r, e)
    BY <1>3
  <2>3. /\ n.slot \in OptSlot /\ r.slot[n.slot].controller = e /\ x # NULL /\ w[n.waiter] = "waiting"
        /\ Leaves(r, pl, e, x, n)
    BY <2>1, <2>2 DEF TopDestroys
  <2>4. n.slot \in Slot
    BY <2>3, Names
  <2>5. \A t, k : Msg("deport", t, k, NULL).op = "deport"
    BY DEF Msg
  <2> HIDE DEF x
  <2>6. Leaves(q, pl, e, x, n)
    BY <1>2, <1>5, <1>8, <2>3, <2>5 DEF Leaves
  <2> QED BY <1>2, <2>3, <2>4, <2>6 DEF x
<1>19. Waiters(q)
  <2>1. Waiters(r)
    BY DEF Inv
  <2> QED BY <1>3, <2>1 DEF Waiters
<1>20. Plans(q, w, h, pl, gone)
  <2>1. Plans(r, w, h, pl, gone)
    BY DEF Inv
  <2>2. \A t, k : Msg("import", t, k, NULL).op = "import"
    BY DEF Msg
  <2> QED BY <1>2, <1>4, <1>8, <2>1, <2>2 DEF Plans
<1>21. Undone(q, w, h, pl)
  <2>1. \A t \in PlugSlot : r.slot[t].controller \in Controller /\ t \in Slot
    BY Names DEF Inv, Homes
  <2>2. Undone(r, w, h, pl)
    BY DEF Inv
  <2>3. \A t, k : Msg("deport", t, k, NULL).op = "deport"
    BY DEF Msg
  <2> QED BY <1>2, <1>4, <2>1, <2>2, <2>3 DEF Undone
<1>22. Hands(q, w, h, pl)
  <2>1. Hands(r, w, h, pl)
    BY DEF Inv
  <2> QED BY <1>2, <1>7, <1>10, <2>1 DEF Hands
<1>23. Exits(q, ex)
  <2>1. Exits(r, ex)
    BY DEF Inv
  <2> QED BY <1>3, <2>1 DEF Exits
<1>24. Threads(w, h, pl)
  BY DEF Inv
<1> QED BY <1>11, <1>12, <1>13, <1>14, <1>15, <1>16, <1>17, <1>18, <1>19, <1>20, <1>21, <1>22,
           <1>23, <1>24 DEF Inv

\* Plans that have been carried out are given up; the imports in hands stay.
GivenUp(r, w, h, pl, w2, h2, pl2) ==
  /\ \A e \in Controller :
       /\ w2[e] = "import" <=> w[e] = "import"
       /\ w[e] = "import" => h2[e] = h[e]
  /\ \A p \in Plugin : pl2[p] = pl[p] \/ (pl2[p] = NULL /\ r.slot[p].capsule # NULL)

\* Threads go on.
LEMMA RestInv ==
  ASSUME NEW r, NEW w, NEW h, NEW pl, NEW ex, NEW gone, Inv(r, w, h, pl, ex, gone),
         NEW w2, NEW h2, NEW pl2, NEW gone2, Threads(w2, h2, pl2),
         GivenUp(r, w, h, pl, w2, h2, pl2),
         \A e \in Controller : \A n \in Waits(r, e) :
           n.op = "destroy" /\ n.waiter # NULL => w2[n.waiter] = "waiting",
         Undone(r, w2, h2, pl2), Hands(r, w2, h2, pl2),
         gone2 = gone \/ (gone = NULL /\ \A p \in Plugin : p \in Part /\ p[1] = gone2 => pl2[p] = NULL)
  PROVE  Inv(r, w2, h2, pl2, ex, gone2)
<1>1. r \in State /\ Occupants(r) /\ Begun(r) /\ SignalsKept(r) /\ Incarnates(r) /\ Waiters(r) /\ Exits(r, ex)
  BY DEF Inv
<1>2. \A p \in Plugin : pl2[p] = pl[p] \/ (pl2[p] = NULL /\ r.slot[p].capsule # NULL)
  BY DEF GivenUp
<1>3. \A t \in Part : t[1] # NULL
  BY Names
<1>4. Homes(r, gone2)
  BY <1>3 DEF Inv, Homes
<1>5. Imports(r, w2, h2, pl2)
  <2>1. Imports(r, w, h, pl)
    BY DEF Inv
  <2>2. \A e, n : Importable(r, pl, e, n) => Importable(r, pl2, e, n)
    BY <1>2 DEF Importable
  <2> QED BY <2>1, <2>2 DEF Imports, GivenUp
<1>6. Deports(r, pl2)
  <2>1. Deports(r, pl)
    BY DEF Inv
  <2> QED BY <1>2, <2>1 DEF Deports
<1>7. PartDestroys(r, gone2)
  <2>1. PartDestroys(r, gone)
    BY DEF Inv
  <2> QED BY <1>3, <2>1 DEF PartDestroys
<1>8. TopDestroys(r, w2, pl2)
  <2>1. TopDestroys(r, w, pl)
    BY DEF Inv
  <2>2. \A e \in Controller : \A n \in Waits(r, e) : n.op = "destroy" /\ n.waiter # NULL =>
          Leaves(r, pl2, e, r.slot[n.slot].capsule, n)
    <3> SUFFICES ASSUME NEW e \in Controller, NEW n \in Waits(r, e), n.op = "destroy", n.waiter # NULL
                 PROVE  Leaves(r, pl2, e, r.slot[n.slot].capsule, n)
      OBVIOUS
    <3> DEFINE x == r.slot[n.slot].capsule
    <3>1. Leaves(r, pl, e, x, n) /\ x # NULL
      BY <2>1 DEF TopDestroys
    <3> HIDE DEF x
    <3>2. Leaves(r, pl2, e, x, n)
      BY <1>2, <3>1 DEF Leaves
    <3> QED BY <3>2 DEF x
  <2> QED BY <2>1, <2>2 DEF TopDestroys
<1>9. Plans(r, w2, h2, pl2, gone2)
  <2>1. Plans(r, w, h, pl, gone)
    BY DEF Inv
  <2>2. \A t \in Plugin : pl2[t] # NULL => pl2[t] = pl[t]
    BY <1>2
  <2>3. \A t \in Plugin : t \in Part /\ pl2[t] # NULL => r.home[t[1]] # NULL /\ t[1] # gone2
    BY <2>1, <2>2 DEF Plans
  <2>4. \A e \in Controller : w[e] = "import" => w2[e] = "import" /\ h2[e] = h[e]
    BY DEF GivenUp
  <2> QED BY <2>1, <2>2, <2>3, <2>4 DEF Plans
<1> QED BY <1>1, <1>4, <1>5, <1>6, <1>7, <1>8, <1>9 DEF Inv

\* A capsule is made.
LEMMA MadeInv ==
  ASSUME NEW r, NEW q, NEW w, NEW h, NEW pl, NEW ex, Inv(r, w, h, pl, ex, NULL),
         NEW s \in OptSlot, NEW x \in Capsule, NEW d \in Controller,
         r.slot[s].capsule = NULL, r.home[x] = NULL,
         \A t \in Part : t[1] = x => ~ r.slot[t].exists,
         Born(r, q, s, x, d)
  PROVE  Inv(q, w, h, pl, ex, NULL)
<1>1. r \in State /\ q \in State
  BY DEF Inv, Born
<1>2. /\ s \in Slot /\ s \notin Plugin /\ s \notin PlugSlot /\ s \notin Part /\ s # NULL /\ x # NULL
      /\ \A t \in Plugin : t \in Slot /\ t # s
      /\ \A t \in Part : t[1] \in Capsule /\ t \in Slot /\ t # s /\ t[1] # NULL
      /\ \A t \in PlugSlot : t \notin Part
  BY Names
<1>3. /\ q.home[x] = s /\ \A y \in Capsule : y # x => q.home[y] = r.home[y]
      /\ q.slot[s].exists = r.slot[s].exists /\ q.slot[s].capsule = x /\ q.slot[s].controller = d
      /\ q.initialized = r.initialized /\ q.signals = r.signals /\ q.fatal = r.fatal
  BY DEF Born
<1>4. \A t \in Part : t[1] = x =>
        /\ ~ r.slot[t].exists
        /\ q.slot[t].exists /\ q.slot[t].controller \in Controller /\ ~ q.slot[t].mapped
        /\ q.slot[t].capsule = IF t \in Plugin THEN NULL ELSE t
  BY DEF Born
<1>5. \A t \in Slot : t # s /\ ~ (t \in Part /\ t[1] = x) => q.slot[t] = r.slot[t]
  BY DEF Born
<1>6. \A e : Line(q, e) = Line(r, e)
  BY DEF Born, Line
<1>7. \A e \in Controller :
        /\ Waits(q, e) = Waits(r, e)
        /\ \A a, b : Ahead(q, e, a, b) <=> Ahead(r, e, a, b)
        /\ \A n : Single(q, e, n) <=> Single(r, e, n)
  BY <1>6 DEF Waits, Ahead, Single
<1>8. \A t \in Slot : r.slot[t].exists /\ t # s => q.slot[t] = r.slot[t]
  BY <1>4, <1>5
<1>9. \A y \in Capsule : /\ r.home[y] \in OptSlot \cup {NULL}
                         /\ r.home[y] # NULL =>
                              /\ r.home[y] \in Slot /\ r.home[y] # s /\ y # x
                              /\ q.home[y] = r.home[y] /\ q.slot[r.home[y]] = r.slot[r.home[y]]
  <2>1. \A y \in Capsule : r.home[y] # NULL => r.slot[r.home[y]].capsule = y /\ y # NULL
    BY Names DEF Inv, Homes
  <2>2. \A y \in Capsule : r.home[y] \in OptSlot \cup {NULL}
    BY <1>1, StateIs
  <2>3. \A t \in OptSlot : t \in Slot /\ t \notin Part
    BY Names
  <2>4. \A y \in Capsule : r.home[y] # NULL => r.home[y] \in Slot /\ r.home[y] # s /\ r.home[y] \notin Part
    BY <2>1, <2>2, <2>3
  <2>5. \A y \in Capsule : r.home[y] # NULL => q.slot[r.home[y]] = r.slot[r.home[y]]
    BY <1>5, <2>4
  <2>6. \A y \in Capsule : r.home[y] # NULL => y # x /\ q.home[y] = r.home[y]
    BY <1>3
  <2> QED BY <2>2, <2>4, <2>5, <2>6
<1>10. \A k \in Instance : Alive(r, k) => Alive(q, k) /\ RunsOn(q, k) = RunsOn(r, k)
  <2>1. ASSUME NEW k \in Capsule, Alive(r, k) PROVE Alive(q, k) /\ RunsOn(q, k) = RunsOn(r, k)
    BY <1>9, <2>1 DEF Alive, RunsOn
  <2>2. ASSUME NEW k \in Instance, k \notin Capsule, Alive(r, k)
        PROVE  Alive(q, k) /\ RunsOn(q, k) = RunsOn(r, k)
    <3>1. k \in Part /\ k \notin Plugin /\ k # NULL
      BY <2>2, Names
    <3>2. r.slot[k].capsule = k
      BY <2>2 DEF Alive
    <3>3. r.slot[k].exists
      BY <3>1, <3>2 DEF Inv, Homes
    <3>4. q.slot[k] = r.slot[k]
      BY <1>2, <1>8, <3>1, <3>3
    <3> QED BY <2>2, <3>2, <3>4 DEF Alive, RunsOn
  <2> QED BY <2>1, <2>2
<1>11. Homes(q, NULL)
  <2>1. Homes(r, NULL)
    BY DEF Inv
  <2>2. \A t \in OptSlot \cup PlugSlot : t \in Slot /\ t \notin Part
    BY Names
  <2>3. \A t \in OptSlot \cup PlugSlot : q.slot[t].exists
    BY <1>3, <1>5, <2>1, <2>2 DEF Homes
  <2>4. \A t \in Slot : q.slot[t].exists => q.slot[t].controller \in Controller
    BY <1>3, <1>4, <1>5, <2>1 DEF Homes
  <2>5. \A y \in Capsule : q.home[y] # NULL => q.slot[q.home[y]].capsule = y
    BY <1>3, <1>9, <2>1 DEF Homes
  <2>6. \A t \in OptSlot : q.slot[t].capsule # NULL =>
          q.slot[t].capsule \in Capsule /\ q.home[q.slot[t].capsule] = t
    <3> SUFFICES ASSUME NEW t \in OptSlot, q.slot[t].capsule # NULL
                 PROVE  q.slot[t].capsule \in Capsule /\ q.home[q.slot[t].capsule] = t
      OBVIOUS
    <3>1. CASE t = s
      BY <1>3, <3>1
    <3>2. CASE t # s
      <4>1. q.slot[t] = r.slot[t]
        BY <1>5, <2>2, <3>2
      <4>2. r.slot[t].capsule \in Capsule /\ r.home[r.slot[t].capsule] = t /\ t # NULL
        BY <2>1, <4>1, Names DEF Homes
      <4> QED BY <1>9, <4>1, <4>2
    <3> QED BY <3>1, <3>2
  <2>7. \A t \in Part : q.home[t[1]] # NULL /\ t[1] # NULL => q.slot[t].exists
    BY <1>2, <1>3, <1>4, <1>5, <2>1 DEF Homes
  <2>8. \A t \in Part : t \notin Plugin => q.slot[t].capsule = IF q.slot[t].exists THEN t ELSE NULL
    BY <1>2, <1>4, <1>5, <2>1 DEF Homes
  <2> QED BY <2>3, <2>4, <2>5, <2>6, <2>7, <2>8 DEF Homes
<1>12. \A t \in Plugin : r.slot[t].capsule # NULL =>
         r.slot[t].exists /\ r.slot[t].capsule \in Capsule /\ r.home[r.slot[t].capsule] # NULL
  BY DEF Inv, Occupants
<1>13. \A t \in Plugin : q.slot[t].capsule # NULL => r.slot[t].exists /\ q.slot[t] = r.slot[t]
  BY <1>2, <1>4, <1>5, <1>12
<1>14. Occupants(q)
  <2>1. Occupants(r)
    BY DEF Inv
  <2> SUFFICES ASSUME NEW t \in Plugin
               PROVE  /\ q.slot[t].mapped <=> q.slot[t].capsule # NULL
                      /\ q.slot[t].capsule # NULL =>
                           /\ q.slot[t].exists /\ q.slot[t].capsule \in Capsule
                           /\ q.home[q.slot[t].capsule] # NULL
                           /\ q.slot[t].controller = q.slot[q.home[q.slot[t].capsule]].controller
    BY DEF Occupants
  <2>2. CASE t \in Part /\ t[1] = x
    BY <1>4, <2>2
  <2>3. CASE ~ (t \in Part /\ t[1] = x)
    <3>1. q.slot[t] = r.slot[t]
      BY <1>2, <1>5, <2>3
    <3> DEFINE y == r.slot[t].capsule
    <3>2. /\ r.slot[t].mapped <=> y # NULL
          /\ y # NULL => /\ r.slot[t].exists /\ y \in Capsule /\ r.home[y] # NULL
                         /\ r.slot[t].controller = r.slot[r.home[y]].controller
      BY <2>1 DEF Occupants
    <3> HIDE DEF y
    <3>3. y # NULL => q.home[y] # NULL /\ r.slot[t].controller = q.slot[q.home[y]].controller
      BY <1>9, <3>2
    <3> QED BY <3>1, <3>2, <3>3 DEF y
  <2> QED BY <2>2, <2>3
<1>15. Begun(q)
  <2>1. Begun(r) /\ r.initialized \subseteq Instance
    BY <1>1, StateIs DEF Inv
  <2> QED BY <1>3, <1>10, <2>1 DEF Begun
<1>16. SignalsKept(q)
  <2>1. SignalsKept(r) /\ \A e \in Controller : \A g \in r.signals[e] : g[1] \in Slot /\ g[2] # NULL
    BY <1>1, StateIs, Names DEF Inv
  <2> QED BY <1>3, <1>8, <2>1 DEF SignalsKept
<1>17. Incarnates(q)
  <2>1. Incarnates(r)
    BY DEF Inv
  <2> QED BY <1>7, <1>10, <2>1 DEF Incarnates
<1>18. Imports(q, w, h, pl)
  <2>1. Imports(r, w, h, pl)
    BY DEF Inv
  <2>2. \A e, n : Importable(r, pl, e, n) => Importable(q, pl, e, n)
    BY <1>2, <1>8, <1>9 DEF Importable
  <2>3. \A e \in Controller : \A n \in Waits(q, e) : n.op = "import" =>
          Importable(q, pl, e, n) /\ Single(q, e, n)
    BY <1>7, <2>1, <2>2 DEF Imports
  <2>4. \A e \in Controller : w[e] = "import" =>
          h[e] \in Command /\ h[e].op = "import" /\ Importable(q, pl, e, h[e])
          /\ h[e] \notin Waits(q, e)
    <3> SUFFICES ASSUME NEW e \in Controller, w[e] = "import", NEW n, n = h[e]
                 PROVE  n \in Command /\ n.op = "import" /\ Importable(q, pl, e, n) /\ n \notin Waits(q, e)
      OBVIOUS
    <3>1. n \in Command /\ n.op = "import" /\ Importable(r, pl, e, n) /\ n \notin Waits(r, e)
      BY <2>1 DEF Imports
    <3>2. Importable(q, pl, e, n)
      BY <2>2, <3>1
    <3> QED BY <1>7, <3>1, <3>2
  <2> QED BY <2>3, <2>4 DEF Imports
<1>19. Deports(q, pl)
  <2>1. Deports(r, pl)
    BY DEF Inv
  <2>2. \A e \in Controller : \A n \in Waits(r, e) : n.op = "deport" =>
          n.slot \in Slot /\ n.slot # s /\ r.slot[n.slot].exists
    BY <1>2, <1>12, <2>1, Names DEF Deports
  <2> QED BY <1>7, <1>8, <2>1, <2>2 DEF Deports
<1>20. PartDestroys(q, NULL)
  <2>1. PartDestroys(r, NULL)
    BY DEF Inv
  <2> SUFFICES ASSUME NEW c \in Controller, NEW n \in Waits(q, c), n.op = "destroy", n.waiter = NULL
               PROVE  /\ n.slot \in Part /\ q.slot[n.slot].exists /\ q.slot[n.slot].controller = c
                      /\ q.home[n.slot[1]] = NULL \/ n.slot[1] = NULL
                      /\ n.slot \in Plugin /\ q.slot[n.slot].capsule # NULL =>
                           Ahead(q, c, Msg("deport", n.slot, q.slot[n.slot].capsule, NULL), n)
    BY DEF PartDestroys
  <2>2. n \in Waits(r, c)
    BY <1>7
  <2>3. /\ n.slot \in Part /\ r.slot[n.slot].exists /\ r.slot[n.slot].controller = c
        /\ r.home[n.slot[1]] = NULL
        /\ n.slot \in Plugin /\ r.slot[n.slot].capsule # NULL =>
             Ahead(r, c, Msg("deport", n.slot, r.slot[n.slot].capsule, NULL), n)
    BY <1>2, <2>1, <2>2 DEF PartDestroys
  <2>4. q.slot[n.slot] = r.slot[n.slot] /\ q.home[n.slot[1]] = NULL
    BY <1>2, <1>3, <1>4, <1>5, <2>3
  <2> QED BY <1>7, <2>3, <2>4
<1>21. TopDestroys(q, w, pl)
  <2>1. TopDestroys(r, w, pl)
    BY DEF Inv
  <2> SUFFICES ASSUME NEW e \in Controller, NEW n \in Waits(q, e), n.op = "destroy", n.waiter # NULL
               PROVE  /\ n.slot \in OptSlot /\ q.slot[n.slot].controller = e
                      /\ q.slot[n.slot].capsule # NULL
                      /\ w[n.waiter] = "waiting"
                      /\ Leaves(q, pl, e, q.slot[n.slot].capsule, n)
    BY DEF TopDestroys
  <2> DEFINE y == r.slot[n.slot].capsule
  <2>2. n \in Waits(r, e)
    BY <1>7
  <2>3. /\ n.slot \in OptSlot /\ r.slot[n.slot].controller = e /\ y # NULL /\ w[n.waiter] = "waiting"
        /\ Leaves(r, pl, e, y, n)
    BY <2>1, <2>2 DEF TopDestroys
  <2>4. q.slot[n.slot] = r.slot[n.slot]
    BY <1>5, <2>3, Names
  <2> HIDE DEF y
  <2>5. Leaves(q, pl, e, y, n)
    BY <1>7, <1>13, <2>3 DEF Leaves
  <2> QED BY <2>3, <2>4, <2>5 DEF y
<1>22. Waiters(q)
  BY <1>7 DEF Inv, Waiters
<1>23. Plans(q, w, h, pl, NULL)
  <2>1. Plans(r, w, h, pl, NULL)
    BY DEF Inv
  <2> SUFFICES ASSUME NEW t \in Plugin, pl[t] # NULL
               PROVE  /\ t \in Part => q.home[t[1]] # NULL /\ t[1] # NULL
                      /\ \/ q.slot[t].capsule = pl[t]
                         \/ \E e \in Controller : LET m == Msg("import", t, pl[t], NULL)
                                 IN m \in Waits(q, e) \/ (w[e] = "import" /\ h[e] = m)
    BY DEF Plans
  <2> DEFINE m == Msg("import", t, pl[t], NULL)
  <2>2. /\ t \in Part => r.home[t[1]] # NULL
        /\ \/ r.slot[t].capsule = pl[t]
           \/ \E e \in Controller : m \in Waits(r, e) \/ (w[e] = "import" /\ h[e] = m)
    BY <2>1 DEF Plans
  <2> HIDE DEF m
  <2>3. t \in Part => t[1] # x
    BY <2>2
  <2>4. q.slot[t] = r.slot[t]
    BY <1>2, <1>5, <2>3
  <2>5. t \in Part => q.home[t[1]] # NULL /\ t[1] # NULL
    BY <1>2, <1>9, <2>2
  <2>6. \/ q.slot[t].capsule = pl[t]
        \/ \E e \in Controller : m \in Waits(q, e) \/ (w[e] = "import" /\ h[e] = m)
    BY <1>7, <2>2, <2>4
  <2> QED BY <2>5, <2>6 DEF m
<1>24. Undone(q, w, h, pl)
  <2>1. \A t \in PlugSlot : q.slot[t] = r.slot[t] /\ r.slot[t].controller \in Controller
    BY <1>2, <1>5, Names DEF Inv, Homes
  <2>2. Undone(r, w, h, pl)
    BY DEF Inv
  <2> QED BY <1>7, <2>1, <2>2 DEF Undone
<1>25. Hands(q, w, h, pl)
  <2>1. Hands(r, w, h, pl)
    BY DEF Inv
  <2>2. \A t \in Part : r.home[t[1]] # NULL =>
          q.home[t[1]] = r.home[t[1]] /\ q.slot[q.home[t[1]]] = r.slot[r.home[t[1]]]
    BY <1>2, <1>9
  <2> QED BY <2>1, <2>2 DEF Hands
<1>26. Exits(q, ex)
  BY <1>3, <1>7 DEF Inv, Exits
<1>27. Threads(w, h, pl)
  BY DEF Inv
<1> QED BY <1>1, <1>11, <1>14, <1>15, <1>16, <1>17, <1>18, <1>19, <1>20, <1>21, <1>22, <1>23, <1>24,
           <1>25, <1>26, <1>27 DEF Inv

\* The run loop takes an import.
LEMMA TakeImportInv ==
  ASSUME NEW r, NEW q, NEW w, NEW h, NEW pl, NEW ex, Inv(r, w, h, pl, ex, NULL),
         q \in State, SameButCommands(r, q), NEW c \in Controller, w[c] = "loop",
         NEW m \in Command, m.op = "import", Took(r, q, c, m),
         NEW w2, NEW h2, w2 = [w EXCEPT ![c] = "import"], h2 = [h EXCEPT ![c] = m]
  PROVE  Inv(q, w2, h2, pl, ex, NULL)
<1>1. /\ q.slot = r.slot /\ q.home = r.home /\ q.initialized = r.initialized
      /\ q.signals = r.signals /\ q.fatal = r.fatal
  BY DEF SameButCommands
<1>2. m \in Waits(r, c)
  BY DEF Took
<1>3. \A e \in Controller : Waits(q, e) \subseteq Waits(r, e)
  BY DEF Took
<1>4. \A e \in Controller : \A n \in Waits(r, e) : n \in Waits(q, e) \/ (e = c /\ n = m)
  BY DEF Took
<1>5. \A e \in Controller : \A a, b : Ahead(r, e, a, b) /\ a.op = "deport" => Ahead(q, e, a, b)
  BY DEF Took
<1>6. \A e \in Controller : \A n : Single(r, e, n) => Single(q, e, n)
  BY DEF Took
<1>7. /\ w2[c] = "import" /\ h2[c] = m
      /\ \A e \in Controller : e # c => w2[e] = w[e] /\ h2[e] = h[e]
      /\ Threads(w2, h2, pl)
  BY DEF Inv, Threads
<1>8. \A e \in Controller : w[e] # "loop" => e # c
  OBVIOUS
<1>9. Homes(q, NULL) /\ Occupants(q)
  BY <1>1 DEF Inv, Homes, Occupants
<1>10. Begun(q) /\ SignalsKept(q)
  BY <1>1 DEF Inv, Begun, Alive, SignalsKept
<1>11. Incarnates(q)
  <2>1. \A i : (Alive(q, i) <=> Alive(r, i)) /\ RunsOn(q, i) = RunsOn(r, i)
    BY <1>1 DEF Alive, RunsOn
  <2>2. Incarnates(r)
    BY DEF Inv
  <2> QED BY <1>3, <2>1, <2>2 DEF Incarnates
<1>12. Imports(q, w2, h2, pl)
  <2>1. Imports(r, w, h, pl)
    BY DEF Inv
  <2>2. \A e, n : Importable(q, pl, e, n) <=> Importable(r, pl, e, n)
    BY <1>1 DEF Importable
  <2>3. \A e \in Controller : \A n \in Waits(q, e) : n.op = "import" =>
          Importable(q, pl, e, n) /\ Single(q, e, n)
    BY <1>3, <1>6, <2>1, <2>2 DEF Imports
  <2>4. ASSUME NEW e \in Controller, w2[e] = "import", NEW n, n = h2[e]
        PROVE  n \in Command /\ n.op = "import" /\ Importable(q, pl, e, n) /\ n \notin Waits(q, e)
    <3>1. CASE e = c
      <4>1. n = m
        BY <1>7, <2>4, <3>1
      <4>2. Importable(r, pl, c, m) /\ Single(r, c, m)
        BY <1>2, <2>1 DEF Imports
      <4>3. m \notin Waits(q, c)
        BY <4>2 DEF Took
      <4> QED BY <2>2, <3>1, <4>1, <4>2, <4>3
    <3>2. CASE e # c
      <4>1. w[e] = "import" /\ n = h[e]
        BY <1>7, <2>4, <3>2
      <4>2. n \in Command /\ n.op = "import" /\ Importable(r, pl, e, n) /\ n \notin Waits(r, e)
        BY <2>1, <4>1 DEF Imports
      <4> QED BY <1>3, <2>2, <4>2
    <3> QED BY <3>1, <3>2
  <2> QED BY <2>3, <2>4 DEF Imports
<1>13. Deports(q, pl)
  <2>1. Deports(r, pl)
    BY DEF Inv
  <2> QED BY <1>1, <1>3, <2>1 DEF Deports
<1>14. PartDestroys(q, NULL)
  <2>1. PartDestroys(r, NULL)
    BY DEF Inv
  <2>2. \A t, k : Msg("deport", t, k, NULL).op = "deport"
    BY DEF Msg
  <2> QED BY <1>1, <1>3, <1>5, <2>1, <2>2 DEF PartDestroys
<1>15. TopDestroys(q, w2, pl)
  <2>1. TopDestroys(r, w, pl)
    BY DEF Inv
  <2> SUFFICES ASSUME NEW e \in Controller, NEW n \in Waits(q, e), n.op = "destroy", n.waiter # NULL
               PROVE  /\ n.slot \in OptSlot /\ q.slot[n.slot].controller = e
                      /\ q.slot[n.slot].capsule # NULL
                      /\ w2[n.waiter] = "waiting"
                      /\ Leaves(q, pl, e, q.slot[n.slot].capsule, n)
    BY DEF TopDestroys
  <2> DEFINE y == r.slot[n.slot].capsule
  <2>2. n \in Waits(r, e) /\ n \in Command
    BY <1>3, StateIs DEF Inv
  <2>3. /\ n.slot \in OptSlot /\ r.slot[n.slot].controller = e /\ y # NULL /\ w[n.waiter] = "waiting"
        /\ Leaves(r, pl, e, y, n)
    BY <2>1, <2>2 DEF TopDestroys
  <2>4. w2[n.waiter] = "waiting"
    BY <1>7, <2>2, <2>3, Commands
  <2>5. \A t, k : Msg("deport", t, k, NULL).op = "deport"
    BY DEF Msg
  <2> HIDE DEF y
  <2>6. Leaves(q, pl, e, y, n)
    BY <1>1, <1>5, <2>3, <2>5 DEF Leaves
  <2> QED BY <1>1, <2>3, <2>4, <2>6 DEF y
<1>16. Waiters(q)
  <2>1. Waiters(r)
    BY DEF Inv
  <2> QED BY <1>3, <2>1 DEF Waiters
<1>17. Plans(q, w2, h2, pl, NULL)
  <2>1. Plans(r, w, h, pl, NULL)
    BY DEF Inv
  <2>2. \A k, e : e \in Controller /\ w[e] = "import" /\ h[e] = k => w2[e] = "import" /\ h2[e] = k
    BY <1>7, <1>8
  <2>3. \A k, e : e \in Controller /\ k \in Waits(r, e) =>
          k \in Waits(q, e) \/ (w2[e] = "import" /\ h2[e] = k)
    BY <1>4, <1>7
  <2> QED BY <1>1, <2>1, <2>2, <2>3 DEF Plans
<1>18. Undone(q, w2, h2, pl)
  <2>1. \A t \in PlugSlot : r.slot[t].controller \in Controller /\ Owner[t] \in Controller
    BY Names DEF Inv, Homes
  <2>2. Undone(r, w, h, pl)
    BY DEF Inv
  <2>3. \A t, k : Msg("deport", t, k, NULL).op = "deport"
    BY DEF Msg
  <2>4. \A e \in Controller : w[e] = "deport" => w2[e] = "deport" /\ h2[e] = h[e]
    BY <1>7, <1>8
  <2>5. \A e \in Controller : \A n \in Waits(r, e) : n.op = "deport" => n \in Waits(q, e)
    BY <1>4
  <2> QED BY <1>1, <2>1, <2>2, <2>3, <2>4, <2>5 DEF Undone
<1>19. Hands(q, w2, h2, pl)
  <2>1. Hands(r, w, h, pl)
    BY DEF Inv
  <2>2. \A e \in Controller : w2[e] = "deport" => w[e] = "deport" /\ h2[e] = h[e]
    BY <1>7
  <2> QED BY <1>1, <2>1, <2>2 DEF Hands
<1>20. Exits(q, ex)
  BY <1>1, <1>3 DEF Inv, Exits
<1> QED BY <1>7, <1>9, <1>10, <1>11, <1>12, <1>13, <1>14, <1>15, <1>16, <1>17, <1>18, <1>19, <1>20 DEF Inv

-----------------------------------------------------------------------------
(* The operators.                                                          *)

\* The loops over the parts of a capsule.
PartsDeport(r, c, x) ==
  LET fixed == IF "fixed" \in Roles THEN RequestDeport(r, c, <<x, "fixed">>) ELSE r
  IN IF "plug" \in Roles THEN RequestDeport(fixed, c, <<x, "plug">>) ELSE fixed

PartsDestroy(r, c, x) ==
  LET fixed == IF "fixed" \in Roles THEN RequestDestroyPart(r, c, <<x, "fixed">>) ELSE r
  IN IF "plug" \in Roles THEN RequestDestroyPart(fixed, c, <<x, "plug">>) ELSE fixed

PartsIncarnate(r, c, x) ==
  LET fixed == IF "fixed" \in Roles THEN RequestIncarnate(r, c, <<x, "fixed">>) ELSE r
  IN IF "plug" \in Roles THEN RequestIncarnate(fixed, c, <<x, "plug">>) ELSE fixed

LEMMA DestroyTopIs ==
  ASSUME NEW r, NEW s, r.slot[s].capsule # NULL
  PROVE  LET c == r.slot[s].controller
             x == r.slot[s].capsule
             condemned == Condemn(r, {s} \cup PartsOf(x))
         IN DestroyTop(r, s)
              = Removal(PartsDestroy(PartsDeport(condemned, c, x), c, x), s, x, Vacant(c))
BY DEF DestroyTop, EachPart, PartsDeport, PartsDestroy, Removal

LEMMA IncarnateAllIs ==
  ASSUME NEW r, NEW c, NEW x
  PROVE  IncarnateAll(r, c, x) = PartsIncarnate(RequestIncarnate(r, c, x), c, x)
BY DEF IncarnateAll, EachPart, PartsIncarnate

\* Only commands that nobody waits for have been sent.
Unwaited(r, q) ==
  \A e \in Controller : \A n \in Waits(q, e) : n \in Waits(r, e) \/ n.waiter = NULL

\* A deport is done, or asked of the controller that does it.
Asked(r, q, c, p) ==
  /\ q.home = r.home /\ Unwaited(r, q)
  /\ \A t \in Slot : t # p => q.slot[t] = r.slot[t]
  /\ q.slot[p].exists = r.slot[p].exists /\ q.slot[p].controller = r.slot[p].controller
  /\ p \in Plugin => \/ q.slot[p].capsule = NULL
                     \/ /\ q.slot[p].capsule = r.slot[p].capsule /\ q.slot[p].controller # c
                        /\ Msg("deport", p, q.slot[p].capsule, NULL) \in Waits(q, q.slot[p].controller)
  /\ p \notin Plugin => q = r

LEMMA RequestDeportInv ==
  ASSUME NEW r, NEW w, NEW h, NEW pl, NEW ex, NEW gone, Inv(r, w, h, pl, ex, gone),
         NEW c \in Controller, NEW p \in Slot, p \in Plugin => pl[p] = NULL,
         p \in PlugSlot => Owner[p] = c
  PROVE  LET q == RequestDeport(r, c, p)
         IN Inv(q, w, h, pl, ex, gone) /\ Asked(r, q, c, p)
<1> DEFINE q == RequestDeport(r, c, p)
           i == r.slot[p].capsule
           d == r.slot[p].controller
<1>1. r \in State
  BY DEF Inv
<1>2. CASE p \notin Plugin \/ i = NULL
  <2>1. q = r
    BY <1>2 DEF RequestDeport
  <2>2. Unwaited(r, q)
    BY <2>1 DEF Unwaited
  <2> QED BY <1>2, <2>1, <2>2 DEF Asked
<1>3. CASE p \in Plugin /\ i # NULL
  <2>1. /\ i \in Capsule /\ r.slot[p].exists /\ r.slot[p].mapped
    BY <1>3 DEF Inv, Occupants
  <2>2. d \in Controller
    BY <2>1 DEF Inv, Homes
  <2>3. CASE d = c
    <3>1. q = ControllerDeport(r, p, TRUE)
      BY <1>3, <2>3 DEF RequestDeport
    <3> HIDE DEF q
    <3>2. Emptied(r, q, p)
      BY <1>1, <1>3, <2>1, <2>2, <3>1, ControllerDeportIs
    <3>3. Inv(q, w, h, pl, ex, gone)
      BY <1>3, <3>2, DeportInv
    <3>4. /\ q.slot[p].exists = r.slot[p].exists /\ q.slot[p].controller = r.slot[p].controller
          /\ q.slot[p].capsule = NULL
      <4>1. r.slot[p] \in SlotState
        BY <1>1 DEF State
      <4>2. q.slot[p] = [r.slot[p] EXCEPT !.capsule = NULL, !.mapped = FALSE]
        BY <3>2 DEF Emptied
      <4> QED BY <4>1, <4>2 DEF SlotState
    <3>5. Unwaited(r, q)
      BY <3>2 DEF Emptied, Cleared, Purged, Unwaited
    <3>6. Asked(r, q, c, p)
      BY <1>3, <3>2, <3>4, <3>5 DEF Emptied, Cleared, Asked
    <3> QED BY <3>3, <3>6 DEF q
  <2>4. CASE d # c
    <3> DEFINE m == Msg("deport", p, i, NULL)
    <3>1. q = Enqueue(r, c, d, m)
      BY <1>3, <2>4 DEF RequestDeport
    <3>2. /\ m \in Command /\ m.op = "deport" /\ m.slot = p /\ m.capsule = i /\ m.waiter = NULL
      <4>1. p \in Slot \cup {NULL} /\ i \in Instance \cup {NULL} /\ NULL \in Controller \cup {NULL}
        BY <2>1, Names
      <4> QED BY <4>1, Commands
    <3> HIDE DEF m
    <3>3. q \in State /\ SameButCommands(r, q) /\ Grown(r, q, d, m, c # d)
      BY <1>1, <2>2, <3>1, <3>2, EnqueueIs
    <3> HIDE DEF q
    <3>4. More(r, q, {d}, m, c # d)
      BY <3>3, MoreIs
    <3>5. Askable(r, w, pl, ex, gone, d, m, c # d)
      <4>1. p \in PlugSlot => Owner[p] # d
        BY <2>4
      <4> QED BY <1>3, <2>1, <3>2, <4>1 DEF Askable
    <3>6. Inv(q, w, h, pl, ex, gone)
      <4>1. {d} \in SUBSET Controller /\ {d} # {}
        BY <2>2
      <4> QED BY <3>2, <3>3, <3>4, <3>5, <4>1, AskedInv
    <3>7. m \in Waits(q, d)
      BY <2>2, <3>3 DEF Grown
    <3>8. Unwaited(r, q)
      BY <3>2, <3>3 DEF Grown, Unwaited
    <3>9. Asked(r, q, c, p)
      BY <1>3, <2>4, <3>3, <3>7, <3>8 DEF SameButCommands, Asked, m
    <3> QED BY <3>6, <3>9 DEF q
  <2> QED BY <2>3, <2>4
<1> QED BY <1>2, <1>3
\* The destruction of part p leaves the rest.
Dropped(r, q, p) ==
  /\ Unwaited(r, q)
  /\ \A x \in Capsule : q.home[x] = r.home[x]
  /\ \A t \in Slot : t # p => q.slot[t] = r.slot[t]
  /\ q.slot[p].capsule \in {r.slot[p].capsule, NULL}
  /\ \A e \in Controller : \A n \in Waits(r, e) :
       n.slot # p /\ n.op # "incarnate" => n \in Waits(q, e)

LEMMA DestroyPartInv ==
  ASSUME NEW r, NEW w, NEW h, NEW pl, NEW ex, NEW gone, Inv(r, w, h, pl, ex, gone),
         NEW p \in Part, r.slot[p].exists, r.home[p[1]] = NULL \/ p[1] = gone,
         p \in Plugin => r.slot[p].capsule = NULL
  PROVE  LET q == DestroyPart(r, p)
         IN Inv(q, w, h, pl, ex, gone) /\ Dropped(r, q, p)
<1> DEFINE i == r.slot[p].capsule
           q == DestroyPart(r, p)
<1>1. r \in State /\ p \in Slot /\ r.slot[p].controller \in Controller
  BY Names DEF Inv, Homes
<1>2. Gone \in SlotState
  BY DEF Gone, Vacant, SlotState
<1>3. q = Removal(r, p, i, Gone)
  BY DEF DestroyPart, Removal
<1> HIDE DEF q
<1>4. Cut(r, q, p, i, Gone)
  BY <1>1, <1>2, <1>3, RemovalIs
<1>5. Inv(q, w, h, pl, ex, gone)
  BY <1>4, PartInv
<1>6. i \notin Capsule
  <2>1. p \notin Plugin => i = p
    BY DEF Inv, Homes
  <2>2. p \notin Capsule /\ NULL \notin Capsule
    BY Names
  <2> QED BY <2>1, <2>2
<1>7. \A x \in Capsule : q.home[x] = r.home[x]
  BY <1>4, <1>6 DEF Cut
<1>8. \A t \in Slot : t # p => q.slot[t] = r.slot[t]
  BY <1>4 DEF Cut, Cleared
<1>9. ASSUME NEW e \in Controller, NEW n \in Waits(r, e), n.slot # p, n.op # "incarnate"
      PROVE  n \in Waits(q, e)
  <2>1. ~ Matches(n, p, i, TRUE)
    BY <1>9 DEF Matches
  <2> QED BY <1>4, <2>1 DEF Cut, Cleared, Purged
<1>10. Unwaited(r, q)
  BY <1>4 DEF Cut, Cleared, Purged, Unwaited
<1>11. q.slot[p].capsule = NULL
  BY <1>4 DEF Cut, Gone, Vacant
<1>12. Dropped(r, q, p)
  BY <1>7, <1>8, <1>9, <1>10, <1>11 DEF Dropped
<1> QED BY <1>5, <1>12 DEF q

LEMMA RequestDestroyPartInv ==
  ASSUME NEW r, NEW w, NEW h, NEW pl, NEW ex, NEW gone, Inv(r, w, h, pl, ex, gone),
         NEW c \in Controller, NEW p \in Part, r.slot[p].exists,
         r.home[p[1]] = NULL \/ p[1] = gone,
         p \in Plugin /\ r.slot[p].capsule # NULL =>
           /\ r.slot[p].controller # c
           /\ Msg("deport", p, r.slot[p].capsule, NULL) \in Waits(r, r.slot[p].controller)
  PROVE  LET q == RequestDestroyPart(r, c, p)
         IN Inv(q, w, h, pl, ex, gone) /\ Dropped(r, q, p)
<1> DEFINE d == r.slot[p].controller
           q == RequestDestroyPart(r, c, p)
<1>1. r \in State /\ p \in Slot /\ d \in Controller
  BY Names DEF Inv, Homes
<1>2. CASE d = c
  <2>1. q = DestroyPart(r, p)
    BY <1>2 DEF RequestDestroyPart
  <2>2. p \in Plugin => r.slot[p].capsule = NULL
    BY <1>2
  <2> HIDE DEF q
  <2>3. Inv(DestroyPart(r, p), w, h, pl, ex, gone) /\ Dropped(r, DestroyPart(r, p), p)
    BY <2>2, DestroyPartInv
  <2> QED BY <2>1, <2>3 DEF q
<1>3. CASE d # c
  <2> DEFINE m == Msg("destroy", p, NULL, NULL)
  <2>1. q = Enqueue(r, c, d, m)
    BY <1>3 DEF RequestDestroyPart
  <2>2. m \in Command /\ m.op = "destroy" /\ m.slot = p /\ m.waiter = NULL
    BY <1>1, Commands
  <2> HIDE DEF m
  <2>3. q \in State /\ SameButCommands(r, q) /\ Grown(r, q, d, m, c # d)
    BY <1>1, <2>1, <2>2, EnqueueIs
  <2> HIDE DEF q
  <2>4. More(r, q, {d}, m, c # d)
    BY <2>3, MoreIs
  <2>5. Askable(r, w, pl, ex, gone, d, m, c # d)
    BY <1>3, <2>2 DEF Askable
  <2>6. Inv(q, w, h, pl, ex, gone)
    <3>1. {d} \in SUBSET Controller /\ {d} # {}
      BY <1>1
    <3> QED BY <2>2, <2>3, <2>4, <2>5, <3>1, AskedInv
  <2>7. Dropped(r, q, p)
    <3>1. \A e \in Controller : \A n \in Waits(r, e) : n \in Waits(q, e)
      BY <2>3 DEF Grown
    <3>2. Unwaited(r, q)
      BY <2>2, <2>3 DEF Grown, Unwaited
    <3> QED BY <2>3, <3>1, <3>2 DEF SameButCommands, Dropped
  <2> QED BY <2>6, <2>7 DEF q
<1> QED BY <1>2, <1>3

\* Capsule x is to go, with its parts, which are there.
Going(r, w, h, pl, ex, x, s) ==
  /\ Inv(r, w, h, pl, ex, x)
  /\ r.slot[s].capsule = x
  /\ \A p \in Plugin : pl[p] # x /\ (p \in PartsOf(x) => pl[p] = NULL) /\ r.slot[p].capsule # x

\* The parts of x are to be emptied by others.
Parting(r, c, x) ==
  \A p \in Part : p[1] = x /\ p \in Plugin /\ r.slot[p].capsule # NULL =>
    /\ r.slot[p].controller # c
    /\ Msg("deport", p, r.slot[p].capsule, NULL) \in Waits(r, r.slot[p].controller)

\* The parts of x are deported.
LEMMA PartsDeported ==
  ASSUME NEW r, NEW w, NEW h, NEW pl, NEW ex, NEW x \in Capsule, NEW s \in OptSlot,
         Going(r, w, h, pl, ex, x, s), NEW c \in Controller
  PROVE  LET q == PartsDeport(r, c, x)
         IN /\ Going(q, w, h, pl, ex, x, s) /\ Parting(q, c, x) /\ Unwaited(r, q)
            /\ q.slot[s] = r.slot[s]
            /\ \A p \in Part : q.slot[p].exists = r.slot[p].exists
<1> DEFINE fixed == <<x, "fixed">>
           plug  == <<x, "plug">>
           q     == IF "plug" \in Roles THEN RequestDeport(r, c, plug) ELSE r
<1>1. /\ \A role \in Roles : <<x, role>> \in Part
      /\ \A p \in Part : p[1] = x /\ p \in Plugin => p = plug /\ "plug" \in Roles
      /\ \A p \in Part : p \in Plugin <=> p[2] = "plug"
  BY Names
<1>2. "fixed" \in Roles => RequestDeport(r, c, fixed) = r
  <2>1. "fixed" \in Roles => fixed \notin Plugin
    BY <1>1
  <2> QED BY <2>1 DEF RequestDeport
<1>3. PartsDeport(r, c, x) = q
  BY <1>2 DEF PartsDeport
<1>4. /\ Inv(r, w, h, pl, ex, x) /\ r.slot[s].capsule = x
      /\ \A p \in Plugin : pl[p] # x /\ (p \in PartsOf(x) => pl[p] = NULL) /\ r.slot[p].capsule # x
  BY DEF Going
<1>5. Unwaited(r, r)
  BY DEF Unwaited
<1>6. CASE "plug" \notin Roles
  <2>1. q = r
    BY <1>6
  <2>2. Parting(r, c, x)
    BY <1>1, <1>6 DEF Parting
  <2> QED BY <1>3, <1>5, <2>1, <2>2
<1>7. CASE "plug" \in Roles
  <2>1. /\ plug \in Part /\ plug \in Plugin /\ plug \in Slot /\ plug \notin PlugSlot /\ plug[1] = x
        /\ plug \in PartsOf(x)
    BY <1>1, <1>7, Names
  <2>2. q = RequestDeport(r, c, plug)
    BY <1>7
  <2>3. pl[plug] = NULL
    BY <1>4, <2>1
  <2> HIDE DEF plug
  <2>4. Inv(RequestDeport(r, c, plug), w, h, pl, ex, x) /\ Asked(r, RequestDeport(r, c, plug), c, plug)
    BY <1>4, <2>1, <2>3, RequestDeportInv
  <2> HIDE DEF q
  <2>5. Inv(q, w, h, pl, ex, x) /\ Asked(r, q, c, plug)
    BY <2>2, <2>4
  <2>6. /\ Unwaited(r, q) /\ \A t \in Slot : t # plug => q.slot[t] = r.slot[t]
        /\ q.slot[plug].exists = r.slot[plug].exists
    BY <2>5 DEF Asked
  <2>7. s \in Slot /\ s # plug
    BY <2>1, Names
  <2>8. Parting(q, c, x)
    BY <1>1, <2>1, <2>5 DEF Asked, Parting
  <2>9. \A p \in Plugin : q.slot[p].capsule # x
    <3>1. q.slot[plug].capsule = NULL \/ q.slot[plug].capsule = r.slot[plug].capsule
      BY <2>1, <2>5 DEF Asked
    <3>2. x # NULL /\ \A p \in Plugin : p \in Slot
      BY Names
    <3> QED BY <1>4, <2>1, <2>6, <3>1, <3>2
  <2>10. Going(q, w, h, pl, ex, x, s)
    BY <1>4, <2>5, <2>6, <2>7, <2>9 DEF Going
  <2>11. \A p \in Part : q.slot[p].exists = r.slot[p].exists
    BY <2>6, Names
  <2> QED BY <1>3, <2>6, <2>7, <2>8, <2>10, <2>11
<1> QED BY <1>6, <1>7

\* The parts of x are destroyed.
LEMMA PartsDestroyed ==
  ASSUME NEW r, NEW w, NEW h, NEW pl, NEW ex, NEW x \in Capsule, NEW s \in OptSlot,
         Going(r, w, h, pl, ex, x, s), NEW c \in Controller, Parting(r, c, x),
         \A p \in Part : p[1] = x => r.slot[p].exists
  PROVE  LET q == PartsDestroy(r, c, x)
         IN /\ Going(q, w, h, pl, ex, x, s) /\ Unwaited(r, q) /\ q.slot[s] = r.slot[s]
<1> DEFINE fixed == <<x, "fixed">>
           plug  == <<x, "plug">>
           v     == IF "fixed" \in Roles THEN RequestDestroyPart(r, c, fixed) ELSE r
           q     == IF "plug" \in Roles THEN RequestDestroyPart(v, c, plug) ELSE v
<1>1. /\ "fixed" \in Roles => fixed \in Part /\ fixed[1] = x /\ fixed \notin Plugin /\ fixed \in Slot
      /\ "plug" \in Roles => plug \in Part /\ plug[1] = x /\ plug \in Plugin /\ plug \in Slot
      /\ fixed # plug
  BY Names
<1>2. PartsDestroy(r, c, x) = q
  BY DEF PartsDestroy
<1>3. /\ Inv(r, w, h, pl, ex, x) /\ r.slot[s].capsule = x
      /\ \A p \in Plugin : pl[p] # x /\ (p \in PartsOf(x) => pl[p] = NULL) /\ r.slot[p].capsule # x
  BY DEF Going
<1>4. s \in Slot /\ s \notin Part /\ x # NULL /\ \A p \in Plugin : p \in Slot
  BY Names
<1>5. Gone.capsule = NULL
  BY DEF Gone, Vacant
<1> HIDE DEF fixed, plug, v, q
<1>6. /\ Inv(v, w, h, pl, ex, x) /\ Unwaited(r, v)
      /\ v.slot[s] = r.slot[s]
      /\ "plug" \in Roles /\ r.slot[plug].capsule # NULL =>
           Msg("deport", plug, r.slot[plug].capsule, NULL) \in Waits(v, r.slot[plug].controller)
      /\ \A p \in Plugin : v.slot[p] = r.slot[p]
  <2>1. CASE "fixed" \notin Roles
    <3>1. v = r
      BY <2>1 DEF v
    <3> QED BY <1>1, <1>3, <3>1 DEF Unwaited, Parting
  <2>2. CASE "fixed" \in Roles
    <3>1. Inv(RequestDestroyPart(r, c, fixed), w, h, pl, ex, x)
          /\ Dropped(r, RequestDestroyPart(r, c, fixed), fixed)
      BY <1>1, <1>3, <2>2, RequestDestroyPartInv
    <3>2. Inv(v, w, h, pl, ex, x) /\ Dropped(r, v, fixed)
      BY <2>2, <3>1 DEF v
    <3>3. ASSUME "plug" \in Roles, r.slot[plug].capsule # NULL
          PROVE  Msg("deport", plug, r.slot[plug].capsule, NULL) \in Waits(v, r.slot[plug].controller)
      <4>1. /\ Msg("deport", plug, r.slot[plug].capsule, NULL).slot # fixed
            /\ Msg("deport", plug, r.slot[plug].capsule, NULL).op # "incarnate"
        BY <1>1, <3>3 DEF Msg
      <4>2. r.slot[plug].controller \in Controller
        BY <1>1, <1>3, <3>3 DEF Inv, Homes
      <4>3. Msg("deport", plug, r.slot[plug].capsule, NULL) \in Waits(r, r.slot[plug].controller)
        BY <1>1, <3>3 DEF Parting
      <4> QED BY <3>2, <4>1, <4>2, <4>3 DEF Dropped
    <3> QED BY <1>1, <1>4, <2>2, <3>2, <3>3 DEF Dropped
  <2> QED BY <2>1, <2>2
<1>7. /\ Inv(q, w, h, pl, ex, x) /\ Unwaited(r, q) /\ q.slot[s] = r.slot[s]
      /\ \A p \in Plugin : q.slot[p].capsule # x
  <2>1. CASE "plug" \notin Roles
    <3>1. q = v
      BY <2>1 DEF q
    <3> QED BY <1>3, <1>6, <3>1
  <2>2. CASE "plug" \in Roles
    <3>1. v.slot[plug] = r.slot[plug]
      BY <1>1, <1>6, <2>2
    <3>2. /\ v.slot[plug].exists
          /\ v.slot[plug].capsule # NULL =>
               /\ v.slot[plug].controller # c
               /\ Msg("deport", plug, v.slot[plug].capsule, NULL) \in Waits(v, v.slot[plug].controller)
      BY <1>1, <1>6, <2>2, <3>1 DEF Parting
    <3>3. Inv(RequestDestroyPart(v, c, plug), w, h, pl, ex, x)
          /\ Dropped(v, RequestDestroyPart(v, c, plug), plug)
      BY <1>1, <1>6, <2>2, <3>2, RequestDestroyPartInv
    <3>4. Inv(q, w, h, pl, ex, x) /\ Dropped(v, q, plug)
      BY <2>2, <3>3 DEF q
    <3>5. Unwaited(r, q)
      BY <1>6, <3>4 DEF Unwaited, Dropped
    <3>6. q.slot[s] = v.slot[s]
      BY <1>1, <1>4, <2>2, <3>4 DEF Dropped
    <3>7. q.slot[plug].capsule \in {v.slot[plug].capsule, NULL}
      BY <3>4 DEF Dropped
    <3> QED BY <1>3, <1>4, <1>6, <3>4, <3>5, <3>6, <3>7 DEF Dropped
  <2> QED BY <2>1, <2>2
<1>8. Going(q, w, h, pl, ex, x, s)
  BY <1>3, <1>7 DEF Going
<1> QED BY <1>2, <1>7, <1>8

\* Slots are condemned.
LEMMA CondemnInv ==
  ASSUME NEW r, NEW w, NEW h, NEW pl, NEW ex, NEW gone, Inv(r, w, h, pl, ex, gone), NEW slots
  PROVE  LET q == Condemn(r, slots)
         IN Inv(q, w, h, pl, ex, gone) /\ SameSlots(r, q) /\ Unwaited(r, q)
<1> DEFINE q == Condemn(r, slots)
           m == Msg("exit", NULL, NULL, NULL)
<1>1. r \in State
  BY DEF Inv
<1>2. /\ q \in State /\ SameButSlots(r, q)
      /\ \A t \in Slot : /\ q.slot[t].exists = r.slot[t].exists
                         /\ q.slot[t].capsule = r.slot[t].capsule
                         /\ q.slot[t].controller = r.slot[t].controller
                         /\ q.slot[t].mapped = r.slot[t].mapped
  BY <1>1, CondemnIs
<1> HIDE DEF q
<1>3. SameSlots(r, q)
  BY <1>2 DEF SameSlots
<1>4. SameLines(r, q)
  BY <1>2, LinesKept DEF SameButSlots
<1>5. Lost(r, q, m)
  BY <1>4, LostIs
<1>6. m.op = "exit"
  BY DEF Msg
<1> HIDE DEF m
<1>7. \A k \in q.initialized : Alive(r, k)
  BY <1>2 DEF Inv, Begun, SameButSlots
<1>8. SignalsKept(q)
  <2>1. \A c \in Controller : \A g \in r.signals[c] : g[1] \in Slot
    BY <1>1, StateIs
  <2>2. SignalsKept(r) /\ q.signals = r.signals
    BY <1>2 DEF Inv, SameButSlots
  <2> QED BY <1>2, <2>1, <2>2 DEF SignalsKept
<1>9. (q.fatal => ex) /\ q.home = r.home
  BY <1>2 DEF Inv, Exits, SameButSlots
<1>10. Inv(q, w, h, pl, ex, gone)
  BY <1>2, <1>3, <1>5, <1>6, <1>7, <1>8, <1>9, LostInv
<1>11. Unwaited(r, q)
  BY <1>4 DEF SameLines, Unwaited, Waits
<1> QED BY <1>3, <1>10, <1>11 DEF q

\* Capsule x is destroyed, with its parts.
LEMMA DestroyTopInv ==
  ASSUME NEW r, NEW w, NEW h, NEW pl, NEW ex, NEW x \in Capsule, NEW s \in OptSlot,
         Going(r, w, h, pl, ex, x, s), w[r.slot[s].controller] = "loop",
         \A p \in Part : p[1] = x => r.slot[p].exists
  PROVE  LET q == DestroyTop(r, s)
         IN Inv(q, w, h, pl, ex, NULL) /\ Unwaited(r, q) /\ q.slot[s].capsule = NULL
<1> DEFINE c  == r.slot[s].controller
           r1 == Condemn(r, {s} \cup PartsOf(x))
           r2 == PartsDeport(r1, c, x)
           r3 == PartsDestroy(r2, c, x)
           q  == DestroyTop(r, s)
<1>1. /\ Inv(r, w, h, pl, ex, x) /\ r.slot[s].capsule = x
      /\ \A p \in Plugin : pl[p] # x /\ (p \in PartsOf(x) => pl[p] = NULL) /\ r.slot[p].capsule # x
  BY DEF Going
<1>2. s \in Slot /\ c \in Controller /\ x # NULL
  BY <1>1, Names DEF Inv, Homes
<1>3. q = Removal(r3, s, x, Vacant(c))
  BY <1>1, <1>2, DestroyTopIs
<1>4. Inv(r1, w, h, pl, ex, x) /\ SameSlots(r, r1) /\ Unwaited(r, r1)
  BY <1>1, CondemnInv
<1> HIDE DEF c, r1
<1>5. Going(r1, w, h, pl, ex, x, s)
  BY <1>1, <1>2, <1>4, Names DEF Going, SameSlots
<1>6. /\ Going(r2, w, h, pl, ex, x, s) /\ Parting(r2, c, x) /\ Unwaited(r1, r2)
      /\ r2.slot[s] = r1.slot[s]
      /\ \A p \in Part : r2.slot[p].exists = r1.slot[p].exists
  BY <1>2, <1>5, PartsDeported
<1> HIDE DEF r2
<1>7. \A p \in Part : p[1] = x => r2.slot[p].exists
  BY <1>4, <1>6, Names DEF SameSlots
<1>8. Going(r3, w, h, pl, ex, x, s) /\ Unwaited(r2, r3) /\ r3.slot[s] = r2.slot[s]
  BY <1>2, <1>6, <1>7, PartsDestroyed
<1> HIDE DEF r3
<1>9. /\ Inv(r3, w, h, pl, ex, x) /\ r3.slot[s].capsule = x /\ r3.slot[s].controller = c
      /\ \A p \in Plugin : pl[p] # x /\ (p \in PartsOf(x) => pl[p] = NULL) /\ r3.slot[p].capsule # x
  BY <1>2, <1>4, <1>6, <1>8 DEF Going, SameSlots, c
<1>10. Vacant(c) \in SlotState /\ Vacant(c).capsule = NULL
  BY <1>2 DEF Vacant, SlotState
<1>11. Cut(r3, Removal(r3, s, x, Vacant(c)), s, x, Vacant(c))
  <2>1. r3 \in State
    BY <1>9 DEF Inv
  <2> QED BY <1>2, <1>9, <1>10, <2>1, RemovalIs
<1> HIDE DEF q
<1>12. Cut(r3, q, s, x, Vacant(c))
  BY <1>3, <1>11
<1>13. Inv(q, w, h, pl, ex, NULL)
  <2>1. w[r3.slot[s].controller] = "loop" /\ Cut(r3, q, s, x, Vacant(r3.slot[s].controller))
    BY <1>9, <1>12 DEF c
  <2> QED BY <1>9, <2>1, FinishInv
<1>14. Unwaited(r3, q) /\ q.slot[s].capsule = NULL
  BY <1>10, <1>12 DEF Cut, Cleared, Purged, Unwaited
<1>15. Unwaited(r, q)
  BY <1>4, <1>6, <1>8, <1>14 DEF Unwaited
<1> QED BY <1>13, <1>14, <1>15 DEF q

\* A capsule is to be initialized.
LEMMA RequestIncarnateInv ==
  ASSUME NEW r, NEW w, NEW h, NEW pl, NEW ex, NEW gone, Inv(r, w, h, pl, ex, gone),
         NEW c \in Controller, NEW i, i \in Instance => Alive(r, i) /\ RunsOn(r, i) \in Controller
  PROVE  LET q == RequestIncarnate(r, c, i)
         IN Inv(q, w, h, pl, ex, gone) /\ q.slot = r.slot /\ q.home = r.home
<1> DEFINE q == RequestIncarnate(r, c, i)
           m == Msg("incarnate", NULL, i, NULL)
           d == RunsOn(r, i)
<1>1. CASE i \notin Instance
  <2>1. q = r
    BY <1>1 DEF RequestIncarnate
  <2> QED BY <2>1
<1>2. CASE i \in Instance
  <2>1. q = Enqueue(r, c, d, m)
    BY <1>2 DEF RequestIncarnate
  <2>2. m \in Command /\ m.op = "incarnate" /\ m.slot = NULL /\ m.capsule = i
    <3>1. /\ "incarnate" \in {"incarnate", "import", "deport", "destroy", "exit"}
          /\ NULL \in Slot \cup {NULL} /\ i \in Instance \cup {NULL} /\ NULL \in Controller \cup {NULL}
      BY <1>2
    <3>2. m \in Command
      BY <3>1, Commands
    <3> QED BY <3>2 DEF Msg
  <2>3. d \in Controller /\ Alive(r, i) /\ r \in State
    BY <1>2 DEF Inv
  <2>4. Askable(r, w, pl, ex, gone, d, m, c # d)
    BY <1>2, <2>2, <2>3 DEF Askable
  <2> HIDE DEF m, d
  <2>5. q \in State /\ SameButCommands(r, q) /\ Grown(r, q, d, m, c # d)
    BY <2>1, <2>2, <2>3, EnqueueIs
  <2> HIDE DEF q
  <2>6. More(r, q, {d}, m, c # d)
    BY <2>5, MoreIs
  <2>7. {d} \in SUBSET Controller /\ {d} # {}
    BY <2>3
  <2>8. Inv(q, w, h, pl, ex, gone)
    BY <2>2, <2>4, <2>5, <2>6, <2>7, AskedInv
  <2> QED BY <2>5, <2>8 DEF SameButCommands, q
<1> QED BY <1>1, <1>2

-----------------------------------------------------------------------------
(* The steps.                                                              *)

\* The parts of x are to be initialized, those that have a capsule.
LEMMA PartsIncarnateInv ==
  ASSUME NEW r, NEW w, NEW h, NEW pl, NEW ex, NEW gone, Inv(r, w, h, pl, ex, gone),
         NEW c \in Controller, NEW x \in Capsule,
         \A p \in Part : p[1] = x /\ p \in Instance =>
           r.slot[p].capsule = p /\ r.slot[p].controller \in Controller
  PROVE  Inv(PartsIncarnate(r, c, x), w, h, pl, ex, gone)
<1> DEFINE fixed == <<x, "fixed">>
           plug  == <<x, "plug">>
           v     == IF "fixed" \in Roles THEN RequestIncarnate(r, c, fixed) ELSE r
           q     == IF "plug" \in Roles THEN RequestIncarnate(v, c, plug) ELSE v
<1>1. /\ "fixed" \in Roles => fixed \in Part /\ fixed[1] = x /\ fixed \notin Capsule
      /\ "plug" \in Roles => plug \notin Instance
  <2>1. "plug" \in Roles => plug \in Part /\ plug[2] = "plug"
    BY Names
  <2> QED BY <2>1, Names
<1>2. PartsIncarnate(r, c, x) = q
  BY DEF PartsIncarnate
<1> HIDE DEF fixed, plug, v
<1>3. Inv(v, w, h, pl, ex, gone)
  <2>1. CASE "fixed" \in Roles
    <3>1. fixed \in Instance => Alive(r, fixed) /\ RunsOn(r, fixed) \in Controller
      BY <1>1, <2>1 DEF Alive, RunsOn
    <3>2. Inv(RequestIncarnate(r, c, fixed), w, h, pl, ex, gone)
      BY <3>1, RequestIncarnateInv
    <3> QED BY <2>1, <3>2 DEF v
  <2>2. CASE "fixed" \notin Roles
    BY <2>2 DEF v
  <2> QED BY <2>1, <2>2
<1>4. q = v
  BY <1>1 DEF RequestIncarnate
<1> QED BY <1>2, <1>3, <1>4

LEMMA IncarnateStep ==
  ASSUME IInv, NEW c \in Controller, NEW s \in OptSlot, NEW x \in Capsule, Incarnate(c, s, x)
  PROVE  IInv'
<1>1. Inv(rt, pc, hand, plan, exiting, NULL) /\ rt \in State
  BY DEF IInv, Inv
<1>2. /\ rt.slot[s].capsule = NULL /\ rt.home[x] = NULL
      /\ \A p \in PartsOf(x) : ~ rt.slot[p].exists
      /\ pc' = pc /\ hand' = hand /\ plan' = plan /\ exiting' = exiting
  BY DEF Incarnate, Used
<1>3. PICK d \in Controller, e \in [Roles -> Controller] :
        rt' = IncarnateAll(Made(rt, s, x, d, e), c, x)
  BY DEF Incarnate, Made
<1> DEFINE v == Made(rt, s, x, d, e)
           u == RequestIncarnate(v, c, x)
<1>4. Born(rt, v, s, x, d)
  BY <1>1, MadeIs
<1>5. rt' = PartsIncarnate(u, c, x)
  BY <1>3, IncarnateAllIs
<1> HIDE DEF v
<1>6. Inv(v, pc, hand, plan, exiting, NULL)
  <2>1. \A t \in Part : t[1] = x => ~ rt.slot[t].exists
    BY <1>2, Names
  <2> QED BY <1>1, <1>2, <1>4, <2>1, MadeInv
<1>7. x \in Instance /\ Alive(v, x) /\ RunsOn(v, x) \in Controller
  <2>1. v.home[x] = s /\ v.slot[s].controller = d /\ s # NULL
    BY <1>4, Names DEF Born
  <2> QED BY <2>1, Names DEF Alive, RunsOn
<1>8. Inv(u, pc, hand, plan, exiting, NULL) /\ u.slot = v.slot
  BY <1>6, <1>7, RequestIncarnateInv
<1> HIDE DEF u
<1>9. \A p \in Part : p[1] = x /\ p \in Instance =>
        u.slot[p].capsule = p /\ u.slot[p].controller \in Controller
  <2>1. \A p \in Part : p \notin Plugin <=> p \in Instance
    BY Names
  <2> QED BY <1>4, <1>8, <2>1 DEF Born
<1>10. Inv(rt', pc, hand, plan, exiting, NULL)
  BY <1>5, <1>8, <1>9, PartsIncarnateInv
<1> QED BY <1>2, <1>10 DEF IInv

LEMMA MoveStep ==
  ASSUME IInv, NEW c \in Controller, Move(c)
  PROVE  IInv'
<1> DEFINE q == [rt EXCEPT !.queue[c] = @ \o rt.incoming[c], !.incoming[c] = <<>>]
           m == Msg("exit", NULL, NULL, NULL)
<1>1. Inv(rt, pc, hand, plan, exiting, NULL) /\ rt \in State /\ Begun(rt) /\ SignalsKept(rt)
      /\ Exits(rt, exiting)
  BY DEF IInv, Inv
<1>2. /\ rt' = q /\ pc' = pc /\ hand' = hand /\ plan' = plan /\ exiting' = exiting
  BY DEF Move
<1>3. q \in State /\ SameButCommands(rt, q) /\ SameLines(rt, q)
  BY <1>1, MovedIs
<1> HIDE DEF q
<1>4. Lost(rt, q, m) /\ m.op = "exit"
  BY <1>3, LostIs DEF Msg
<1> HIDE DEF m
<1>5. /\ SameSlots(rt, q) /\ q.home = rt.home /\ q.initialized = rt.initialized
      /\ SignalsKept(q) /\ (q.fatal => exiting)
  BY <1>1, <1>3 DEF SameButCommands, SameSlots, SignalsKept, Exits
<1>6. \A k \in q.initialized : Alive(rt, k)
  BY <1>1, <1>5 DEF Begun
<1>7. Inv(q, pc, hand, plan, exiting, NULL)
  BY <1>1, <1>3, <1>4, <1>5, <1>6, LostInv
<1> QED BY <1>2, <1>7 DEF IInv

\* Only the signals are others.
LEMMA SignalsInv ==
  ASSUME NEW r, NEW q, NEW w, NEW h, NEW pl, NEW ex, NEW gone, Inv(r, w, h, pl, ex, gone),
         q \in State, q.slot = r.slot, q.home = r.home, q.initialized = r.initialized,
         q.queue = r.queue, q.incoming = r.incoming, SignalsKept(q), q.fatal => ex
  PROVE  Inv(q, w, h, pl, ex, gone)
<1> DEFINE m == Msg("exit", NULL, NULL, NULL)
<1>1. SameLines(r, q)
  BY LinesKept
<1>2. Lost(r, q, m) /\ m.op = "exit"
  BY <1>1, LostIs DEF Msg
<1> HIDE DEF m
<1>3. SameSlots(r, q)
  BY DEF SameSlots
<1>4. \A k \in q.initialized : Alive(r, k)
  BY DEF Inv, Begun
<1> QED BY <1>2, <1>3, <1>4, LostInv

\* A slot with a capsule is there.
LEMMA Occupied ==
  ASSUME NEW r, NEW w, NEW h, NEW pl, NEW ex, NEW gone, Inv(r, w, h, pl, ex, gone),
         NEW s \in Slot, r.slot[s].capsule # NULL
  PROVE  /\ r.slot[s].exists /\ r.slot[s].controller \in Controller
         /\ r.slot[s].capsule \in Instance
<1>1. r \in State /\ Homes(r, gone) /\ Occupants(r)
  BY DEF Inv
<1>2. r.slot[s].capsule \in Instance
  BY <1>1, StateIs
<1>3. r.slot[s].exists
  <2>1. CASE s \in OptSlot \cup PlugSlot
    BY <1>1, <2>1 DEF Homes
  <2>2. CASE s \in Plugin
    BY <1>1, <2>2 DEF Occupants
  <2>3. CASE s \in Part /\ s \notin Plugin
    BY <1>1, <2>3 DEF Homes
  <2> QED BY <2>1, <2>2, <2>3, Names
<1> QED BY <1>1, <1>2, <1>3 DEF Homes

LEMMA SendStep ==
  ASSUME IInv, NEW c \in Controller, NEW s \in Slot, Send(c, s)
  PROVE  IInv'
<1> DEFINE d == rt.slot[s].controller
           i == rt.slot[s].capsule
           g == <<s, i>>
           f == [rt.signals EXCEPT ![d] = @ \cup {g}]
           q == [rt EXCEPT !.signals = f]
<1>1. Inv(rt, pc, hand, plan, exiting, NULL) /\ rt \in State /\ SignalsKept(rt) /\ Exits(rt, exiting)
  BY DEF IInv, Inv
<1>2. /\ rt' = q /\ pc' = pc /\ hand' = hand /\ plan' = plan /\ exiting' = exiting /\ i # NULL
  BY <1>1 DEF Send, Used, State
<1>3. rt.slot[s].exists /\ d \in Controller /\ i \in Instance
  BY <1>1, <1>2, Occupied
<1>4. f \in [Controller -> SUBSET (Slot \X Instance)]
      /\ \A e \in Controller : f[e] = IF e = d THEN rt.signals[e] \cup {g} ELSE rt.signals[e]
  <2>1. rt.signals \in [Controller -> SUBSET (Slot \X Instance)]
    BY <1>1 DEF State
  <2>2. g \in Slot \X Instance
    BY <1>3
  <2> HIDE DEF g, d
  <2> QED BY <1>3, <2>1, <2>2
<1> HIDE DEF f
<1>5. /\ q \in State /\ q.slot = rt.slot /\ q.home = rt.home /\ q.initialized = rt.initialized
      /\ q.queue = rt.queue /\ q.incoming = rt.incoming /\ q.signals = f /\ q.fatal = rt.fatal
  BY <1>1, <1>4 DEF State
<1> HIDE DEF q
<1>6. SignalsKept(q)
  BY <1>1, <1>3, <1>4, <1>5 DEF SignalsKept, g
<1>7. Inv(q, pc, hand, plan, exiting, NULL)
  BY <1>1, <1>5, <1>6, SignalsInv DEF Exits
<1> QED BY <1>2, <1>7 DEF IInv

LEMMA TakeSignalStep ==
  ASSUME IInv, NEW c \in Controller, TakeSignal(c)
  PROVE  IInv'
<1>1. Inv(rt, pc, hand, plan, exiting, NULL) /\ rt \in State /\ SignalsKept(rt) /\ Exits(rt, exiting)
  BY DEF IInv, Inv
<1>2. PICK g \in rt.signals[c] :
        rt' = [rt EXCEPT !.signals[c] = @ \ {g}, !.fatal = @ \/ rt.slot[g[1]].capsule = NULL]
  BY DEF TakeSignal
<1>3. pc' = pc /\ hand' = hand /\ plan' = plan /\ exiting' = exiting
  BY DEF TakeSignal
<1> DEFINE f == [rt.signals EXCEPT ![c] = @ \ {g}]
           q == [rt EXCEPT !.signals = f]
<1>4. rt.slot[g[1]].capsule # NULL
  BY <1>1, StateIs, Names DEF SignalsKept
<1>5. rt' = q
  BY <1>1, <1>2, <1>4 DEF State
<1>6. f \in [Controller -> SUBSET (Slot \X Instance)] /\ \A e \in Controller : f[e] \subseteq rt.signals[e]
  BY <1>1 DEF State
<1> HIDE DEF f
<1>7. /\ q \in State /\ q.slot = rt.slot /\ q.home = rt.home /\ q.initialized = rt.initialized
      /\ q.queue = rt.queue /\ q.incoming = rt.incoming /\ q.signals = f /\ q.fatal = rt.fatal
  BY <1>1, <1>6 DEF State
<1> HIDE DEF q
<1>8. SignalsKept(q)
  BY <1>1, <1>6, <1>7 DEF SignalsKept
<1>9. Inv(q, pc, hand, plan, exiting, NULL)
  BY <1>1, <1>7, <1>8, SignalsInv DEF Exits
<1> QED BY <1>3, <1>5, <1>9 DEF IInv

LEMMA ExitAllStep ==
  ASSUME IInv, NEW c \in Controller, ExitAll(c)
  PROVE  IInv'
<1> DEFINE m == Msg("exit", NULL, NULL, NULL)
           q == [rt EXCEPT !.queue[c] = Append(@, m),
                           !.incoming = [d \in Controller |-> IF d = c THEN @[d]
                                                              ELSE Append(@[d], m)]]
<1>1. Inv(rt, pc, hand, plan, exiting, NULL) /\ rt \in State
  BY DEF IInv, Inv
<1>2. rt' = q /\ pc' = pc /\ hand' = hand /\ plan' = plan /\ exiting' = TRUE
  BY DEF ExitAll
<1>3. m \in Command /\ m.op = "exit" /\ m.slot = NULL
  <2>1. /\ "exit" \in {"incarnate", "import", "deport", "destroy", "exit"}
        /\ NULL \in Slot \cup {NULL} /\ NULL \in Instance \cup {NULL} /\ NULL \in Controller \cup {NULL}
    OBVIOUS
  <2>2. m \in Command
    BY <2>1, Commands
  <2> QED BY <2>2 DEF Msg
<1> HIDE DEF m
<1>4. q \in State /\ SameButCommands(rt, q) /\ Told(rt, q, m)
  BY <1>1, <1>3, ToldIs
<1> HIDE DEF q
<1>5. More(rt, q, Controller, m, FALSE)
  BY <1>4, MoreIs
<1>6. Inv(rt, pc, hand, plan, TRUE, NULL)
  BY <1>1 DEF Inv, Exits
<1>7. \A d \in Controller : Askable(rt, pc, plan, TRUE, NULL, d, m, FALSE)
  BY <1>3 DEF Askable
<1>8. Controller \in SUBSET Controller /\ Controller # {}
  OBVIOUS
<1>9. Inv(q, pc, hand, plan, TRUE, NULL)
  BY <1>3, <1>4, <1>5, <1>6, <1>7, <1>8, AskedInv
<1> QED BY <1>2, <1>9 DEF IInv

\* What the run loop takes.
LEMMA Taking ==
  ASSUME IInv, NEW c \in Controller, NEW op, Takes(c, op)
  PROVE  /\ Taken(c) \in State /\ SameButCommands(rt, Taken(c)) /\ Took(rt, Taken(c), c, First(c))
         /\ First(c) \in Command /\ First(c) \in Waits(rt, c) /\ First(c).op = op
         /\ pc[c] = "loop"
<1>1. rt \in State
  BY DEF IInv, Inv
<1>2. rt.queue[c] # <<>> /\ Head(rt.queue[c]).op = op /\ pc[c] = "loop"
  BY DEF Takes, At
<1>3. Taken(c) \in State /\ SameButCommands(rt, Taken(c)) /\ Took(rt, Taken(c), c, First(c))
  BY <1>1, <1>2, TakenIs DEF Taken, First
<1> QED BY <1>2, <1>3 DEF First, Took

\* The command that the run loop has taken needs nothing more.
LEMMA TakenInv ==
  ASSUME IInv, NEW c \in Controller, NEW op \in {"incarnate", "destroy", "exit"}, Takes(c, op)
  PROVE  Inv(Taken(c), pc, hand, plan, exiting, NULL)
<1> DEFINE q == Taken(c)
           m == First(c)
<1>1. Inv(rt, pc, hand, plan, exiting, NULL)
  BY DEF IInv
<1>2. q \in State /\ SameButCommands(rt, q) /\ Took(rt, q, c, m) /\ m.op = op
  BY Taking
<1> HIDE DEF q, m
<1>3. Lost(rt, q, m)
  BY <1>2, LostIs
<1>4. SameSlots(rt, q) /\ q.home = rt.home
  BY <1>2 DEF SameButCommands, SameSlots
<1>5. (\A k \in q.initialized : Alive(rt, k)) /\ SignalsKept(q) /\ (q.fatal => exiting)
  BY <1>1, <1>2 DEF SameButCommands, Inv, Begun, SignalsKept, Exits
<1>6. Inv(q, pc, hand, plan, exiting, NULL)
  BY <1>1, <1>2, <1>3, <1>4, <1>5, LostInv
<1> QED BY <1>6 DEF q

LEMMA ExecuteIncarnateStep ==
  ASSUME IInv, NEW c \in Controller, ExecuteIncarnate(c)
  PROVE  IInv'
<1> DEFINE v == Taken(c)
           m == First(c)
           q == [v EXCEPT !.initialized = @ \cup {m.capsule}]
           k == Msg("exit", NULL, NULL, NULL)
<1>1. Inv(rt, pc, hand, plan, exiting, NULL)
  BY DEF IInv
<1>2. Takes(c, "incarnate")
  BY DEF ExecuteIncarnate
<1>3. /\ rt' = q /\ pc' = pc /\ hand' = hand /\ plan' = plan /\ exiting' = exiting
  BY DEF ExecuteIncarnate
<1>4. Inv(v, pc, hand, plan, exiting, NULL)
  BY <1>2, TakenInv
<1>5. v \in State /\ SameButCommands(rt, v) /\ m.op = "incarnate" /\ m \in Waits(rt, c)
  BY <1>2, Taking
<1>6. m.capsule \in Instance /\ Alive(rt, m.capsule)
  BY <1>1, <1>5 DEF Inv, Incarnates
<1>7. Alive(v, m.capsule)
  BY <1>5, <1>6 DEF SameButCommands, Alive
<1> HIDE DEF v, m
<1>8. /\ q \in State /\ q.slot = v.slot /\ q.home = v.home /\ q.signals = v.signals
      /\ q.initialized = v.initialized \cup {m.capsule}
      /\ q.queue = v.queue /\ q.incoming = v.incoming /\ q.fatal = v.fatal
  BY <1>5, <1>6 DEF State
<1> HIDE DEF q
<1>9. SameLines(v, q)
  BY <1>8, LinesKept
<1>10. Lost(v, q, k) /\ k.op = "exit"
  BY <1>9, LostIs DEF Msg
<1> HIDE DEF k
<1>11. SameSlots(v, q)
  BY <1>8 DEF SameSlots
<1>12. (\A j \in q.initialized : Alive(v, j)) /\ SignalsKept(q) /\ (q.fatal => exiting)
  BY <1>4, <1>7, <1>8 DEF Inv, Begun, SignalsKept, Exits
<1>13. Inv(q, pc, hand, plan, exiting, NULL)
  BY <1>4, <1>8, <1>10, <1>11, <1>12, LostInv
<1> QED BY <1>3, <1>13 DEF IInv

LEMMA ExecuteExitStep ==
  ASSUME IInv, NEW c \in Controller, ExecuteExit(c)
  PROVE  IInv'
<1> DEFINE v == Taken(c)
           w == [pc EXCEPT ![c] = "exited"]
<1>1. Takes(c, "exit") /\ rt' = v /\ pc' = w /\ hand' = hand /\ plan' = plan /\ exiting' = exiting
  BY DEF ExecuteExit
<1>2. Inv(v, pc, hand, plan, exiting, NULL)
  BY <1>1, TakenInv
<1>3. pc[c] = "loop"
  BY <1>1, Taking
<1> HIDE DEF v
<1>4. Threads(pc, hand, plan) /\ TopDestroys(v, pc, plan) /\ Undone(v, pc, hand, plan)
      /\ Hands(v, pc, hand, plan) /\ v \in State
  BY <1>2 DEF Inv
<1>5. /\ Threads(w, hand, plan)
      /\ \A e \in Controller : w[e] = IF e = c THEN "exited" ELSE pc[e]
  BY <1>4 DEF Threads
<1> HIDE DEF w
<1>6. GivenUp(v, pc, hand, plan, w, hand, plan)
  BY <1>3, <1>5 DEF GivenUp
<1>7. \A e \in Controller : \A n \in Waits(v, e) :
        n.op = "destroy" /\ n.waiter # NULL => w[n.waiter] = "waiting"
  <2> SUFFICES ASSUME NEW e \in Controller, NEW n \in Waits(v, e), n.op = "destroy", n.waiter # NULL
               PROVE  w[n.waiter] = "waiting"
    OBVIOUS
  <2>1. n.waiter \in Controller
    BY <1>4, StateIs, Commands
  <2>2. pc[n.waiter] = "waiting"
    BY <1>4 DEF TopDestroys
  <2> QED BY <1>3, <1>5, <2>1, <2>2
<1>8. Undone(v, w, hand, plan)
  <2>1. \A p \in PlugSlot : Owner[p] \in Controller
    BY Names
  <2> QED BY <1>3, <1>4, <1>5, <2>1 DEF Undone
<1>9. Hands(v, w, hand, plan)
  BY <1>4, <1>5 DEF Hands
<1>10. Inv(v, w, hand, plan, exiting, NULL)
  BY <1>2, <1>5, <1>6, <1>7, <1>8, <1>9, RestInv
<1> QED BY <1>1, <1>10 DEF IInv

\* The container of a slot that is operated on is there.
LEMMA Operating ==
  ASSUME IInv, NEW c \in Controller, NEW s \in Slot, Operates(c, s)
  PROVE  /\ rt.slot[s].exists
         /\ s \in Part => rt.home[s[1]] # NULL /\ rt.slot[rt.home[s[1]]].controller = c
         /\ s \notin Part => Owner[s] = c
<1>1. Inv(rt, pc, hand, plan, exiting, NULL)
  BY DEF IInv
<1>2. Homes(rt, NULL) /\ Begun(rt)
  BY <1>1 DEF Inv
<1>3. CASE s \in Part
  <2>1. s[1] \in Capsule
    BY <1>3, Names
  <2>2. s[1] \in rt.initialized /\ RunsOn(rt, s[1]) = c
    BY <1>3 DEF Operates
  <2>3. rt.home[s[1]] # NULL /\ rt.slot[rt.home[s[1]]].controller = c
    BY <1>2, <2>1, <2>2 DEF Begun, Alive, RunsOn
  <2>4. s[1] # NULL
    BY <2>1, Names
  <2> QED BY <1>2, <1>3, <2>3, <2>4 DEF Homes
<1>4. CASE s \notin Part
  BY <1>2, <1>4, Names DEF Homes, Operates
<1> QED BY <1>3, <1>4

\* Slot p, whose user has no plan for it, and nobody imports into or deports from it.
LEMMA ImportStep ==
  ASSUME IInv, NEW c \in Controller, NEW p \in Plugin, NEW y \in Capsule, Import(c, p, y)
  PROVE  IInv'
<1> DEFINE d   == rt.slot[rt.home[y]].controller
           pl2 == [plan EXCEPT ![p] = y]
           m   == Msg("import", p, y, NULL)
           v   == [rt EXCEPT !.slot[p].controller = d]
<1>1. /\ Inv(rt, pc, hand, plan, exiting, NULL) /\ rt \in State /\ Threads(pc, hand, plan)
      /\ Homes(rt, NULL) /\ Occupants(rt) /\ Imports(rt, pc, hand, plan) /\ Hands(rt, pc, hand, plan)
  BY DEF IInv, Inv
<1>2. /\ pc[c] = "loop" /\ Operates(c, p) /\ Settled(p, y) /\ Alive(rt, y)
      /\ rt.slot[p].capsule = NULL /\ rt' = RequestImport(rt, c, p, y)
      /\ plan' = pl2 /\ pc' = pc /\ hand' = hand /\ exiting' = exiting
  BY DEF Import, Used, At
<1>3. p \in Slot /\ y \in Instance /\ y # NULL
  BY Names
<1>4. /\ rt.slot[p].exists
      /\ p \in Part => rt.home[p[1]] # NULL /\ rt.slot[rt.home[p[1]]].controller = c
      /\ p \in PlugSlot => Owner[p] = c
  BY <1>2, <1>3, Operating, Names
<1>5. rt.home[y] # NULL /\ RunsOn(rt, y) = d
  BY <1>2 DEF Alive, RunsOn
<1>6. d \in Controller
  <2>1. rt.home[y] \in OptSlot
    BY <1>1, <1>5, StateIs
  <2> QED BY <1>1, <2>1, Names DEF Homes
<1>7. \A e \in Controller : \A n \in Waits(rt, e) : n.op = "destroy" =>
        n.slot # rt.home[y] /\ (p \in Part => n.slot # rt.home[p[1]])
  <2>1. \A e \in Controller : Waits(rt, e) = Range(rt.incoming[e] \o rt.queue[e])
    BY <1>1, StateIs, WaitsIs
  <2> QED BY <1>2, <2>1 DEF Settled, Doomed
<1>8. plan[p] = NULL /\ ~ rt.slot[p].mapped
  BY <1>1, <1>2 DEF Settled, Occupants
<1> HIDE DEF d
<1>9. CASE d = c
  <2> DEFINE q == Bind(rt, p, y)
  <2>1. rt' = q
    BY <1>2, <1>5, <1>9 DEF RequestImport
  <2>2. Turned(rt, q, p, [rt.slot[p] EXCEPT !.capsule = y, !.controller = d, !.mapped = TRUE])
    BY <1>1, <1>3, <1>4, <1>5, <1>8, BindIs DEF d
  <2> HIDE DEF q
  <2>3. Alone(rt, p, y)
    <3>1. \A e \in Controller : \A n \in Waits(rt, e) : n.op = "import" => n.slot # p
      BY <1>1, <1>8, Names DEF Imports, Importable
    <3> QED BY <1>7, <3>1 DEF Alone
  <2>4. Handed(pc, hand, pc, hand, p)
    <3>1. ASSUME NEW e \in Controller, pc[e] = "import" PROVE hand[e].slot # p
      BY <1>1, <1>8, <3>1, Names DEF Imports, Importable
    <3>2. ASSUME NEW e \in Controller, pc[e] = "deport" PROVE hand[e].slot # p
      <4>1. e # c
        BY <1>2, <3>2
      <4>2. p \in PlugSlot \/ p \in Part
        BY Names
      <4> QED BY <1>1, <1>4, <3>2, <4>1, <4>2 DEF Hands
    <3> QED BY <3>1, <3>2 DEF Handed
  <2>5. Threads(pc, hand, pl2)
    BY <1>1 DEF Threads
  <2> HIDE DEF pl2
  <2>6. rt.slot[rt.home[y]].controller = c /\ pl2 = [plan EXCEPT ![p] = y]
        /\ Turned(rt, q, p, [rt.slot[p] EXCEPT !.capsule = y,
                                               !.controller = rt.slot[rt.home[y]].controller,
                                               !.mapped = TRUE])
    BY <1>9, <2>2 DEF d, pl2
  <2>7. Inv(q, pc, hand, pl2, exiting, NULL)
    BY <1>1, <1>2, <1>4, <1>5, <2>3, <2>4, <2>5, <2>6, BindInv
  <2> QED BY <1>2, <2>1, <2>7 DEF IInv
<1>10. CASE d # c
  <2> DEFINE q == Enqueue(v, c, d, m)
  <2>1. rt' = q
    BY <1>2, <1>5, <1>10 DEF RequestImport
  <2>2. Turned(rt, v, p, [rt.slot[p] EXCEPT !.controller = d])
    BY <1>1, <1>3, <1>6, GivenIs
  <2> HIDE DEF v
  <2>3. v \in State
    BY <2>2 DEF Turned
  <2>4. m \in Command
    <3>1. /\ "import" \in {"incarnate", "import", "deport", "destroy", "exit"}
          /\ p \in Slot \cup {NULL} /\ y \in Instance \cup {NULL} /\ NULL \in Controller \cup {NULL}
      BY <1>3
    <3> QED BY <3>1, Commands
  <2> HIDE DEF m
  <2>5. q \in State /\ SameButCommands(v, q) /\ Grown(v, q, d, m, c # d)
    BY <1>6, <2>3, <2>4, EnqueueIs
  <2> HIDE DEF q, pl2
  <2>6. m = Msg("import", p, y, NULL) /\ pl2 = [plan EXCEPT ![p] = y]
        /\ rt.slot[rt.home[y]].controller = d
    BY DEF m, pl2, d
  <2>7. Inv(q, pc, hand, pl2, exiting, NULL)
    BY <1>1, <1>2, <1>4, <1>5, <1>6, <1>7, <1>8, <2>2, <2>5, <2>6, ImportAskedInv
  <2> QED BY <1>2, <2>1, <2>7 DEF IInv
<1> QED BY <1>9, <1>10

LEMMA ExecuteImportStep ==
  ASSUME IInv, NEW c \in Controller, ExecuteImport(c)
  PROVE  IInv'
<1> DEFINE v == Taken(c)
           m == First(c)
<1>1. Inv(rt, pc, hand, plan, exiting, NULL) /\ Imports(rt, pc, hand, plan)
  BY DEF IInv, Inv
<1>2. Takes(c, "import") /\ rt' = v /\ plan' = plan /\ exiting' = exiting
  BY DEF ExecuteImport
<1>3. /\ v \in State /\ SameButCommands(rt, v) /\ Took(rt, v, c, m) /\ m \in Command
      /\ m \in Waits(rt, c) /\ m.op = "import" /\ pc[c] = "loop"
  BY <1>2, Taking
<1>4. rt.slot[m.slot].capsule = NULL
  BY <1>1, <1>3 DEF Imports, Importable
<1>5. pc' = [pc EXCEPT ![c] = "import"] /\ hand' = [hand EXCEPT ![c] = m]
  BY <1>4 DEF ExecuteImport
<1> HIDE DEF v, m
<1>6. Inv(v, pc', hand', plan, exiting, NULL)
  BY <1>1, <1>3, <1>5, TakeImportInv
<1> QED BY <1>2, <1>6 DEF IInv

LEMMA BindImportStep ==
  ASSUME IInv, NEW c \in Controller, BindImport(c)
  PROVE  IInv'
<1> DEFINE m  == hand[c]
           p  == m.slot
           y  == m.capsule
           w2 == [pc EXCEPT ![c] = "loop"]
           h2 == [hand EXCEPT ![c] = NULL]
           q  == Bind(rt, p, y)
<1>1. /\ Inv(rt, pc, hand, plan, exiting, NULL) /\ rt \in State /\ Threads(pc, hand, plan)
      /\ Homes(rt, NULL) /\ Occupants(rt) /\ Imports(rt, pc, hand, plan) /\ Hands(rt, pc, hand, plan)
      /\ Plans(rt, pc, hand, plan, NULL) /\ TopDestroys(rt, pc, plan) /\ PartDestroys(rt, NULL)
  BY DEF IInv, Inv
<1>2. /\ pc[c] = "import" /\ rt' = q /\ pc' = w2 /\ hand' = h2 /\ plan' = plan /\ exiting' = exiting
  BY DEF BindImport, At
<1>3. m \in Command /\ m.op = "import" /\ Importable(rt, plan, c, m) /\ m \notin Waits(rt, c)
  BY <1>1, <1>2 DEF Imports
<1>4. /\ p \in Plugin /\ y \in Capsule /\ m.waiter = NULL /\ plan[p] = y
      /\ rt.slot[p].exists /\ rt.slot[p].capsule = NULL /\ rt.slot[p].controller = c
      /\ rt.home[y] # NULL /\ rt.slot[rt.home[y]].controller = c
  BY <1>3 DEF Importable
<1>5. p \in Slot /\ y # NULL /\ m = Msg("import", p, y, NULL)
  BY <1>3, <1>4, Names, Commands
<1> HIDE DEF m, p, y
<1>6. Turned(rt, q, p, [rt.slot[p] EXCEPT !.capsule = y,
                                          !.controller = rt.slot[rt.home[y]].controller,
                                          !.mapped = TRUE])
  <2>1. ~ rt.slot[p].mapped
    BY <1>1, <1>4 DEF Occupants
  <2> QED BY <1>1, <1>4, <1>5, <2>1, BindIs
<1> HIDE DEF q
<1>7. p \in Part => rt.home[p[1]] # NULL
  BY <1>1, <1>4, <1>5 DEF Plans
<1>8. Alone(rt, p, y)
  <2> SUFFICES ASSUME NEW e \in Controller, NEW n \in Waits(rt, e)
               PROVE  /\ n.op = "destroy" => n.slot # rt.home[y] /\ (p \in Part => n.slot # rt.home[p[1]])
                      /\ n.op = "import" => n.slot # p
    BY DEF Alone
  <2>1. n \in Command
    BY <1>1, StateIs
  <2>2. ASSUME n.op = "import" PROVE n.slot # p
    <3>1. Importable(rt, plan, e, n)
      BY <1>1, <2>2 DEF Imports
    <3>2. n.slot = p => n.capsule = y /\ e = c /\ n.waiter = NULL
      BY <1>4, <3>1 DEF Importable
    <3>3. n.slot = p => n = m
      BY <1>5, <2>1, <2>2, <3>2, Commands
    <3> QED BY <1>3, <3>2, <3>3
  <2>3. ASSUME n.op = "destroy", NEW z \in Capsule, z = y \/ (p \in Part /\ z = p[1]),
               n.slot = rt.home[z]
        PROVE  FALSE
    <3>1. rt.home[z] # NULL
      BY <1>4, <1>7, <2>3
    <3>2. n.slot \in OptSlot /\ rt.slot[n.slot].capsule = z
      BY <1>1, <2>3, <3>1, StateIs DEF Homes
    <3>3. n.waiter # NULL
      BY <1>1, <2>3, <3>2, Names DEF PartDestroys
    <3>4. Leaves(rt, plan, e, z, n)
      BY <1>1, <2>3, <3>2, <3>3 DEF TopDestroys
    <3>5. p \in Part /\ z = p[1] => p \in PartsOf(z)
      BY Names
    <3> QED BY <1>4, <1>5, <2>3, <3>4, <3>5 DEF Leaves
  <2>4. p \in Part => p[1] \in Capsule
    BY Names
  <2> QED BY <1>4, <2>2, <2>3, <2>4
<1>9. /\ \A e \in Controller : w2[e] = IF e = c THEN "loop" ELSE pc[e]
      /\ \A e \in Controller : e # c => h2[e] = hand[e]
      /\ Threads(w2, h2, plan)
  BY <1>1 DEF Threads
<1> HIDE DEF w2, h2
<1>10. Handed(pc, hand, w2, h2, p)
  <2>1. ASSUME NEW e \in Controller
        PROVE  \/ w2[e] = pc[e] /\ h2[e] = hand[e]
               \/ pc[e] = "import" /\ hand[e].slot = p /\ w2[e] = "loop"
    BY <1>2, <1>9 DEF m, p
  <2>2. ASSUME NEW e \in Controller, w2[e] \in {"import", "deport"} PROVE h2[e].slot # p
    <3>1. e # c /\ h2[e] = hand[e] /\ pc[e] \in {"import", "deport"}
      BY <1>9, <2>2
    <3>2. CASE pc[e] = "import"
      BY <1>1, <1>4, <3>1, <3>2 DEF Imports, Importable
    <3>3. CASE pc[e] = "deport"
      BY <1>1, <1>4, <1>5, <3>1, <3>3 DEF Hands
    <3> QED BY <3>1, <3>2, <3>3
  <2> QED BY <2>1, <2>2 DEF Handed
<1> DEFINE pl2 == [plan EXCEPT ![p] = y]
<1>11. pl2 = plan
  BY <1>1, <1>4 DEF Threads
<1>12. pl2 = [plan EXCEPT ![p] = y]
  OBVIOUS
<1> HIDE DEF pl2
<1>13. Threads(w2, h2, pl2)
  BY <1>9, <1>11
<1>14. Inv(q, w2, h2, pl2, exiting, NULL)
  BY <1>1, <1>4, <1>6, <1>7, <1>8, <1>10, <1>12, <1>13, BindInv
<1> QED BY <1>2, <1>11, <1>14 DEF IInv

LEMMA DeportStep ==
  ASSUME IInv, NEW c \in Controller, NEW p \in Plugin, Deport(c, p)
  PROVE  IInv'
<1> DEFINE m   == Msg("deport", p, NULL, NULL)
           w2  == [pc EXCEPT ![c] = "deport"]
           h2  == [hand EXCEPT ![c] = m]
           pl2 == [plan EXCEPT ![p] = NULL]
<1>1. /\ Inv(rt, pc, hand, plan, exiting, NULL) /\ rt \in State /\ Threads(pc, hand, plan)
      /\ TopDestroys(rt, pc, plan) /\ Undone(rt, pc, hand, plan) /\ Hands(rt, pc, hand, plan)
  BY DEF IInv, Inv
<1>2. /\ pc[c] = "loop" /\ Operates(c, p) /\ rt.slot[p].capsule # NULL
      /\ rt' = rt /\ pc' = w2 /\ hand' = h2 /\ plan' = pl2 /\ exiting' = exiting
  BY DEF Deport, At
<1>3. p \in Slot
  BY Names
<1>4. /\ p \in Part => rt.home[p[1]] # NULL /\ rt.slot[rt.home[p[1]]].controller = c
      /\ p \in PlugSlot => Owner[p] = c
  BY <1>2, <1>3, Operating, Names
<1>5. m \in Command /\ m.slot = p
  <2>1. /\ "deport" \in {"incarnate", "import", "deport", "destroy", "exit"}
        /\ p \in Slot \cup {NULL} /\ NULL \in Instance \cup {NULL} /\ NULL \in Controller \cup {NULL}
    BY <1>3
  <2>2. m \in Command
    BY <2>1, Commands
  <2> QED BY <2>2 DEF Msg
<1> HIDE DEF m
<1>6. /\ Threads(w2, h2, pl2)
      /\ \A e \in Controller : w2[e] = IF e = c THEN "deport" ELSE pc[e]
      /\ \A e \in Controller : h2[e] = IF e = c THEN m ELSE hand[e]
      /\ \A t \in Plugin : pl2[t] = IF t = p THEN NULL ELSE plan[t]
  BY <1>1, <1>5 DEF Threads
<1> HIDE DEF w2, h2, pl2
<1>7. GivenUp(rt, pc, hand, plan, w2, h2, pl2)
  BY <1>2, <1>6 DEF GivenUp
<1>8. \A e \in Controller : \A n \in Waits(rt, e) :
        n.op = "destroy" /\ n.waiter # NULL => w2[n.waiter] = "waiting"
  <2> SUFFICES ASSUME NEW e \in Controller, NEW n \in Waits(rt, e), n.op = "destroy", n.waiter # NULL
               PROVE  w2[n.waiter] = "waiting"
    OBVIOUS
  <2>1. n.waiter \in Controller
    BY <1>1, StateIs, Commands
  <2>2. pc[n.waiter] = "waiting"
    BY <1>1 DEF TopDestroys
  <2> QED BY <1>2, <1>6, <2>1, <2>2
<1>9. Undone(rt, w2, h2, pl2)
  <2> SUFFICES ASSUME NEW t \in PlugSlot, rt.slot[t].capsule # NULL, pl2[t] = NULL
               PROVE  \/ Msg("deport", t, rt.slot[t].capsule, NULL) \in Waits(rt, rt.slot[t].controller)
                      \/ w2[Owner[t]] = "deport" /\ h2[Owner[t]].slot = t
    BY DEF Undone
  <2>1. t \in Plugin /\ Owner[t] \in Controller
    BY Names
  <2>2. CASE t = p
    BY <1>4, <1>5, <1>6, <2>2
  <2>3. CASE t # p
    <3>1. plan[t] = NULL
      BY <1>6, <2>1, <2>3
    <3>2. \/ Msg("deport", t, rt.slot[t].capsule, NULL) \in Waits(rt, rt.slot[t].controller)
          \/ pc[Owner[t]] = "deport" /\ hand[Owner[t]].slot = t
      BY <1>1, <3>1 DEF Undone
    <3> QED BY <1>2, <1>6, <2>1, <3>2
  <2> QED BY <2>2, <2>3
<1>10. Hands(rt, w2, h2, pl2)
  BY <1>1, <1>4, <1>5, <1>6 DEF Hands
<1>11. Inv(rt, w2, h2, pl2, exiting, NULL)
  BY <1>1, <1>6, <1>7, <1>8, <1>9, <1>10, RestInv
<1> QED BY <1>2, <1>11 DEF IInv

LEMMA DeportFoundStep ==
  ASSUME IInv, NEW c \in Controller, DeportFound(c)
  PROVE  IInv'
<1> DEFINE p  == hand[c].slot
           q  == RequestDeport(rt, c, p)
           w2 == [pc EXCEPT ![c] = "loop"]
           h2 == [hand EXCEPT ![c] = NULL]
<1>1. Inv(rt, pc, hand, plan, exiting, NULL) /\ Hands(rt, pc, hand, plan) /\ Threads(pc, hand, plan)
  BY DEF IInv, Inv
<1>2. /\ pc[c] = "deport" /\ rt' = q /\ pc' = w2 /\ hand' = h2 /\ plan' = plan /\ exiting' = exiting
  BY DEF DeportFound, At
<1>3. p \in Plugin /\ p \in Slot /\ plan[p] = NULL /\ (p \in PlugSlot => Owner[p] = c)
  BY <1>1, <1>2, Names DEF Hands
<1> HIDE DEF p
<1>4. Inv(q, pc, hand, plan, exiting, NULL) /\ Asked(rt, q, c, p)
  BY <1>1, <1>3, RequestDeportInv
<1> HIDE DEF q
<1>5. q \in State /\ TopDestroys(q, pc, plan) /\ Undone(q, pc, hand, plan) /\ Hands(q, pc, hand, plan)
  BY <1>4 DEF Inv
<1>6. /\ Threads(w2, h2, plan)
      /\ \A e \in Controller : w2[e] = IF e = c THEN "loop" ELSE pc[e]
      /\ \A e \in Controller : e # c => h2[e] = hand[e]
  BY <1>1 DEF Threads
<1> HIDE DEF w2, h2
<1>7. GivenUp(q, pc, hand, plan, w2, h2, plan)
  BY <1>2, <1>6 DEF GivenUp
<1>8. \A e \in Controller : \A n \in Waits(q, e) :
        n.op = "destroy" /\ n.waiter # NULL => w2[n.waiter] = "waiting"
  <2> SUFFICES ASSUME NEW e \in Controller, NEW n \in Waits(q, e), n.op = "destroy", n.waiter # NULL
               PROVE  w2[n.waiter] = "waiting"
    OBVIOUS
  <2>1. n.waiter \in Controller
    BY <1>5, StateIs, Commands
  <2>2. pc[n.waiter] = "waiting"
    BY <1>5 DEF TopDestroys
  <2> QED BY <1>2, <1>6, <2>1, <2>2
<1>9. Undone(q, w2, h2, plan)
  <2> SUFFICES ASSUME NEW t \in PlugSlot, q.slot[t].capsule # NULL, plan[t] = NULL
               PROVE  \/ Msg("deport", t, q.slot[t].capsule, NULL) \in Waits(q, q.slot[t].controller)
                      \/ w2[Owner[t]] = "deport" /\ h2[Owner[t]].slot = t
    BY DEF Undone
  <2>1. Owner[t] \in Controller
    BY Names
  <2>2. CASE t = p
    BY <1>3, <1>4, <2>2 DEF Asked
  <2>3. CASE t # p
    <3>1. \/ Msg("deport", t, q.slot[t].capsule, NULL) \in Waits(q, q.slot[t].controller)
          \/ pc[Owner[t]] = "deport" /\ hand[Owner[t]].slot = t
      BY <1>5 DEF Undone
    <3>2. hand[c].slot = p
      BY DEF p
    <3> QED BY <1>6, <2>1, <2>3, <3>1, <3>2
  <2> QED BY <2>2, <2>3
<1>10. Hands(q, w2, h2, plan)
  BY <1>5, <1>6 DEF Hands
<1>11. Inv(q, w2, h2, plan, exiting, NULL)
  BY <1>4, <1>6, <1>7, <1>8, <1>9, <1>10, RestInv
<1> QED BY <1>2, <1>11 DEF IInv

LEMMA ExecuteDeportStep ==
  ASSUME IInv, NEW c \in Controller, ExecuteDeport(c)
  PROVE  IInv'
<1> DEFINE v == Taken(c)
           m == First(c)
           p == m.slot
           i == rt.slot[p].capsule
           q == ControllerDeport(v, p, FALSE)
<1>1. Inv(rt, pc, hand, plan, exiting, NULL) /\ Deports(rt, plan) /\ Occupants(rt)
  BY DEF IInv, Inv
<1>2. Takes(c, "deport") /\ rt' = q /\ pc' = pc /\ hand' = hand /\ plan' = plan /\ exiting' = exiting
  BY DEF ExecuteDeport
<1>3. /\ v \in State /\ SameButCommands(rt, v) /\ Took(rt, v, c, m) /\ m \in Command
      /\ m \in Waits(rt, c) /\ m.op = "deport"
  BY <1>2, Taking
<1>4. /\ p \in Plugin /\ m.capsule \in Capsule /\ plan[p] = NULL
      /\ i = m.capsule /\ rt.slot[p].controller = c
  BY <1>1, <1>3 DEF Deports
<1>5. p \in Slot /\ i # NULL
  BY <1>4, Names
<1>6. rt.slot[p].mapped
  BY <1>1, <1>4, <1>5 DEF Occupants
<1>7. v.slot = rt.slot /\ v.home = rt.home /\ v.initialized = rt.initialized
      /\ v.signals = rt.signals /\ v.fatal = rt.fatal
  BY <1>3 DEF SameButCommands
<1>8. Emptied(v, q, p)
  <2>1. FALSE \in BOOLEAN /\ v.slot[p].controller \in Controller /\ v.slot[p].capsule # NULL
        /\ v.slot[p].mapped
    BY <1>4, <1>5, <1>6, <1>7
  <2> HIDE DEF v, p, i, q
  <2>2. Emptied(v, ControllerDeport(v, p, FALSE), p)
    BY <1>3, <1>5, <2>1, ControllerDeportIs
  <2> QED BY <2>2 DEF q
<1>9. m.slot = p /\ m.capsule = i
  BY <1>4
<1> HIDE DEF v, m, p, q, i
<1>10. /\ q \in State /\ q.home = v.home /\ q.initialized = v.initialized
       /\ q.slot[p] = [v.slot[p] EXCEPT !.capsule = NULL, !.mapped = FALSE]
       /\ Cleared(v, q, p, c, i, FALSE)
  BY <1>4, <1>7, <1>8 DEF Emptied, i
<1>11. Matches(m, p, i, FALSE)
  BY <1>3, <1>9 DEF Matches
<1>12. Purged(rt, q, c, p, i, FALSE)
  <2>1. Purged(v, q, c, p, i, FALSE)
    BY <1>10 DEF Cleared
  <2> SUFFICES ASSUME NEW e \in Controller
               PROVE  /\ Waits(q, e) = {n \in Waits(rt, e) : e = c => ~ Matches(n, p, i, FALSE)}
                      /\ \A a, b : Ahead(rt, e, a, b) /\ (e = c => ~ Matches(a, p, i, FALSE))
                           => Ahead(q, e, a, b)
                      /\ \A n : Single(rt, e, n) => Single(q, e, n)
    BY DEF Purged
  <2>2. /\ Waits(q, e) = {n \in Waits(v, e) : e = c => ~ Matches(n, p, i, FALSE)}
        /\ \A a, b : Ahead(v, e, a, b) /\ (e = c => ~ Matches(a, p, i, FALSE)) => Ahead(q, e, a, b)
        /\ \A n : Single(v, e, n) => Single(q, e, n)
    BY <2>1 DEF Purged
  <2>3. /\ Waits(v, e) \subseteq Waits(rt, e)
        /\ \A n \in Waits(rt, e) : n \in Waits(v, e) \/ (e = c /\ n = m)
        /\ \A a, b : Ahead(rt, e, a, b) /\ (e = c => a # m) => Ahead(v, e, a, b)
        /\ \A n : Single(rt, e, n) => Single(v, e, n)
    BY <1>3 DEF Took
  <2>4. Waits(q, e) = {n \in Waits(rt, e) : e = c => ~ Matches(n, p, i, FALSE)}
    BY <1>11, <2>2, <2>3
  <2>5. \A a, b : Ahead(rt, e, a, b) /\ (e = c => ~ Matches(a, p, i, FALSE)) => Ahead(q, e, a, b)
    BY <1>11, <2>2, <2>3
  <2> QED BY <2>2, <2>3, <2>4, <2>5
<1>13. Cleared(rt, q, p, c, i, FALSE)
  <2>1. q.fatal => rt.fatal \/ \E n \in Waits(v, c) : n.op = "exit"
    BY <1>7, <1>10 DEF Cleared
  <2>2. Waits(v, c) \subseteq Waits(rt, c)
    BY <1>3 DEF Took
  <2> QED BY <1>7, <1>10, <1>12, <2>1, <2>2 DEF Cleared
<1>14. Emptied(rt, q, p)
  BY <1>4, <1>7, <1>10, <1>13 DEF Emptied, i
<1>15. Inv(q, pc, hand, plan, exiting, NULL)
  <2>1. rt.slot[p].capsule # NULL
    BY <1>5 DEF i
  <2> QED BY <1>1, <1>4, <1>14, <2>1, DeportInv
<1> QED BY <1>2, <1>15 DEF IInv

\* A capsule that its user destroys is in no plan, and a plugin slot that holds it is
\* about to let it go.
LEMMA Detaching ==
  ASSUME IInv, NEW c \in Controller, NEW s \in OptSlot, NEW x \in Capsule,
         pc[c] = "loop", rt.slot[s].capsule = x, Detached(c, x),
         NEW p \in Plugin
  PROVE  /\ plan[p] # x
         /\ p \in PartsOf(x) => plan[p] = NULL \/ (plan[p] = rt.slot[p].capsule /\ plan[p] # NULL)
         /\ rt.slot[p].capsule = x =>
              /\ p \in PlugSlot /\ rt.slot[s].controller # c
              /\ Msg("deport", p, x, NULL) \in Waits(rt, rt.slot[s].controller)
<1>1. /\ rt \in State /\ Homes(rt, NULL) /\ Occupants(rt) /\ Plans(rt, pc, hand, plan, NULL)
      /\ Imports(rt, pc, hand, plan) /\ Undone(rt, pc, hand, plan) /\ Deports(rt, plan)
  BY DEF IInv, Inv
<1>2. x # NULL /\ s \in Slot
  BY Names
<1>3. plan[p] # x /\ (rt.slot[p].capsule = x => p \notin Part /\ Owner[p] = c)
      /\ (p \in PartsOf(x) => plan[p] \in {NULL, rt.slot[p].capsule})
  BY DEF Detached
<1>4. ASSUME rt.slot[p].capsule = x
      PROVE  /\ p \in PlugSlot /\ rt.slot[s].controller # c
             /\ Msg("deport", p, x, NULL) \in Waits(rt, rt.slot[s].controller)
  <2>1. p \in PlugSlot /\ Owner[p] = c
    BY <1>3, <1>4, Names
  <2>2. rt.home[x] = s /\ rt.slot[p].controller = rt.slot[s].controller
    BY <1>1, <1>2, <1>4 DEF Homes, Occupants
  <2>3. plan[p] = NULL
    <3>1. SUFFICES ASSUME plan[p] # NULL PROVE FALSE
      OBVIOUS
    <3> DEFINE m == Msg("import", p, plan[p], NULL)
    <3>2. PICK e \in Controller : m \in Waits(rt, e) \/ (pc[e] = "import" /\ hand[e] = m)
      BY <1>1, <1>3, <1>4, <3>1 DEF Plans
    <3>3. m.slot = p /\ m.op = "import"
      BY DEF Msg
    <3> HIDE DEF m
    <3>4. Importable(rt, plan, e, m)
      BY <1>1, <3>2, <3>3 DEF Imports
    <3> QED BY <1>2, <1>4, <3>3, <3>4 DEF Importable
  <2> DEFINE k == Msg("deport", p, x, NULL)
             d == rt.slot[s].controller
  <2>4. k \in Waits(rt, d)
    BY <1>1, <1>2, <1>4, <2>1, <2>2, <2>3 DEF Undone
  <2>5. k.op = "deport" /\ k.slot = p
    BY DEF Msg
  <2>6. d \in Controller
    BY <1>1, <1>2 DEF Homes
  <2> HIDE DEF k, d
  <2>7. d # c
    BY <1>1, <2>1, <2>4, <2>5, <2>6 DEF Deports
  <2> QED BY <2>1, <2>4, <2>7 DEF k, d
<1> QED BY <1>3, <1>4

LEMMA DestroyStep ==
  ASSUME IInv, NEW c \in Controller, NEW s \in OptSlot, Destroy(c, s)
  PROVE  IInv'
<1> DEFINE x   == rt.slot[s].capsule
           d   == rt.slot[s].controller
           pl2 == [p \in Plugin |-> IF p \in PartsOf(x) THEN NULL ELSE plan[p]]
           w2  == [pc EXCEPT ![c] = "waiting"]
           m   == Msg("destroy", s, NULL, c)
<1>1. /\ Inv(rt, pc, hand, plan, exiting, NULL) /\ rt \in State /\ Threads(pc, hand, plan)
      /\ Homes(rt, NULL) /\ TopDestroys(rt, pc, plan)
      /\ Undone(rt, pc, hand, plan) /\ Hands(rt, pc, hand, plan)
  BY DEF IInv, Inv
<1>2. /\ pc[c] = "loop" /\ hand' = hand /\ exiting' = exiting /\ plan' = pl2
      /\ x # NULL /\ Detached(c, x)
      /\ \/ d = c /\ rt' = DestroyTop(rt, s) /\ pc' = pc
         \/ d # c /\ rt' = Enqueue(rt, c, d, m) /\ pc' = w2
  BY DEF Destroy, Used, At
<1>3. /\ s \in Slot /\ d \in Controller /\ x \in Capsule /\ rt.home[x] = s /\ rt.home[x] # NULL
  BY <1>1, <1>2, Names DEF Homes
<1> HIDE DEF x
<1>4. \A p \in Plugin : pl2[p] = IF p \in PartsOf(x) THEN NULL ELSE plan[p]
  OBVIOUS
<1>5. Threads(pc, hand, pl2) /\ Threads(w2, hand, pl2)
  BY <1>1 DEF Threads
<1> HIDE DEF pl2
<1>6. \A p \in Plugin :
        /\ plan[p] # x
        /\ p \in PartsOf(x) => plan[p] = NULL \/ (plan[p] = rt.slot[p].capsule /\ plan[p] # NULL)
        /\ rt.slot[p].capsule = x => p \in PlugSlot /\ d # c /\ Msg("deport", p, x, NULL) \in Waits(rt, d)
  BY <1>2, <1>3, Detaching DEF x
<1>7. \A p \in Plugin : pl2[p] # x /\ (p \in PartsOf(x) => pl2[p] = NULL)
  BY <1>4, <1>6, <1>3, Names
<1>8. \A p \in Plugin : pl2[p] = plan[p] \/ (pl2[p] = NULL /\ rt.slot[p].capsule # NULL)
  BY <1>4, <1>6
<1>9. \A p \in PlugSlot : pl2[p] = plan[p] /\ Owner[p] \in Controller
  BY <1>3, <1>4, Names
<1> HIDE DEF d
<1>10. CASE d = c
  <2>1. GivenUp(rt, pc, hand, plan, pc, hand, pl2)
    BY <1>8 DEF GivenUp
  <2>2. Undone(rt, pc, hand, pl2)
    BY <1>1, <1>9 DEF Undone
  <2>3. Hands(rt, pc, hand, pl2)
    BY <1>1, <1>4 DEF Hands
  <2>4. \A p \in Plugin : p \in Part /\ p[1] = x => pl2[p] = NULL
    BY <1>3, <1>7, Names
  <2>5. \A e \in Controller : \A n \in Waits(rt, e) :
          n.op = "destroy" /\ n.waiter # NULL => pc[n.waiter] = "waiting"
    BY <1>1 DEF TopDestroys
  <2>6. Inv(rt, pc, hand, pl2, exiting, x)
    BY <1>1, <1>5, <2>1, <2>2, <2>3, <2>4, <2>5, RestInv
  <2>7. Going(rt, pc, hand, pl2, exiting, x, s)
    BY <1>6, <1>7, <1>10, <2>6 DEF Going, x
  <2>8. \A p \in Part : p[1] = x => rt.slot[p].exists
    BY <1>1, <1>3, Names DEF Homes
  <2>9. pc[rt.slot[s].controller] = "loop"
    BY <1>2, <1>10 DEF d
  <2>10. Inv(DestroyTop(rt, s), pc, hand, pl2, exiting, NULL)
    BY <1>3, <2>7, <2>8, <2>9, DestroyTopInv
  <2> QED BY <1>2, <1>10, <2>10 DEF IInv
<1>11. CASE d # c
  <2> DEFINE q == Enqueue(rt, c, d, m)
  <2>1. \A e \in Controller : w2[e] = IF e = c THEN "waiting" ELSE pc[e]
    BY <1>1 DEF Threads
  <2> HIDE DEF w2
  <2>2. GivenUp(rt, pc, hand, plan, w2, hand, pl2)
    BY <1>2, <1>8, <2>1 DEF GivenUp
  <2>3. Undone(rt, w2, hand, pl2)
    BY <1>1, <1>2, <1>9, <2>1 DEF Undone
  <2>4. Hands(rt, w2, hand, pl2)
    BY <1>1, <1>4, <2>1 DEF Hands
  <2>5. \A e \in Controller : \A n \in Waits(rt, e) :
          n.op = "destroy" /\ n.waiter # NULL => pc[n.waiter] = "waiting" /\ n.waiter \in Controller
    BY <1>1, StateIs, Commands DEF TopDestroys
  <2>6. \A e \in Controller : \A n \in Waits(rt, e) :
          n.op = "destroy" /\ n.waiter # NULL => w2[n.waiter] = "waiting"
    BY <2>1, <2>5
  <2>7. Inv(rt, w2, hand, pl2, exiting, NULL)
    BY <1>1, <1>5, <2>2, <2>3, <2>4, <2>6, RestInv
  <2>8. m \in Command /\ m.op = "destroy" /\ m.slot = s /\ m.waiter = c
    <3>1. /\ "destroy" \in {"incarnate", "import", "deport", "destroy", "exit"}
          /\ s \in Slot \cup {NULL} /\ NULL \in Instance \cup {NULL} /\ c \in Controller \cup {NULL}
      BY <1>3
    <3>2. m \in Command
      BY <3>1, Commands
    <3> QED BY <3>2 DEF Msg
  <2> HIDE DEF m
  <2>9. q \in State /\ SameButCommands(rt, q) /\ Grown(rt, q, d, m, c # d)
    BY <1>1, <1>3, <2>8, EnqueueIs
  <2> HIDE DEF q
  <2>10. More(rt, q, {d}, m, c # d)
    BY <2>9, MoreIs
  <2>11. Askable(rt, w2, pl2, exiting, NULL, d, m, c # d)
    <3>1. \A e \in Controller : \A n \in Waits(rt, e) : n.op = "destroy" => n.waiter # m.waiter
      BY <1>2, <2>5, <2>8, Names
    <3>2. m.waiter # NULL /\ w2[m.waiter] = "waiting"
      BY <2>1, <2>8, Names
    <3>3. rt.slot[m.slot].capsule = x /\ rt.slot[m.slot].controller = d
      BY <2>8 DEF x, d
    <3> QED BY <1>2, <1>6, <1>7, <1>11, <2>8, <3>1, <3>2, <3>3 DEF Askable
  <2>12. {d} \in SUBSET Controller /\ {d} # {} /\ \A e \in {d} : e = d
    BY <1>3
  <2>13. Inv(q, w2, hand, pl2, exiting, NULL)
    BY <2>7, <2>8, <2>9, <2>10, <2>11, <2>12, AskedInv
  <2> QED BY <1>2, <1>11, <2>13 DEF IInv, q
<1> QED BY <1>10, <1>11

\* The destruction of a part that was asked for.
LEMMA ExecuteDestroyPartStep ==
  ASSUME IInv, NEW c \in Controller, ExecuteDestroy(c), First(c).waiter = NULL
  PROVE  IInv'
<1> DEFINE v == Taken(c)
           m == First(c)
           p == m.slot
<1>1. Inv(rt, pc, hand, plan, exiting, NULL) /\ PartDestroys(rt, NULL) /\ Homes(rt, NULL)
  BY DEF IInv, Inv
<1>2. /\ Takes(c, "destroy") /\ rt' = DestroyPart(v, p)
      /\ pc' = pc /\ hand' = hand /\ plan' = plan /\ exiting' = exiting
  BY DEF ExecuteDestroy
<1>3. /\ SameButCommands(rt, v) /\ Took(rt, v, c, m) /\ m \in Waits(rt, c) /\ m.op = "destroy"
      /\ m.waiter = NULL
  BY <1>2, Taking
<1>4. Inv(v, pc, hand, plan, exiting, NULL)
  BY <1>2, TakenInv
<1> HIDE DEF v, m
<1>5. /\ p \in Part /\ rt.slot[p].exists
      /\ rt.home[p[1]] = NULL \/ p[1] = NULL
      /\ p \in Plugin /\ rt.slot[p].capsule # NULL =>
           Ahead(rt, c, Msg("deport", p, rt.slot[p].capsule, NULL), m)
  BY <1>1, <1>3 DEF PartDestroys
<1>6. p \in Plugin => rt.slot[p].capsule = NULL
  BY <1>3, <1>5 DEF Took
<1> HIDE DEF p
<1>7. /\ v.slot[p].exists /\ (v.home[p[1]] = NULL \/ p[1] = NULL)
      /\ p \in Plugin => v.slot[p].capsule = NULL
  BY <1>3, <1>5, <1>6 DEF SameButCommands
<1>8. Inv(DestroyPart(v, p), pc, hand, plan, exiting, NULL)
  BY <1>4, <1>5, <1>7, DestroyPartInv
<1> QED BY <1>2, <1>8 DEF IInv

\* The destruction of a capsule that another controller waits for.
LEMMA ExecuteDestroyTopStep ==
  ASSUME IInv, NEW c \in Controller, ExecuteDestroy(c), First(c).waiter # NULL
  PROVE  IInv'
<1> DEFINE v  == Taken(c)
           m  == First(c)
           s  == m.slot
           u  == m.waiter
           x  == rt.slot[s].capsule
           q  == DestroyTop(v, s)
           w2 == [pc EXCEPT ![u] = "loop"]
<1>1. /\ Inv(rt, pc, hand, plan, exiting, NULL) /\ TopDestroys(rt, pc, plan) /\ Homes(rt, NULL)
      /\ Waiters(rt) /\ Threads(pc, hand, plan) /\ rt \in State
  BY DEF IInv, Inv
<1>2. /\ Takes(c, "destroy") /\ rt' = q /\ pc' = w2
      /\ hand' = hand /\ plan' = plan /\ exiting' = exiting
  BY DEF ExecuteDestroy
<1>3. /\ SameButCommands(rt, v) /\ Took(rt, v, c, m) /\ m \in Waits(rt, c) /\ m.op = "destroy"
      /\ pc[c] = "loop" /\ m \in Command /\ u # NULL
  BY <1>2, Taking
<1>4. Inv(v, pc, hand, plan, exiting, NULL)
  BY <1>2, TakenInv
<1> HIDE DEF v, m
<1>5. /\ s \in OptSlot /\ rt.slot[s].controller = c /\ x # NULL /\ pc[u] = "waiting"
      /\ Leaves(rt, plan, c, x, m)
  BY <1>1, <1>3 DEF TopDestroys
<1>6. u \in Controller
  BY <1>3, Commands
<1>7. x \in Capsule /\ rt.home[x] # NULL
  BY <1>1, <1>5, Names DEF Homes
<1> HIDE DEF q, s, u, x, w2
<1>8. v.slot = rt.slot /\ v.home = rt.home
  BY <1>3 DEF SameButCommands
<1>9. \A p \in Plugin : plan[p] # x /\ (p \in PartsOf(x) => plan[p] = NULL) /\ v.slot[p].capsule # x
  BY <1>3, <1>5, <1>8 DEF Leaves, Took
<1>10. Inv(v, pc, hand, plan, exiting, x)
  <2>1. GivenUp(v, pc, hand, plan, pc, hand, plan)
    BY DEF GivenUp
  <2>2. \A p \in Plugin : p \in Part /\ p[1] = x => plan[p] = NULL
    BY <1>7, <1>9, Names
  <2>3. \A e \in Controller : \A n \in Waits(v, e) :
          n.op = "destroy" /\ n.waiter # NULL => pc[n.waiter] = "waiting"
    BY <1>4 DEF Inv, TopDestroys
  <2>4. Undone(v, pc, hand, plan) /\ Hands(v, pc, hand, plan)
    BY <1>4 DEF Inv
  <2> QED BY <1>1, <1>4, <2>1, <2>2, <2>3, <2>4, RestInv
<1>11. Going(v, pc, hand, plan, exiting, x, s)
  BY <1>8, <1>9, <1>10 DEF Going, x
<1>12. \A p \in Part : p[1] = x => v.slot[p].exists
  BY <1>1, <1>7, <1>8, Names DEF Homes
<1>13. pc[v.slot[s].controller] = "loop"
  BY <1>3, <1>5, <1>8
<1>14. Inv(q, pc, hand, plan, exiting, NULL) /\ Unwaited(v, q) /\ q.slot[s].capsule = NULL
  BY <1>5, <1>7, <1>11, <1>12, <1>13, DestroyTopInv DEF q
<1>15. TopDestroys(q, pc, plan) /\ Undone(q, pc, hand, plan) /\ Hands(q, pc, hand, plan) /\ q \in State
  BY <1>14 DEF Inv
<1>16. /\ Threads(w2, hand, plan)
       /\ \A e \in Controller : w2[e] = IF e = u THEN "loop" ELSE pc[e]
  BY <1>1 DEF Threads, w2
<1>17. GivenUp(q, pc, hand, plan, w2, hand, plan)
  BY <1>5, <1>16 DEF GivenUp
<1>18. \A e \in Controller : \A n \in Waits(q, e) :
         n.op = "destroy" /\ n.waiter # NULL => w2[n.waiter] = "waiting"
  <2> SUFFICES ASSUME NEW e \in Controller, NEW n \in Waits(q, e), n.op = "destroy", n.waiter # NULL
               PROVE  w2[n.waiter] = "waiting"
    OBVIOUS
  <2>1. n.waiter \in Controller
    BY <1>15, StateIs, Commands
  <2>2. pc[n.waiter] = "waiting" /\ q.slot[n.slot].capsule # NULL
    BY <1>15 DEF TopDestroys
  <2>3. n.waiter # u
    <3>1. n \in Waits(v, e)
      BY <1>14 DEF Unwaited
    <3>2. n \in Waits(rt, e)
      BY <1>3, <3>1 DEF Took
    <3>3. n.waiter = u => n.slot = s
      BY <1>1, <1>3, <3>2 DEF Waiters, s, u
    <3> QED BY <1>14, <2>2, <3>3
  <2> QED BY <1>16, <2>1, <2>2, <2>3
<1>19. Undone(q, w2, hand, plan)
  <2>1. \A p \in PlugSlot : Owner[p] \in Controller
    BY Names
  <2> QED BY <1>5, <1>15, <1>16, <2>1 DEF Undone
<1>20. Hands(q, w2, hand, plan)
  BY <1>15, <1>16 DEF Hands
<1>21. Inv(q, w2, hand, plan, exiting, NULL)
  BY <1>14, <1>16, <1>17, <1>18, <1>19, <1>20, RestInv
<1> QED BY <1>2, <1>21 DEF IInv

LEMMA InitInv ==
  ASSUME Init
  PROVE  IInv
<1>1. /\ rt.slot = [s \in Slot |-> IF s \in Part THEN Gone ELSE Vacant(Owner[s])]
      /\ rt.home = [x \in Capsule |-> NULL] /\ rt.initialized = {}
      /\ rt.incoming = [c \in Controller |-> <<>>] /\ rt.queue = [c \in Controller |-> <<>>]
      /\ rt.signals = [c \in Controller |-> {}] /\ rt.fatal = FALSE
      /\ pc = [c \in Controller |-> "loop"] /\ hand = [c \in Controller |-> NULL]
      /\ plan = [p \in Plugin |-> NULL] /\ exiting = FALSE
  BY DEF Init
<1>2. \A s \in Slot : /\ rt.slot[s] \in SlotState
                      /\ rt.slot[s].capsule = NULL /\ ~ rt.slot[s].mapped
                      /\ s \in Part => ~ rt.slot[s].exists
                      /\ s \notin Part => rt.slot[s].exists /\ rt.slot[s].controller \in Controller
  <2> SUFFICES ASSUME NEW s \in Slot
               PROVE  /\ rt.slot[s] \in SlotState
                      /\ rt.slot[s].capsule = NULL /\ ~ rt.slot[s].mapped
                      /\ s \in Part => ~ rt.slot[s].exists
                      /\ s \notin Part => rt.slot[s].exists /\ rt.slot[s].controller \in Controller
    OBVIOUS
  <2>1. CASE s \in Part
    <3>1. rt.slot[s] = Gone
      BY <1>1, <2>1
    <3> QED BY <2>1, <3>1 DEF Gone, Vacant, SlotState
  <2>2. CASE s \notin Part
    <3>1. rt.slot[s] = Vacant(Owner[s]) /\ Owner[s] \in Controller
      BY <1>1, <2>2, Names
    <3> QED BY <2>2, <3>1 DEF Vacant, SlotState
  <2> QED BY <2>1, <2>2
<1>3. rt \in State
  <2>1. rt.slot \in [Slot -> SlotState]
    <3>1. rt.slot = [s \in Slot |-> rt.slot[s]]
      BY <1>1
    <3> QED BY <1>2, <3>1
  <2>2. \A c \in Controller : <<>> \in Seq(Command)
    OBVIOUS
  <2>3. rt = [slot |-> rt.slot, home |-> rt.home, initialized |-> rt.initialized,
              incoming |-> rt.incoming, queue |-> rt.queue, signals |-> rt.signals,
              fatal |-> rt.fatal]
    BY DEF Init
  <2>4. /\ rt.home \in [Capsule -> OptSlot \cup {NULL}] /\ rt.initialized \in SUBSET Instance
        /\ rt.incoming \in [Controller -> Seq(Command)] /\ rt.queue \in [Controller -> Seq(Command)]
        /\ rt.signals \in [Controller -> SUBSET (Slot \X Instance)] /\ rt.fatal \in BOOLEAN
    BY <1>1, <2>2
  <2> QED BY <2>1, <2>3, <2>4 DEF State
<1>4. \A c \in Controller : Waits(rt, c) = {}
  <2> SUFFICES ASSUME NEW c \in Controller PROVE Waits(rt, c) = {}
    OBVIOUS
  <2>1. rt.queue[c] = <<>> /\ rt.incoming[c] = <<>>
    BY <1>1
  <2>2. Line(rt, c) = <<>>
    BY <2>1 DEF Line
  <2> QED BY <2>2 DEF Waits, Range
<1>5. /\ \A s \in OptSlot \cup PlugSlot : s \in Slot /\ s \notin Part
      /\ \A p \in Plugin : p \in Slot
      /\ \A p \in Part : p \in Slot /\ p[1] \in Capsule
  BY Names
<1>6. /\ \A x \in Capsule : rt.home[x] = NULL
      /\ \A p \in Plugin : plan[p] = NULL
      /\ \A c \in Controller : pc[c] = "loop" /\ rt.signals[c] = {}
  BY <1>1
<1>7. Threads(pc, hand, plan)
  BY <1>1 DEF Threads
<1>8. Homes(rt, NULL)
  BY <1>2, <1>5, <1>6 DEF Homes
<1>9. Occupants(rt) /\ Begun(rt) /\ SignalsKept(rt) /\ Exits(rt, exiting)
  BY <1>1, <1>2, <1>4, <1>5, <1>6 DEF Occupants, Begun, SignalsKept, Exits
<1>10. Incarnates(rt) /\ Imports(rt, pc, hand, plan) /\ Deports(rt, plan) /\ PartDestroys(rt, NULL)
  BY <1>4, <1>6 DEF Incarnates, Imports, Deports, PartDestroys
<1>11. TopDestroys(rt, pc, plan) /\ Waiters(rt) /\ Plans(rt, pc, hand, plan, NULL)
  BY <1>4, <1>6 DEF TopDestroys, Waiters, Plans
<1>12. Undone(rt, pc, hand, plan) /\ Hands(rt, pc, hand, plan)
  BY <1>2, <1>5, <1>6 DEF Undone, Hands
<1> QED BY <1>1, <1>3, <1>7, <1>8, <1>9, <1>10, <1>11, <1>12 DEF IInv, Inv

LEMMA UserStep ==
  ASSUME IInv, NEW c \in Controller, User(c)
  PROVE  IInv'
<1>1. CASE \E s \in OptSlot : Destroy(c, s)
  BY <1>1, DestroyStep
<1>2. CASE \E s \in OptSlot, x \in Capsule : Incarnate(c, s, x)
  BY <1>2, IncarnateStep
<1>3. CASE \E p \in Plugin : Deport(c, p)
  BY <1>3, DeportStep
<1>4. CASE \E p \in Plugin, y \in Capsule : Import(c, p, y)
  BY <1>4, ImportStep
<1>5. CASE \E s \in Slot : Send(c, s)
  BY <1>5, SendStep
<1>6. CASE ExitAll(c)
  BY <1>6, ExitAllStep
<1> QED BY <1>1, <1>2, <1>3, <1>4, <1>5, <1>6 DEF User

LEMMA ExecuteStep ==
  ASSUME IInv, NEW c \in Controller, Execute(c)
  PROVE  IInv'
<1>1. CASE ExecuteIncarnate(c)
  BY <1>1, ExecuteIncarnateStep
<1>2. CASE ExecuteImport(c)
  BY <1>2, ExecuteImportStep
<1>3. CASE ExecuteDeport(c)
  BY <1>3, ExecuteDeportStep
<1>4. CASE ExecuteDestroy(c)
  BY <1>4, ExecuteDestroyPartStep, ExecuteDestroyTopStep
<1>5. CASE ExecuteExit(c)
  BY <1>5, ExecuteExitStep
<1> QED BY <1>1, <1>2, <1>3, <1>4, <1>5 DEF Execute

LEMMA NextStep ==
  ASSUME IInv, [Next]_vars
  PROVE  IInv'
<1>1. CASE UNCHANGED vars
  BY <1>1 DEF vars, IInv
<1>2. CASE Next
  <2>1. PICK c \in Controller : \/ User(c) \/ DeportFound(c)
                                \/ Move(c) \/ Execute(c) \/ BindImport(c) \/ TakeSignal(c)
    BY <1>2 DEF Next
  <2>2. CASE User(c)
    BY <2>2, UserStep
  <2>3. CASE DeportFound(c)
    BY <2>3, DeportFoundStep
  <2>4. CASE Move(c)
    BY <2>4, MoveStep
  <2>5. CASE Execute(c)
    BY <2>5, ExecuteStep
  <2>6. CASE BindImport(c)
    BY <2>6, BindImportStep
  <2>7. CASE TakeSignal(c)
    BY <2>7, TakeSignalStep
  <2> QED BY <2>1, <2>2, <2>3, <2>4, <2>5, <2>6, <2>7
<1> QED BY <1>1, <1>2

-----------------------------------------------------------------------------
(* The results.                                                            *)

\* The inductive invariant of Frame: whatever several controllers incarnate, import,
\* deport and destroy, slots, plans, hands and commands agree, and the commands of a
\* controller are in an order in which none of them meets what it does not expect.
THEOREM FrameInvariant == Spec => []IInv
<1>1. Init => IInv
  BY InitInv
<1>2. IInv /\ [Next]_vars => IInv'
  BY NextStep
<1> QED BY <1>1, <1>2, PTL DEF Spec

\* The slots, capsules, queues and threads of the frame service are what TypeOK says.
THEOREM FrameTypes == Spec => []TypeOK
<1>1. IInv => TypeOK
  BY DEF IInv, Inv, State, SlotState, Threads, TypeOK
<1> QED BY <1>1, FrameInvariant, PTL

\* A signal that waits on a controller is for the capsule that is in its slot, which
\* runs there: whatever takes a capsule out of a slot, or deletes the slot, has
\* purged the signals of the slot on the controller of that capsule.
THEOREM FrameSignals == Spec => []SignalsForOccupant
<1>1. IInv => SignalsForOccupant
  BY DEF IInv, Inv, SignalsKept, SignalsForOccupant
<1> QED BY <1>1, FrameInvariant, PTL

LEMMA LiveSlots ==
  ASSUME IInv
  PROVE  SlotsHoldLive
<1>1. rt \in State /\ Homes(rt, NULL) /\ Occupants(rt)
  BY DEF IInv, Inv
<1>2. ASSUME NEW s \in Slot, NEW i, i = rt.slot[s].capsule, i # NULL
      PROVE  Alive(rt, i) /\ rt.slot[s].controller = RunsOn(rt, i)
  <2>1. CASE s \in OptSlot
    <3>1. i \in Capsule /\ rt.home[i] = s /\ s # NULL
      BY <1>1, <1>2, <2>1, Names DEF Homes
    <3> QED BY <3>1 DEF Alive, RunsOn
  <2>2. CASE s \in Plugin
    <3>1. i \in Capsule /\ rt.home[i] # NULL /\ rt.slot[s].controller = rt.slot[rt.home[i]].controller
      BY <1>1, <1>2, <2>2 DEF Occupants
    <3> QED BY <3>1 DEF Alive, RunsOn
  <2>3. CASE s \in Part /\ s \notin Plugin
    <3>1. i = s /\ s \notin Capsule
      BY <1>1, <1>2, <2>3, Names DEF Homes
    <3> QED BY <1>2, <3>1 DEF Alive, RunsOn
  <2> QED BY <2>1, <2>2, <2>3, Names
<1> QED BY <1>1, <1>2 DEF Homes, SlotsHoldLive

LEMMA PendingIs ==
  ASSUME IInv, NEW c \in Controller
  PROVE  Pending(c) = Waits(rt, c) \cup (IF pc[c] = "import" THEN {hand[c]} ELSE {})
<1>1. Queues(rt)
  BY StateIs DEF IInv, Inv
<1>2. Waits(rt, c) = Range(rt.incoming[c] \o rt.queue[c])
  BY <1>1, WaitsIs
<1> QED BY <1>2 DEF Pending

LEMMA LiveCommands ==
  ASSUME IInv
  PROVE  CommandsLive
<1>1. /\ Inv(rt, pc, hand, plan, exiting, NULL) /\ rt \in State /\ Homes(rt, NULL) /\ Occupants(rt)
      /\ Incarnates(rt) /\ Imports(rt, pc, hand, plan) /\ Deports(rt, plan)
      /\ PartDestroys(rt, NULL) /\ TopDestroys(rt, pc, plan) /\ Exits(rt, exiting)
  BY DEF IInv, Inv
<1> SUFFICES ASSUME NEW c \in Controller, NEW m \in Pending(c)
             PROVE  /\ m.slot # NULL => rt.slot[m.slot].exists
                    /\ m.op \in {"incarnate", "import"} =>
                         Alive(rt, m.capsule) /\ RunsOn(rt, m.capsule) = c
  BY DEF CommandsLive
<1>2. m \in Waits(rt, c) \/ (pc[c] = "import" /\ m = hand[c])
  BY PendingIs
<1>3. m \in Command /\ m.op \in {"incarnate", "import", "deport", "destroy", "exit"}
  <2>1. m \in Command
    BY <1>1, <1>2, StateIs DEF Imports
  <2> QED BY <2>1 DEF Command
<1>4. CASE m.op = "import"
  <2>1. Importable(rt, plan, c, m)
    BY <1>1, <1>2, <1>4 DEF Imports
  <2> QED BY <1>4, <2>1 DEF Importable, Alive, RunsOn
<1>5. CASE m.op # "import"
  <2>1. m \in Waits(rt, c)
    BY <1>1, <1>2, <1>5 DEF Imports
  <2>2. CASE m.op = "incarnate"
    BY <1>1, <2>1, <2>2 DEF Incarnates
  <2>3. CASE m.op = "deport"
    <3>1. m.slot \in Plugin /\ rt.slot[m.slot].capsule # NULL
      BY <1>1, <2>1, <2>3, Names DEF Deports
    <3> QED BY <1>1, <2>3, <3>1 DEF Occupants
  <2>4. CASE m.op = "destroy"
    BY <1>1, <2>1, <2>4 DEF PartDestroys, TopDestroys, Homes
  <2>5. CASE m.op = "exit"
    BY <1>1, <2>1, <2>5 DEF Exits
  <2> QED BY <1>3, <1>5, <2>2, <2>3, <2>4, <2>5
<1> QED BY <1>4, <1>5

\* No slot holds a deleted capsule, and no command refers to a deleted slot or
\* capsule: the bare pointers in slots and commands never dangle, though addresses
\* are used again.
THEOREM FrameNothingDangles == Spec => []NothingDangles
<1>1. IInv => NothingDangles
  BY LiveSlots, LiveCommands DEF NothingDangles
<1> QED BY <1>1, FrameInvariant, PTL

\* An import that was accepted is done, or still waits where the slot runs: no purge
\* by a deport or a destroy removes it.
THEOREM FrameImportsKept == Spec => []ImportsKept
<1>1. ASSUME IInv PROVE ImportsKept
  <2>1. Plans(rt, pc, hand, plan, NULL) /\ Imports(rt, pc, hand, plan) /\ Threads(pc, hand, plan)
    BY <1>1 DEF IInv, Inv
  <2> SUFFICES ASSUME NEW p \in Plugin, plan[p] # NULL, rt.slot[p].capsule # plan[p]
               PROVE  Msg("import", p, plan[p], NULL) \in Pending(rt.slot[p].controller)
    BY DEF ImportsKept
  <2> DEFINE m == Msg("import", p, plan[p], NULL)
  <2>2. PICK c \in Controller : m \in Waits(rt, c) \/ (pc[c] = "import" /\ hand[c] = m)
    BY <2>1 DEF Plans
  <2>3. m.op = "import" /\ m.slot = p
    BY DEF Msg
  <2> HIDE DEF m
  <2>4. Importable(rt, plan, c, m)
    BY <2>1, <2>2, <2>3 DEF Imports
  <2>5. rt.slot[p].controller = c
    BY <2>3, <2>4 DEF Importable
  <2>6. m \in Pending(c)
    BY <1>1, <2>2, PendingIs
  <2> QED BY <2>5, <2>6 DEF m
<1>2. IInv => ImportsKept
  BY <1>1
<1> QED BY <1>2, FrameInvariant, PTL

\* No capsule that follows its own containers' rules ends the process, in any
\* interleaving, until EXIT has been sent.
THEOREM FrameNoFatal == Spec => []FatalOnlyOnExit
<1>1. IInv => FatalOnlyOnExit
  BY DEF IInv, Inv, Exits, FatalOnlyOnExit
<1> QED BY <1>1, FrameInvariant, PTL
=============================================================================
