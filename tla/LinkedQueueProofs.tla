-------------------------- MODULE LinkedQueueProofs --------------------------
(***************************************************************************)
(* Theorems about LinkedQueue, for any finite set of elements, any threads *)
(* that send, and any bounds.                                              *)
(***************************************************************************)
EXTENDS LinkedQueue, FiniteSetTheorems, Induction, TLAPS

(* Linked lists.                                                           *)

\* f, with y at x: the provers compare what has a name more easily than EXCEPT.
Point(f, x, y) == [f EXCEPT ![x] = y]

\* A list is as it was if no pointer on it was changed.
LEMMA LinkedFrame ==
  ASSUME NEW nx, NEW ny, NEW p, NEW s, Linked(nx, p, s),
         \A e \in Range(s) : ny[e] = nx[e]
  PROVE  Linked(ny, p, s)
<1>1. s \in Seq(Element) /\ \A i \in 1 .. Len(s) : s[i] \in Range(s)
  BY DEF Linked, Range
<1> QED BY <1>1 DEF Linked

LEMMA LinkedEmpty ==
  ASSUME NEW nx
  PROVE  Linked(nx, NULL, <<>>) /\ Range(<<>>) = {}
  BY EmptySeq DEF Linked, Range

\* A list is empty where its pointer is null.
LEMMA LinkedNull ==
  ASSUME NEW nx, NEW p, NEW s, Linked(nx, p, s)
  PROVE  p \in Pointer /\ (p = NULL <=> s = <<>>) /\ (p # NULL => p \in Range(s))
<1>1. CASE s = <<>>
  BY <1>1 DEF Linked, Pointer
<1>2. CASE s # <<>>
  <2>1. s[1] \in Element /\ s[1] \in Range(s) /\ p = s[1]
    BY <1>2 DEF Linked, Range
  <2> QED BY <1>2, <2>1, NullAssumption DEF Pointer
<1> QED BY <1>1, <1>2

LEMMA RangeType ==
  ASSUME NEW s \in Seq(Element)
  PROVE  Range(s) \subseteq Element
  BY DEF Range

\* A new first element.
LEMMA LinkedPush ==
  ASSUME NEW nx \in [Element -> Pointer], NEW p, NEW s, Linked(nx, p, s),
         NEW e \in Element, e \notin Range(s)
  PROVE  /\ Linked(Point(nx, e, p), e, Cons(e, s))
         /\ Range(Cons(e, s)) = Range(s) \cup {e} /\ Len(Cons(e, s)) = Len(s) + 1
<1> DEFINE t == <<e>> \o s
           ny == [nx EXCEPT ![e] = p]
<1>1. s \in Seq(Element) /\ \A i \in 1 .. Len(s) : s[i] \in Range(s) /\ s[i] \in Element
  BY DEF Linked, Range
<1>2. /\ t \in Seq(Element) /\ Len(t) = Len(s) + 1 /\ t[1] = e
      /\ \A i \in 1 .. Len(s) : t[i + 1] = s[i]
      /\ t # <<>>
  BY <1>1
<1>3. \A i \in 2 .. Len(t) : i - 1 \in 1 .. Len(s) /\ t[i] = s[i - 1]
  BY <1>1, <1>2
<1>4. ny[e] = p /\ \A x \in Element : x # e => ny[x] = nx[x]
  BY LinkedNull
<1> HIDE DEF t, ny
<1>5. ASSUME NEW i \in 1 .. Len(t)
      PROVE  ny[t[i]] = IF i = Len(t) THEN NULL ELSE t[i + 1]
  <2>1. CASE i = 1
    BY <1>1, <1>2, <1>4, <2>1 DEF Linked
  <2>2. CASE i # 1
    <3>1. t[i] = s[i - 1] /\ i - 1 \in 1 .. Len(s) /\ t[i] # e /\ t[i] \in Element
      BY <1>1, <1>3, <2>2
    <3>2. nx[s[i - 1]] = IF i - 1 = Len(s) THEN NULL ELSE s[(i - 1) + 1]
      BY <3>1 DEF Linked
    <3>3. i # Len(t) => i + 1 \in 2 .. Len(t) /\ t[i + 1] = s[i]
      BY <1>1, <1>2, <1>3, <2>2
    <3> QED BY <1>1, <1>2, <1>4, <3>1, <3>2, <3>3
  <2> QED BY <2>1, <2>2
<1>6. ASSUME NEW i \in 1 .. Len(t), NEW j \in 1 .. Len(t), t[i] = t[j] PROVE i = j
  <2>1. CASE i = 1 \/ j = 1
    <3>1. \A k \in 1 .. Len(t) : k # 1 => t[k] # e
      BY <1>1, <1>2, <1>3
    <3> QED BY <1>2, <1>6, <2>1, <3>1
  <2>2. CASE i # 1 /\ j # 1
    <3>1. s[i - 1] = s[j - 1] /\ i - 1 \in 1 .. Len(s) /\ j - 1 \in 1 .. Len(s)
      BY <1>1, <1>2, <1>3, <1>6, <2>2
    <3>2. i - 1 = j - 1
      BY <3>1 DEF Linked
    <3> QED BY <3>2
  <2> QED BY <2>1, <2>2
<1>7. Range(t) = Range(s) \cup {e}
  <2>1. DOMAIN t = 1 .. Len(s) + 1 /\ DOMAIN s = 1 .. Len(s) /\ Len(s) \in Nat
    BY <1>1, <1>2
  <2>2. \A x \in Range(t) : x \in Range(s) \cup {e}
    <3> SUFFICES ASSUME NEW i \in 1 .. Len(t) PROVE t[i] \in Range(s) \cup {e}
      BY <1>2, <2>1 DEF Range
    <3>1. i = 1 \/ (t[i] = s[i - 1] /\ i - 1 \in DOMAIN s)
      BY <1>3, <2>1
    <3>2. t[1] = e
      BY <1>2
    <3> HIDE DEF t
    <3> QED BY <3>1, <3>2 DEF Range
  <2>3. \A x \in Range(s) : x \in Range(t)
    <3> SUFFICES ASSUME NEW i \in 1 .. Len(s) PROVE s[i] \in Range(t)
      BY <2>1 DEF Range
    <3>1. i + 1 \in DOMAIN t /\ t[i + 1] = s[i]
      BY <1>2, <2>1
    <3> QED BY <3>1 DEF Range
  <2>4. e \in Range(t)
    BY <1>2, <2>1 DEF Range
  <2> QED BY <2>2, <2>3, <2>4, Zenon
<1>8. Linked(ny, e, t)
  <2> HIDE DEF t, ny
  <2>1. t # <<>> /\ t[1] = e
    BY <1>2
  <2> QED BY <1>2, <1>5, <1>6, <2>1 DEF Linked
<1> QED BY <1>2, <1>7, <1>8 DEF t, ny, Point, Cons

\* The first element is taken off.
LEMMA LinkedPop ==
  ASSUME NEW nx, NEW p, NEW s, Linked(nx, p, s), p # NULL
  PROVE  /\ Linked(nx, nx[p], Tail(s)) /\ Range(Tail(s)) = Range(s) \ {p}
         /\ p \in Element /\ p \in Range(s) /\ Len(Tail(s)) = Len(s) - 1 /\ Len(s) # 0
<1> DEFINE t == Tail(s)
<1>1. s \in Seq(Element) /\ s # <<>> /\ p = s[1] /\ Len(s) \in Nat \ {0}
  BY LinkedNull DEF Linked
<1>2. /\ t \in Seq(Element) /\ Len(t) = Len(s) - 1
      /\ \A i \in 1 .. Len(t) : t[i] = s[i + 1]
  BY <1>1, HeadTailProperties
<1> HIDE DEF t
<1>3. ASSUME NEW i \in 1 .. Len(t)
      PROVE  nx[t[i]] = IF i = Len(t) THEN NULL ELSE t[i + 1]
  <2>1. i + 1 \in 1 .. Len(s) /\ t[i] = s[i + 1]
    BY <1>1, <1>2
  <2>2. nx[s[i + 1]] = IF i + 1 = Len(s) THEN NULL ELSE s[(i + 1) + 1]
    BY <2>1 DEF Linked
  <2>3. i # Len(t) => t[i + 1] = s[(i + 1) + 1]
    BY <1>1, <1>2
  <2> QED BY <1>1, <1>2, <2>1, <2>2, <2>3
<1>4. ASSUME NEW i \in 1 .. Len(t), NEW j \in 1 .. Len(t), t[i] = t[j] PROVE i = j
  <2>1. s[i + 1] = s[j + 1] /\ i + 1 \in 1 .. Len(s) /\ j + 1 \in 1 .. Len(s)
    BY <1>1, <1>2, <1>4
  <2>2. i + 1 = j + 1
    BY <2>1 DEF Linked
  <2> QED BY <2>2
<1>5. nx[p] = IF t = <<>> THEN NULL ELSE t[1]
  <2>1. nx[s[1]] = IF 1 = Len(s) THEN NULL ELSE s[1 + 1]
    <3>1. 1 \in 1 .. Len(s)
      BY <1>1
    <3> QED BY <3>1 DEF Linked
  <2>2. t = <<>> <=> Len(s) = 1
    BY <1>1, <1>2
  <2>3. t # <<>> => t[1] = s[1 + 1]
    BY <1>1, <1>2
  <2> QED BY <1>1, <2>1, <2>2, <2>3
<1>6. Range(t) = Range(s) \ {p}
  <2>1. DOMAIN t = 1 .. Len(s) - 1 /\ DOMAIN s = 1 .. Len(s)
    BY <1>1, <1>2
  <2>2. \A i \in DOMAIN t : i + 1 \in DOMAIN s /\ t[i] = s[i + 1] /\ s[i + 1] # s[1]
    BY <1>1, <1>2, <2>1 DEF Linked
  <2>3. \A i \in DOMAIN s : i # 1 => i - 1 \in DOMAIN t /\ t[i - 1] = s[i]
    BY <1>1, <1>2, <2>1
  <2> QED BY <1>1, <2>2, <2>3 DEF Range
<1>7. s[1] \in Element /\ s[1] \in Range(s)
  BY <1>1 DEF Range
<1> QED BY <1>1, <1>2, <1>3, <1>4, <1>5, <1>6, <1>7 DEF Linked, t

LEMMA LastTail ==
  ASSUME NEW s \in Seq(Element), s # <<>>, Tail(s) # <<>>
  PROVE  Last(Tail(s)) = Last(s)
<1>1. /\ Len(Tail(s)) = Len(s) - 1 /\ Tail(s) \in Seq(Element)
      /\ \A i \in 1 .. Len(Tail(s)) : Tail(s)[i] = s[i + 1]
  BY HeadTailProperties
<1>2. Len(Tail(s)) \in 1 .. Len(Tail(s)) /\ Len(Tail(s)) + 1 = Len(s)
  BY <1>1
<1>3. Tail(s)[Len(Tail(s))] = s[Len(s)]
  BY <1>1, <1>2
<1> QED BY <1>3 DEF Last

\* The last pointer of a list is null.
LEMMA LinkedLast ==
  ASSUME NEW nx, NEW p, NEW s, Linked(nx, p, s), p # NULL
  PROVE  /\ Len(s) \in Nat \ {0} /\ s[Len(s)] \in Range(s) /\ s[Len(s)] \in Element
         /\ nx[s[Len(s)]] = NULL
<1>1. s \in Seq(Element) /\ s # <<>> /\ Len(s) \in Nat \ {0}
  BY LinkedNull DEF Linked
<1>2. Len(s) \in 1 .. Len(s) /\ Len(s) \in DOMAIN s
  BY <1>1
<1>3. nx[s[Len(s)]] = NULL
  BY <1>2 DEF Linked
<1> QED BY <1>1, <1>2, <1>3 DEF Range

\* Two lists, one behind the other.
LEMMA LinkedConcat ==
  ASSUME NEW nx \in [Element -> Pointer], NEW p, NEW s, Linked(nx, p, s), p # NULL,
         NEW q, NEW t, Linked(nx, q, t), Range(s) \cap Range(t) = {}
  PROVE  Linked(Point(nx, s[Len(s)], q), p, s \o t)
<1> DEFINE u == s \o t
           ny == [nx EXCEPT ![s[Len(s)]] = q]
<1>1. /\ s \in Seq(Element) /\ t \in Seq(Element) /\ s # <<>> /\ p = s[1]
      /\ Len(s) \in Nat \ {0} /\ Len(t) \in Nat /\ s[Len(s)] \in Element
      /\ DOMAIN s = 1 .. Len(s) /\ DOMAIN t = 1 .. Len(t)
  BY LinkedNull, LinkedLast DEF Linked
<1>2. /\ u \in Seq(Element) /\ Len(u) = Len(s) + Len(t)
      /\ \A i \in 1 .. Len(s) : u[i] = s[i]
      /\ \A i \in 1 .. Len(t) : u[Len(s) + i] = t[i]
  BY <1>1, ConcatProperties
<1>3. \A i \in 1 .. Len(u) : i > Len(s) => i - Len(s) \in 1 .. Len(t) /\ u[i] = t[i - Len(s)]
  BY <1>1, <1>2
<1>4. ny[s[Len(s)]] = q /\ \A x \in Element : x # s[Len(s)] => ny[x] = nx[x]
  BY <1>1, LinkedNull
<1>5. \A i \in 1 .. Len(s), j \in 1 .. Len(t) : s[i] # t[j]
  BY <1>1 DEF Range
<1> HIDE DEF u, ny
<1>6. Len(s) \in Nat \ {0} /\ Len(t) \in Nat /\ Len(u) = Len(s) + Len(t)
  BY <1>1, <1>2
<1>7. ASSUME NEW i \in 1 .. Len(u)
      PROVE  ny[u[i]] = IF i = Len(u) THEN NULL ELSE u[i + 1]
  <2>1. CASE i < Len(s)
    <3>1. i \in 1 .. Len(s) /\ i + 1 \in 1 .. Len(s) /\ Len(s) \in 1 .. Len(s)
      BY <1>1, <1>2, <2>1
    <3>2. nx[s[i]] = s[i + 1] /\ s[i] # s[Len(s)]
      BY <2>1, <3>1 DEF Linked
    <3>3. u[i] = s[i] /\ u[i + 1] = s[i + 1] /\ s[i] \in Element
      BY <1>1, <1>2, <3>1
    <3> QED BY <1>1, <1>2, <1>4, <2>1, <3>2, <3>3
  <2>2. CASE i = Len(s)
    <3>1. u[i] = s[Len(s)] /\ ny[u[i]] = q
      BY <1>1, <1>2, <1>4, <2>2
    <3>2. CASE t = <<>>
      <4>1. q = NULL /\ Len(t) = 0
        BY <3>2 DEF Linked
      <4> QED BY <1>1, <1>2, <2>2, <3>1, <4>1
    <3>3. CASE t # <<>>
      <4>1. q = t[1]
        BY <3>3 DEF Linked
      <4>2. Len(t) # 0
        BY <1>1, <3>3
      <4>3. 1 \in 1 .. Len(t) /\ i # Len(u)
        BY <1>6, <2>2, <4>2
      <4>4. u[i + 1] = t[1]
        BY <1>2, <2>2, <4>3
      <4> QED BY <3>1, <4>1, <4>3, <4>4
    <3> QED BY <3>2, <3>3
  <2>3. CASE i > Len(s)
    <3>1. PICK j \in 1 .. Len(t) : j = i - Len(s)
      BY <1>1, <1>3, <2>3
    <3>2. u[i] = t[j] /\ t[j] \in Element /\ t[j] # s[Len(s)]
      BY <1>1, <1>2, <1>3, <1>5, <2>3, <3>1
    <3>3. nx[t[j]] = IF j = Len(t) THEN NULL ELSE t[j + 1]
      BY <3>1 DEF Linked
    <3>4. j = Len(t) <=> i = Len(u)
      BY <1>6, <3>1
    <3>5. i # Len(u) => u[i + 1] = t[j + 1]
      <4>1. i # Len(u) => i + 1 \in 1 .. Len(u) /\ i + 1 > Len(s) /\ (i + 1) - Len(s) = j + 1
        BY <1>6, <2>3, <3>1
      <4> QED BY <1>3, <4>1
    <3>6. ny[u[i]] = nx[t[j]]
      BY <1>4, <3>2
    <3> QED BY <3>3, <3>4, <3>5, <3>6
  <2> QED BY <1>6, <2>1, <2>2, <2>3
<1>8. ASSUME NEW i \in 1 .. Len(u), NEW j \in 1 .. Len(u), u[i] = u[j] PROVE i = j
  <2>1. CASE i <= Len(s) /\ j <= Len(s)
    <3>1. i \in 1 .. Len(s) /\ j \in 1 .. Len(s) /\ s[i] = s[j]
      BY <1>1, <1>2, <1>8, <2>1
    <3> QED BY <3>1 DEF Linked
  <2>2. CASE i > Len(s) /\ j > Len(s)
    <3>1. /\ i - Len(s) \in 1 .. Len(t) /\ j - Len(s) \in 1 .. Len(t)
          /\ t[i - Len(s)] = t[j - Len(s)]
      BY <1>3, <1>8, <2>2
    <3>2. i - Len(s) = j - Len(s)
      BY <3>1 DEF Linked
    <3> QED BY <1>1, <3>2
  <2>3. CASE i <= Len(s) /\ j > Len(s)
    BY <1>1, <1>2, <1>3, <1>5, <1>8, <2>3
  <2>4. CASE i > Len(s) /\ j <= Len(s)
    BY <1>1, <1>2, <1>3, <1>5, <1>8, <2>4
  <2> QED BY <1>1, <2>1, <2>2, <2>3, <2>4
<1>9. u # <<>> /\ u[1] = p
  BY <1>1, <1>2
<1> QED BY <1>2, <1>7, <1>8, <1>9 DEF Linked, u, ny, Point

LEMMA RangeConcat ==
  ASSUME NEW s \in Seq(Element), NEW t \in Seq(Element)
  PROVE  /\ s \o t \in Seq(Element) /\ Range(s \o t) = Range(s) \cup Range(t)
         /\ Len(s \o t) = Len(s) + Len(t)
<1>1. /\ s \o t \in Seq(Element) /\ Len(s \o t) = Len(s) + Len(t)
      /\ \A i \in 1 .. Len(s) : (s \o t)[i] = s[i]
      /\ \A i \in 1 .. Len(t) : (s \o t)[Len(s) + i] = t[i]
  BY ConcatProperties
<1>2. PICK u : u = s \o t
  OBVIOUS
<1>3. /\ DOMAIN s = 1 .. Len(s) /\ DOMAIN t = 1 .. Len(t) /\ DOMAIN u = 1 .. Len(s) + Len(t)
      /\ Len(s) \in Nat /\ Len(t) \in Nat
  BY <1>1, <1>2
<1>4. ASSUME NEW x \in Range(u) PROVE x \in Range(s) \cup Range(t)
  <2>1. PICK i \in DOMAIN u : x = u[i]
    BY DEF Range
  <2>2. CASE i <= Len(s)
    BY <1>1, <1>2, <1>3, <2>1, <2>2 DEF Range
  <2>3. CASE i > Len(s)
    <3>1. i - Len(s) \in DOMAIN t /\ x = t[i - Len(s)]
      BY <1>1, <1>2, <1>3, <2>1, <2>3
    <3> QED BY <3>1 DEF Range
  <2> QED BY <1>3, <2>2, <2>3
<1>5. ASSUME NEW i \in DOMAIN s PROVE s[i] \in Range(u)
  BY <1>1, <1>2, <1>3 DEF Range
<1>6. ASSUME NEW i \in DOMAIN t PROVE t[i] \in Range(u)
  <2>1. Len(s) + i \in DOMAIN u /\ u[Len(s) + i] = t[i]
    BY <1>1, <1>2, <1>3
  <2> QED BY <2>1 DEF Range
<1>7. \A x \in Range(s) \cup Range(t) : x \in Range(u)
  BY <1>5, <1>6 DEF Range
<1> QED BY <1>1, <1>2, <1>4, <1>7

LEMMA LastConcat ==
  ASSUME NEW s \in Seq(Element), NEW t \in Seq(Element), t # <<>>
  PROVE  Last(s \o t) = Last(t)
<1>1. /\ Len(s \o t) = Len(s) + Len(t)
      /\ \A i \in 1 .. Len(t) : (s \o t)[Len(s) + i] = t[i]
  BY ConcatProperties
<1>2. Len(t) \in 1 .. Len(t)
  OBVIOUS
<1>3. (s \o t)[Len(s) + Len(t)] = t[Len(t)]
  BY <1>1, <1>2
<1> QED BY <1>1, <1>3 DEF Last

\* A new last element.
LEMMA LinkedAppend ==
  ASSUME NEW nx \in [Element -> Pointer], NEW p, NEW s, Linked(nx, p, s),
         NEW e \in Element, e \notin Range(s)
  PROVE  /\ Linked(IF p = NULL THEN Point(nx, e, NULL)
                   ELSE Point(Point(nx, e, NULL), s[Len(s)], e),
                   IF p = NULL THEN e ELSE p, Append(s, e))
         /\ Range(Append(s, e)) = Range(s) \cup {e}
         /\ Len(Append(s, e)) = Len(s) + 1 /\ Last(Append(s, e)) = e
<1> DEFINE one == <<e>>
           ny == Point(nx, e, NULL)
<1>1. s \in Seq(Element) /\ one \in Seq(Element) /\ Len(one) = 1 /\ one[1] = e /\ one # <<>>
  BY DEF Linked
<1>2. ny \in [Element -> Pointer] /\ ny[e] = NULL /\ \A x \in Element : x # e => ny[x] = nx[x]
  BY DEF Pointer, Point
<1>3. Range(one) = {e}
  <2>1. DOMAIN one = {1}
    BY <1>1
  <2> QED BY <1>1, <2>1 DEF Range
<1>4. s \o one = Append(s, e)
  BY <1>1, AppendIsConcat
<1>5. Range(Append(s, e)) = Range(s) \cup {e}
  <2>1. Range(s \o one) = Range(s) \cup Range(one)
    BY <1>1, RangeConcat
  <2> QED BY <1>3, <1>4, <2>1
<1>6. Len(Append(s, e)) = Len(s) + 1 /\ Last(Append(s, e)) = e
  BY <1>1, AppendProperties DEF Last
<1> HIDE DEF one, ny
<1>7. Linked(ny, e, one)
  BY <1>1, <1>2 DEF Linked
<1>8. Linked(ny, p, s)
  <2>1. \A x \in Range(s) : ny[x] = nx[x]
    BY <1>1, <1>2, RangeType
  <2> QED BY <2>1, LinkedFrame
<1>9. CASE p = NULL
  <2>1. s \o one = one
    <3>1. s = <<>>
      BY <1>9, LinkedNull
    <3> QED BY <1>1, <3>1, ConcatEmptySeq
  <2> QED BY <1>4, <1>5, <1>6, <1>7, <1>9, <2>1 DEF ny
<1>10. CASE p # NULL
  <2>1. s[Len(s)] \in Element
    BY <1>10, LinkedLast
  <2>2. Linked(Point(ny, s[Len(s)], e), p, s \o one)
    BY <1>2, <1>3, <1>7, <1>8, <1>10, LinkedConcat
  <2> QED BY <1>4, <1>5, <1>6, <1>10, <2>2 DEF ny
<1> QED BY <1>9, <1>10

\* The list without the element after the one at k.
Without(s, k) == RemoveAt(s, k + 1)

LEMMA LinkedNext ==
  ASSUME NEW nx, NEW p, NEW s, Linked(nx, p, s), NEW k \in 1 .. Len(s), nx[s[k]] # NULL
  PROVE  k + 1 \in 1 .. Len(s) /\ nx[s[k]] = s[k + 1]
<1>1. nx[s[k]] = IF k = Len(s) THEN NULL ELSE s[k + 1]
  BY DEF Linked
<1>2. Len(s) \in Nat
  BY DEF Linked
<1> QED BY <1>1, <1>2

LEMMA LinkedUnlink ==
  ASSUME NEW nx \in [Element -> Pointer], NEW p, NEW s, Linked(nx, p, s),
         NEW k \in 1 .. Len(s), nx[s[k]] # NULL
  PROVE  /\ Linked(Point(nx, s[k], nx[nx[s[k]]]), p, Without(s, k))
         /\ Range(Without(s, k)) = Range(s) \ {nx[s[k]]}
         /\ Len(Without(s, k)) = Len(s) - 1
         /\ \A i \in 1 .. k : Without(s, k)[i] = s[i]
<1> DEFINE t == RemoveAt(s, k + 1)
           ny == [nx EXCEPT ![s[k]] = nx[s[k + 1]]]
<1>1. s \in Seq(Element) /\ Len(s) \in Nat
  BY DEF Linked
<1>2. k + 1 \in 1 .. Len(s) /\ nx[s[k]] = s[k + 1]
  BY LinkedNext
<1>3. t \in Seq(Element) /\ Len(t) = Len(s) - 1
  BY <1>1, <1>2, RemoveAtIs
<1>4. \A i \in 1 .. Len(t) : t[i] = IF i <= k THEN s[i] ELSE s[i + 1]
  <2>1. \A i \in 1 .. Len(s) - 1 : t[i] = IF i < k + 1 THEN s[i] ELSE s[i + 1]
    BY <1>1, <1>2, RemoveAtIs
  <2>2. \A i \in 1 .. Len(s) - 1 : i < k + 1 <=> i <= k
    BY <1>1
  <2> QED BY <1>3, <2>1, <2>2
<1>5. \A i \in 1 .. Len(t) : i \in 1 .. Len(s) /\ i + 1 \in 1 .. Len(s)
  BY <1>1, <1>3
<1>6. \A i \in 1 .. Len(s) : s[i] \in Element
  BY <1>1
<1>7. ny[s[k]] = nx[s[k + 1]] /\ \A x \in Element : x # s[k] => ny[x] = nx[x]
  BY <1>6
<1>8. k \in 1 .. Len(t) /\ Len(t) \in Nat
  BY <1>1, <1>2, <1>3
<1> HIDE DEF t, ny
<1>9. ASSUME NEW i \in 1 .. Len(t)
      PROVE  ny[t[i]] = IF i = Len(t) THEN NULL ELSE t[i + 1]
  <2>1. i # Len(t) => i + 1 \in 1 .. Len(t)
    BY <1>8
  <2>2. CASE i < k
    <3>1. i + 1 \in 1 .. Len(t) /\ i + 1 <= k /\ i # Len(t) /\ i # k
      BY <1>8, <2>2
    <3>2. t[i] = s[i] /\ t[i + 1] = s[i + 1] /\ s[i] # s[k] /\ nx[s[i]] = s[i + 1]
      BY <1>2, <1>4, <1>5, <2>2, <3>1 DEF Linked
    <3> QED BY <1>5, <1>6, <1>7, <3>1, <3>2
  <2>3. CASE i = k
    <3>1. t[i] = s[k] /\ ny[t[i]] = nx[s[k + 1]]
      BY <1>4, <1>7, <2>3
    <3>2. nx[s[k + 1]] = IF k + 1 = Len(s) THEN NULL ELSE s[(k + 1) + 1]
      BY <1>2 DEF Linked
    <3>3. i = Len(t) <=> k + 1 = Len(s)
      BY <1>1, <1>3, <2>3
    <3>4. i # Len(t) => t[i + 1] = s[(k + 1) + 1]
      BY <1>4, <2>1, <2>3
    <3> QED BY <3>1, <3>2, <3>3, <3>4
  <2>4. CASE i > k
    <3>1. t[i] = s[i + 1] /\ i + 1 \in 1 .. Len(s) /\ i + 1 # k
      BY <1>4, <1>5, <2>4
    <3>2. nx[s[i + 1]] = IF i + 1 = Len(s) THEN NULL ELSE s[(i + 1) + 1]
      BY <3>1 DEF Linked
    <3>3. s[i + 1] # s[k] /\ ny[t[i]] = nx[s[i + 1]]
      BY <1>6, <1>7, <3>1 DEF Linked
    <3>4. i = Len(t) <=> i + 1 = Len(s)
      BY <1>1, <1>3
    <3>5. i # Len(t) => t[i + 1] = s[(i + 1) + 1]
      BY <1>4, <2>1, <2>4
    <3> QED BY <3>2, <3>3, <3>4, <3>5
  <2> QED BY <2>2, <2>3, <2>4
<1>10. ASSUME NEW i \in 1 .. Len(t), NEW j \in 1 .. Len(t), t[i] = t[j] PROVE i = j
  <2> DEFINE at(n) == IF n <= k THEN n ELSE n + 1
  <2>1. s[at(i)] = s[at(j)] /\ at(i) \in 1 .. Len(s) /\ at(j) \in 1 .. Len(s)
    BY <1>4, <1>5, <1>10
  <2>2. at(i) = at(j)
    BY <2>1 DEF Linked
  <2> QED BY <2>2
<1>11. p = IF t = <<>> THEN NULL ELSE t[1]
  <2>1. t # <<>> /\ t[1] = s[1] /\ s # <<>>
    BY <1>1, <1>2, <1>3, <1>4, <1>8
  <2> QED BY <2>1 DEF Linked
<1>12. Linked(ny, p, t)
  BY <1>3, <1>9, <1>10, <1>11 DEF Linked
<1>13. Range(t) = Range(s) \ {s[k + 1]}
  <2>1. DOMAIN t = 1 .. Len(t) /\ DOMAIN s = 1 .. Len(s)
    BY <1>1, <1>3
  <2>2. ASSUME NEW i \in 1 .. Len(t) PROVE t[i] \in Range(s) \ {s[k + 1]}
    <3>1. PICK j \in 1 .. Len(s) : t[i] = s[j] /\ j # k + 1
      BY <1>4, <1>5
    <3> QED BY <1>2, <2>1, <3>1 DEF Range, Linked
  <2>3. ASSUME NEW i \in 1 .. Len(s), i # k + 1 PROVE s[i] \in Range(t)
    <3>1. CASE i <= k
      BY <1>4, <1>8, <2>1, <3>1 DEF Range
    <3>2. CASE i > k
      <4>1. i - 1 \in 1 .. Len(t) /\ t[i - 1] = s[i]
        BY <1>1, <1>3, <1>4, <2>3, <3>2
      <4> QED BY <2>1, <4>1 DEF Range
    <3> QED BY <3>1, <3>2
  <2> QED BY <2>1, <2>2, <2>3 DEF Range
<1>14. \A i \in 1 .. k : t[i] = s[i]
  BY <1>4, <1>8
<1> QED BY <1>2, <1>3, <1>12, <1>13, <1>14 DEF t, ny, Point, Without

LEMMA Distinct ==
  ASSUME NEW s \in Seq(Element), \A i, j \in 1 .. Len(s) : s[i] = s[j] => i = j
  PROVE  /\ IsFiniteSet(Range(s)) /\ Cardinality(Range(s)) = Len(s)
         /\ Len(s) <= Cardinality(Element)
<1>1. Len(s) \in Nat /\ DOMAIN s = 1 .. Len(s)
  OBVIOUS
<1>2. s \in Bijection(1 .. Len(s), Range(s))
  <2>1. s \in [1 .. Len(s) -> Range(s)]
    BY <1>1 DEF Range
  <2> QED BY <1>1, <2>1 DEF Bijection, Injection, Surjection, IsInjective, Range
<1>3. IsFiniteSet(1 .. Len(s)) /\ Cardinality(1 .. Len(s)) = Len(s)
  BY <1>1, FS_Interval
<1>4. IsFiniteSet(Range(s)) /\ Cardinality(Range(s)) = Len(s)
  BY <1>2, <1>3, FS_Bijection DEF ExistsBijection
<1>5. Cardinality(Range(s)) <= Cardinality(Element)
  BY RangeType, ElementAssumption, FS_Subset
<1> QED BY <1>4, <1>5

\* Chain follows a list to its end.
LEMMA ChainOf ==
  ASSUME NEW p, NEW s, Linked(next, p, s)
  PROVE  Chain(p) = s
<1> DEFINE N == Cardinality(Element)
           Solves(f) == f = [i \in 1 .. N + 1 |->
                               IF i = 1 THEN p
                               ELSE IF f[i - 1] = NULL THEN NULL ELSE next[f[i - 1]]]
           at == CHOOSE f : Solves(f)
           g == [i \in 1 .. N + 1 |-> IF i <= Len(s) THEN s[i] ELSE NULL]
<1>1. /\ s \in Seq(Element) /\ Len(s) \in Nat /\ Len(s) <= N /\ N \in Nat
      /\ \A i \in 1 .. Len(s) : s[i] \in Element
  BY Distinct, ElementAssumption, FS_CardinalityType DEF Linked
<1>2. Chain(p) = [i \in 1 .. Cardinality({i \in 1 .. N + 1 : at[i] # NULL}) |-> at[i]]
  BY DEF Chain
<1>3. p = IF Len(s) = 0 THEN NULL ELSE s[1]
  BY <1>1 DEF Linked
<1>4. \A i \in 1 .. Len(s) : next[s[i]] = IF i = Len(s) THEN NULL ELSE s[i + 1]
  BY DEF Linked
<1> HIDE DEF N
<1>5. Solves(g)
  <2> SUFFICES ASSUME NEW i \in 1 .. N + 1
               PROVE  g[i] = IF i = 1 THEN p
                             ELSE IF g[i - 1] = NULL THEN NULL ELSE next[g[i - 1]]
    OBVIOUS
  <2>1. CASE i = 1
    BY <1>1, <1>3, <2>1
  <2>2. CASE i # 1 /\ i - 1 <= Len(s)
    <3>1. i - 1 \in 1 .. Len(s) /\ g[i - 1] = s[i - 1] /\ s[i - 1] # NULL
      BY <1>1, <2>2, NullAssumption
    <3>2. next[s[i - 1]] = IF i - 1 = Len(s) THEN NULL ELSE s[(i - 1) + 1]
      BY <1>4, <3>1
    <3>3. (i - 1) + 1 = i /\ (i - 1 = Len(s) <=> ~(i <= Len(s)))
      BY <1>1, <2>2
    <3>4. g[i] = IF i - 1 = Len(s) THEN NULL ELSE s[i]
      BY <3>3
    <3> HIDE DEF g
    <3> QED BY <2>2, <3>1, <3>2, <3>3, <3>4
  <2>3. CASE i # 1 /\ ~(i - 1 <= Len(s))
    <3>1. i - 1 \in 1 .. N + 1 /\ ~(i - 1 <= Len(s)) /\ ~(i <= Len(s))
      BY <1>1, <2>3
    <3>2. g[i] = NULL /\ g[i - 1] = NULL
      BY <3>1
    <3> HIDE DEF g
    <3> QED BY <2>3, <3>2
  <2> HIDE DEF g
  <2> QED BY <2>1, <2>2, <2>3
<1>6. Solves(at)
  BY <1>5
<1> HIDE DEF at
<1>7. \A i \in 1 .. N + 1 : at[i] = g[i]
  <2> DEFINE T == {i \in Nat : i + 1 \in 1 .. N + 1 => at[i + 1] = g[i + 1]}
  <2>1. 0 \in T
    <3>1. 1 \in 1 .. N + 1 /\ 0 + 1 = 1
      BY <1>1
    <3> HIDE DEF g
    <3> QED BY <1>5, <1>6, <3>1
  <2>2. ASSUME NEW i \in T PROVE i + 1 \in T
    <3> SUFFICES ASSUME (i + 1) + 1 \in 1 .. N + 1 PROVE at[(i + 1) + 1] = g[(i + 1) + 1]
      OBVIOUS
    <3>1. /\ i + 1 \in 1 .. N + 1 /\ (i + 1) + 1 # 1 /\ ((i + 1) + 1) - 1 = i + 1
          /\ at[i + 1] = g[i + 1]
      BY <1>1
    <3> HIDE DEF g
    <3> QED BY <1>5, <1>6, <3>1
  <2>3. T = Nat
    <3>1. T \in SUBSET Nat
      OBVIOUS
    <3> HIDE DEF T
    <3> QED BY <2>1, <2>2, <3>1, NumberInduction
  <2>4. \A i \in 1 .. N + 1 : i - 1 \in Nat /\ (i - 1) + 1 = i
    BY <1>1
  <2> QED BY <2>3, <2>4
<1>8. {i \in 1 .. N + 1 : at[i] # NULL} = 1 .. Len(s)
  <2>1. \A i \in 1 .. N + 1 : g[i] # NULL <=> i <= Len(s)
    BY <1>1, NullAssumption
  <2> HIDE DEF g
  <2> QED BY <1>1, <1>7, <2>1
<1>9. Cardinality(1 .. Len(s)) = Len(s)
  <2>1. PICK k \in Nat : k = Len(s)
    BY <1>1
  <2>2. 1 \in Int /\ k \in Int
    BY <2>1
  <2>3. Cardinality(1 .. k) = IF 1 > k THEN 0 ELSE k - 1 + 1
    BY <2>2, FS_Interval
  <2>4. (IF 1 > k THEN 0 ELSE k - 1 + 1) = k
    BY <2>1
  <2> QED BY <2>1, <2>3, <2>4
<1>10. Chain(p) = [i \in 1 .. Len(s) |-> s[i]]
  <2>1. \A i \in 1 .. Len(s) : at[i] = s[i]
    BY <1>1, <1>7
  <2> QED BY <1>2, <1>8, <1>9, <2>1
<1> QED BY <1>1, <1>10
-----------------------------------------------------------------------------
(* All lists together: an element is taken off a list into a hand, or put  *)
(* from a hand on a list.                                                  *)

LEMMA Changed ==
  ASSUME NEW nx, NEW st, NEW l, NEW H, Fits(nx, st, l, H), NEW h \in Home,
         NEW ny \in [Element -> Pointer], NEW p, NEW s, Linked(ny, p, s), NEW K \in SUBSET Element,
         \A e \in Element : e \notin Range(l[h]) \cup H => ny[e] = nx[e],
         Range(s) \cup K = Range(l[h]) \cup H, Range(s) \cap K = {}
  PROVE  Fits(ny, Point(st, h, p), Point(l, h, s), K)
<1> DEFINE m == [l EXCEPT ![h] = s]
           sm == [st EXCEPT ![h] = p]
<1>1. /\ st \in [Home -> Pointer] /\ l \in [Home -> Seq(Element)] /\ H \subseteq Element
      /\ s \in Seq(Element) /\ p \in Pointer
  <2>1. p \in Pointer
    BY LinkedNull
  <2> QED BY <2>1 DEF Fits, Linked
<1>2. m[h] = s /\ sm[h] = p /\ \A g \in Home : g # h => m[g] = l[g] /\ sm[g] = st[g]
  BY <1>1
<1>3. sm \in [Home -> Pointer] /\ m \in [Home -> Seq(Element)]
  BY <1>1
<1>4. \A g \in Home : g # h => Range(l[g]) \cap (Range(l[h]) \cup H) = {}
  <2> SUFFICES ASSUME NEW g \in Home, g # h PROVE Range(l[g]) \cap (Range(l[h]) \cup H) = {}
    OBVIOUS
  <2>1. Range(l[g]) \cap Range(l[h]) = {}
    BY DEF Fits
  <2>2. \A e \in Element : e \in H => e \notin Range(l[g])
    BY DEF Fits
  <2> QED BY <1>1, <2>1, <2>2
<1> HIDE DEF m, sm
<1>5. ASSUME NEW g \in Home PROVE Linked(ny, sm[g], m[g])
  <2>1. CASE g = h
    BY <1>2, <2>1
  <2>2. CASE g # h
    <3>1. Linked(nx, st[g], l[g])
      BY DEF Fits
    <3>2. \A e \in Range(l[g]) : ny[e] = nx[e]
      BY <1>1, <1>4, <2>2, RangeType
    <3> QED BY <1>2, <2>2, <3>1, <3>2, LinkedFrame
  <2> QED BY <2>1, <2>2
<1>6. ASSUME NEW f \in Home, NEW g \in Home, f # g PROVE Range(m[f]) \cap Range(m[g]) = {}
  <2>1. CASE f # h /\ g # h
    BY <1>2, <1>6, <2>1 DEF Fits
  <2>2. CASE f = h
    BY <1>2, <1>4, <1>6, <2>2
  <2>3. CASE g = h
    BY <1>2, <1>4, <1>6, <2>3
  <2> QED BY <2>1, <2>2, <2>3
<1>7. ASSUME NEW e \in Element PROVE e \in K <=> \A g \in Home : e \notin Range(m[g])
  <2>1. CASE e \in Range(l[h]) \cup H
    BY <1>2, <1>4, <2>1
  <2>2. CASE e \notin Range(l[h]) \cup H
    <3>1. PICK g \in Home : e \in Range(l[g])
      BY <2>2 DEF Fits
    <3>2. g # h
      BY <2>2, <3>1
    <3>3. e \in Range(m[g])
      BY <1>2, <3>1, <3>2
    <3> QED BY <2>2, <3>1, <3>3
  <2> QED BY <2>1, <2>2
<1>8. Fits(ny, sm, m, K)
  BY <1>3, <1>5, <1>6, <1>7 DEF Fits
<1> QED BY <1>8 DEF m, sm, Point

LEMMA FirstIs ==
  ASSUME NEW nx, NEW st, NEW l, NEW H, Fits(nx, st, l, H), NEW h \in Home, st[h] # NULL
  PROVE  /\ st[h] \in Element /\ st[h] \notin H /\ l[h] # <<>>
         /\ Range(Tail(l[h])) = Range(l[h]) \ {st[h]} /\ st[h] \in Range(l[h])
<1>1. Linked(nx, st[h], l[h]) /\ nx \in [Element -> Pointer] /\ H \subseteq Element
  BY DEF Fits
<1>2. /\ Range(Tail(l[h])) = Range(l[h]) \ {st[h]} /\ st[h] \in Element /\ st[h] \in Range(l[h])
  BY <1>1, LinkedPop
<1>3. \A e \in Element : e \in H => e \notin Range(l[h])
  BY DEF Fits
<1> QED BY <1>1, <1>2, <1>3, LinkedNull

LEMMA TakeFirst ==
  ASSUME NEW nx, NEW st, NEW l, NEW H, Fits(nx, st, l, H), NEW h \in Home, st[h] # NULL
  PROVE  Fits(nx, Point(st, h, nx[st[h]]), Point(l, h, Tail(l[h])), H \cup {st[h]})
<1>1. Linked(nx, st[h], l[h]) /\ nx \in [Element -> Pointer] /\ H \subseteq Element
  BY DEF Fits
<1>2. /\ Linked(nx, nx[st[h]], Tail(l[h])) /\ Range(Tail(l[h])) = Range(l[h]) \ {st[h]}
      /\ st[h] \in Element /\ st[h] \in Range(l[h])
  BY <1>1, LinkedPop
<1>3. \A e \in Element : e \in H => e \notin Range(l[h])
  BY DEF Fits
<1>4. PICK K \in SUBSET Element : K = H \cup {st[h]}
  BY <1>1, <1>2
<1>5. Range(Tail(l[h])) \cup K = Range(l[h]) \cup H /\ Range(Tail(l[h])) \cap K = {}
  BY <1>1, <1>2, <1>3, <1>4
<1>6. Fits(nx, Point(st, h, nx[st[h]]), Point(l, h, Tail(l[h])), K)
  BY <1>1, <1>2, <1>5, Changed
<1> QED BY <1>4, <1>6

LEMMA NextIs ==
  ASSUME NEW nx, NEW st, NEW l, NEW H, Fits(nx, st, l, H), NEW h \in Home,
         NEW k \in 1 .. Len(l[h]), nx[l[h][k]] # NULL
  PROVE  LET e == nx[l[h][k]]
             r == Without(l[h], k)
         IN  /\ e \in Element /\ e \notin H /\ e \in Range(l[h]) /\ e # l[h][k]
             /\ l[h][k] \in Element /\ l[h][k] \in Range(r)
             /\ Range(r) = Range(l[h]) \ {e}
<1> DEFINE e == nx[l[h][k]]
           r == Without(l[h], k)
<1>1. /\ Linked(nx, st[h], l[h]) /\ nx \in [Element -> Pointer] /\ H \subseteq Element
      /\ \A y \in H : y \notin Range(l[h])
      /\ l[h] \in Seq(Element) /\ DOMAIN l[h] = 1 .. Len(l[h])
  BY DEF Fits
<1>2. e = l[h][k + 1] /\ k + 1 \in 1 .. Len(l[h])
  BY <1>1, LinkedNext
<1>4. Range(r) = Range(l[h]) \ {e}
  BY <1>1, LinkedUnlink
<1>5. e \in Range(l[h]) /\ e \in Element /\ l[h][k] \in Range(l[h]) /\ l[h][k] \in Element
  BY <1>1, <1>2 DEF Range
<1>6. e # l[h][k]
  <2>1. \A i, j \in 1 .. Len(l[h]) : l[h][i] = l[h][j] => i = j
    BY <1>1 DEF Linked
  <2>2. k + 1 # k
    OBVIOUS
  <2> QED BY <1>2, <2>1, <2>2
<1>9. l[h][k] \in Range(r)
  BY <1>4, <1>5, <1>6
<1> HIDE DEF e, r
<1>10. e \notin H
  BY <1>1, <1>5
<1> QED BY <1>4, <1>5, <1>6, <1>9, <1>10 DEF e, r

LEMMA WithoutIs ==
  ASSUME NEW s \in Seq(Element), NEW k, k + 1 \in 1 .. Len(s)
  PROVE  Len(s) = Len(Without(s, k)) + 1
<1>1. Len(Without(s, k)) = Len(s) - 1
  BY RemoveAtIs DEF Without
<1> QED BY <1>1

LEMMA TakeNext ==
  ASSUME NEW nx, NEW st, NEW l, NEW H, Fits(nx, st, l, H), NEW h \in Home,
         NEW k \in 1 .. Len(l[h]), nx[l[h][k]] # NULL
  PROVE  Fits(Point(nx, l[h][k], nx[nx[l[h][k]]]), st, Point(l, h, Without(l[h], k)),
              H \cup {nx[l[h][k]]})
<1> DEFINE x == l[h][k]
           e == nx[x]
           r == Without(l[h], k)
           ny == Point(nx, x, nx[e])
<1>1. /\ Linked(nx, st[h], l[h]) /\ nx \in [Element -> Pointer] /\ H \subseteq Element
      /\ \A y \in H : y \notin Range(l[h])
      /\ st \in [Home -> Pointer] /\ l[h] \in Seq(Element) /\ DOMAIN l[h] = 1 .. Len(l[h])
  BY DEF Fits
<1>2. Linked(ny, st[h], r)
  BY <1>1, LinkedUnlink
<1>3. e \in Range(l[h]) /\ e \in Element /\ Range(r) = Range(l[h]) \ {e} /\ x \in Element
  <2>1. k \in 1 .. Len(l[h]) /\ nx[l[h][k]] # NULL /\ h \in Home
    OBVIOUS
  <2> HIDE DEF x, e, r
  <2>2. nx[l[h][k]] \in Range(l[h]) /\ nx[l[h][k]] \in Element /\ l[h][k] \in Element
    BY <2>1, NextIs
  <2>3. Range(Without(l[h], k)) = Range(l[h]) \ {nx[l[h][k]]}
    BY <2>1, NextIs
  <2> QED BY <2>2, <2>3 DEF x, e, r
<1>4. x \in Range(l[h])
  BY <1>1 DEF Range
<1> HIDE DEF x, e, r
<1>5. ny \in [Element -> Pointer] /\ \A y \in Element : y # x => ny[y] = nx[y]
  BY <1>1, <1>3 DEF Point
<1>6. PICK K \in SUBSET Element : K = H \cup {e}
  BY <1>1, <1>3
<1>7. Range(r) \cup K = Range(l[h]) \cup H /\ Range(r) \cap K = {}
  BY <1>1, <1>3, <1>6
<1>8. PICK p : p = st[h]
  OBVIOUS
<1>9. Fits(ny, Point(st, h, p), Point(l, h, r), K)
  <2>1. \A y \in Element : y \notin Range(l[h]) \cup H => ny[y] = nx[y]
    BY <1>4, <1>5
  <2>2. Linked(ny, p, r)
    BY <1>2, <1>8
  <2> HIDE DEF ny
  <2> QED BY <1>5, <1>6, <1>7, <2>1, <2>2, Changed
<1>10. Point(st, h, p) = st
  BY <1>1, <1>8 DEF Point
<1> QED BY <1>6, <1>9, <1>10 DEF x, e, r

LEMMA ConsIs ==
  ASSUME NEW s \in Seq(Element), NEW e \in Element
  PROVE  /\ Cons(e, s) \in Seq(Element) /\ Cons(e, s) # <<>>
         /\ Len(Cons(e, s)) = Len(s) + 1 /\ Range(Cons(e, s)) = Range(s) \cup {e}
<1>1. PICK one : one = <<e>>
  OBVIOUS
<1>2. one \in Seq(Element) /\ Len(one) = 1 /\ DOMAIN one = {1} /\ one[1] = e
  BY <1>1
<1>3. Range(one) = {e}
  BY <1>2 DEF Range
<1>4. /\ one \o s \in Seq(Element) /\ Range(one \o s) = Range(one) \cup Range(s)
      /\ Len(one \o s) = Len(one) + Len(s)
  BY <1>2, RangeConcat
<1>5. Cons(e, s) = one \o s
  BY <1>1 DEF Cons
<1>6. Len(s) \in Nat /\ Len(one \o s) = Len(s) + 1 /\ one \o s # <<>>
  <2>1. Len(s) \in Nat /\ Len(one \o s) = Len(s) + 1
    BY <1>2, <1>4
  <2> QED BY <2>1, EmptySeq
<1> QED BY <1>3, <1>4, <1>5, <1>6

LEMMA AddFirst ==
  ASSUME NEW nx, NEW st, NEW l, NEW H, Fits(nx, st, l, H), NEW h \in Home, NEW e \in H
  PROVE  Fits(Point(nx, e, st[h]), Point(st, h, e), Point(l, h, Cons(e, l[h])), H \ {e})
<1>1. /\ Linked(nx, st[h], l[h]) /\ nx \in [Element -> Pointer] /\ e \in Element
      /\ H \subseteq Element /\ \A x \in H : x \notin Range(l[h])
  BY DEF Fits
<1>2. st[h] \in Pointer
  BY DEF Fits
<1>3. /\ Linked(Point(nx, e, st[h]), e, Cons(e, l[h]))
      /\ Range(Cons(e, l[h])) = Range(l[h]) \cup {e} /\ Len(Cons(e, l[h])) = Len(l[h]) + 1
  BY <1>1, LinkedPush
<1>4. /\ Point(nx, e, st[h]) \in [Element -> Pointer]
      /\ \A x \in Element : x # e => Point(nx, e, st[h])[x] = nx[x]
  BY <1>1, <1>2 DEF Point
<1>5. PICK K \in SUBSET Element : K = H \ {e}
  BY <1>1
<1>6. Range(Cons(e, l[h])) \cup K = Range(l[h]) \cup H /\ Range(Cons(e, l[h])) \cap K = {}
  BY <1>1, <1>3, <1>5
<1>7. Fits(Point(nx, e, st[h]), Point(st, h, e), Point(l, h, Cons(e, l[h])), K)
  BY <1>3, <1>4, <1>6, Changed
<1> QED BY <1>3, <1>5, <1>7 DEF Linked

\* The list s, which starts at p, with e behind it; and the pointers and the start then.
Behind(s, e)     == Append(s, e)
Hook(nx, p, s, e) == IF p = NULL THEN Point(nx, e, NULL)
                     ELSE Point(Point(nx, e, NULL), Last(s), e)
First(p, e)      == IF p = NULL THEN e ELSE p

LEMMA BehindIs ==
  ASSUME NEW s \in Seq(Element), NEW e \in Element
  PROVE  /\ Behind(s, e) \in Seq(Element) /\ Behind(s, e) # <<>>
         /\ Len(Behind(s, e)) = Len(s) + 1 /\ Last(Behind(s, e)) = e
         /\ Range(Behind(s, e)) = Range(s) \cup {e}
<1>1. PICK one : one = <<e>>
  OBVIOUS
<1>2. one \in Seq(Element) /\ DOMAIN one = {1} /\ one[1] = e
  BY <1>1
<1>3. Range(one) = {e}
  BY <1>2 DEF Range
<1>4. Range(s \o one) = Range(s) \cup Range(one)
  BY <1>2, RangeConcat
<1>5. Append(s, e) = s \o one
  BY <1>1, AppendIsConcat
<1>6. /\ Append(s, e) \in Seq(Element) /\ Append(s, e) # <<>>
      /\ Len(Append(s, e)) = Len(s) + 1 /\ Last(Append(s, e)) = e
  BY AppendProperties DEF Last
<1> QED BY <1>3, <1>4, <1>5, <1>6 DEF Behind

LEMMA AddLast ==
  ASSUME NEW nx, NEW st, NEW l, NEW H, Fits(nx, st, l, H), NEW h \in Home, NEW e \in H
  PROVE  Fits(Hook(nx, st[h], l[h], e), Point(st, h, First(st[h], e)),
              Point(l, h, Behind(l[h], e)), H \ {e})
<1>1. /\ Linked(nx, st[h], l[h]) /\ nx \in [Element -> Pointer] /\ e \in Element
      /\ H \subseteq Element /\ \A x \in H : x \notin Range(l[h])
  BY DEF Fits
<1>2. PICK ny : ny = IF st[h] = NULL THEN Point(nx, e, NULL)
                     ELSE Point(Point(nx, e, NULL), Last(l[h]), e)
  OBVIOUS
<1>3. PICK s : s = Append(l[h], e)
  OBVIOUS
<1>4. PICK p : p = IF st[h] = NULL THEN e ELSE st[h]
  OBVIOUS
<1>5. /\ Linked(ny, p, s) /\ Range(s) = Range(l[h]) \cup {e}
      /\ Len(s) = Len(l[h]) + 1 /\ Last(s) = e
  <2>1. /\ Linked(IF st[h] = NULL THEN Point(nx, e, NULL)
                  ELSE Point(Point(nx, e, NULL), l[h][Len(l[h])], e),
                  IF st[h] = NULL THEN e ELSE st[h], Append(l[h], e))
        /\ Range(Append(l[h], e)) = Range(l[h]) \cup {e}
        /\ Len(Append(l[h], e)) = Len(l[h]) + 1 /\ Last(Append(l[h], e)) = e
    BY <1>1, LinkedAppend
  <2>2. Last(l[h]) = l[h][Len(l[h])]
    BY DEF Last
  <2> QED BY <1>2, <1>3, <1>4, <2>1, <2>2
<1>6. ny \in [Element -> Pointer]
  BY <1>1, <1>2 DEF Pointer, Point
<1>7. \A x \in Element : x \notin Range(l[h]) \cup H => ny[x] = nx[x]
  <2>1. st[h] # NULL => Last(l[h]) \in Range(l[h])
    BY <1>1, LinkedLast DEF Last
  <2> QED BY <1>1, <1>2, <2>1 DEF Point
<1>8. PICK K \in SUBSET Element : K = H \ {e}
  BY <1>1
<1>9. Range(s) \cup K = Range(l[h]) \cup H /\ Range(s) \cap K = {}
  BY <1>1, <1>5, <1>8
<1>10. Fits(ny, Point(st, h, p), Point(l, h, s), K)
  BY <1>5, <1>6, <1>7, <1>9, Changed
<1>11. s \in Seq(Element)
  BY <1>5 DEF Linked
<1> QED BY <1>2, <1>3, <1>4, <1>5, <1>8, <1>10, <1>11 DEF Hook, First, Behind
-----------------------------------------------------------------------------
(* The lists of the state.                                                 *)

LEMMA ListsAre == \A M : Fits(next, Starts, M, Held) => Lists = M
<1> SUFFICES ASSUME NEW M, Fits(next, Starts, M, Held) PROVE Lists = M
  OBVIOUS
<1>1. M \in [Home -> Seq(Element)] /\ \A h \in Home : Linked(next, Starts[h], M[h])
  BY DEF Fits
<1>2. \A h \in Home : Chain(Starts[h]) = M[h]
  BY <1>1, ChainOf
<1> QED BY <1>1, <1>2 DEF Lists

\* The same of the next state.
LEMMA ListsNext == \A M : Fits(next', Starts', M, Held') => Lists' = M
<1>1. (\A M : Fits(next, Starts, M, Held) => Lists = M)'
  BY ListsAre, PTL
<1> QED BY <1>1

LEMMA Lengths ==
  ASSUME NEW nx, NEW st, NEW l, NEW H, Fits(nx, st, l, H), NEW h \in Home
  PROVE  /\ l[h] \in Seq(Element) /\ Len(l[h]) \in 0 .. Cardinality(Element)
         /\ Range(l[h]) \subseteq Element
<1>1. Linked(nx, st[h], l[h]) /\ l[h] \in Seq(Element)
  BY DEF Fits
<1>2. Len(l[h]) \in Nat /\ Cardinality(Element) \in Nat
  BY <1>1, ElementAssumption, FS_CardinalityType
<1>3. Len(l[h]) <= Cardinality(Element)
  <2>1. \A i, j \in 1 .. Len(l[h]) : l[h][i] = l[h][j] => i = j
    BY <1>1 DEF Linked
  <2> QED BY <1>1, <2>1, Distinct
<1> QED BY <1>1, <1>2, <1>3, RangeType

LEMMA LastCons ==
  ASSUME NEW s \in Seq(Element), NEW e \in Element
  PROVE  Last(Cons(e, s)) = IF s = <<>> THEN e ELSE Last(s)
<1>1. PICK one : one = <<e>>
  OBVIOUS
<1>2. one \in Seq(Element) /\ Last(one) = e
  BY <1>1 DEF Last
<1>3. CASE s = <<>>
  BY <1>1, <1>2, <1>3, ConcatEmptySeq DEF Cons
<1>4. CASE s # <<>>
  BY <1>1, <1>2, <1>4, LastConcat DEF Cons
<1> QED BY <1>3, <1>4

\* What the lists of the next state say of its variables.
LEMMA Settle ==
  ASSUME NEW M, Fits(next', Starts', M, Held'), \A q \in Queue : count'[q] = Len(M[q]),
         count' = [q \in Queue |-> count'[q]], head' = [q \in Queue |-> head'[q]]
  PROVE  /\ Lists' = M /\ next' \in [Element -> Pointer]
         /\ poolHead' \in Pointer /\ moved'.all \in Pointer
         /\ head' \in [Queue -> Pointer] /\ count' \in [Queue -> 0 .. Cardinality(Element)]
<1>1. /\ next' \in [Element -> Pointer] /\ Starts' \in [Home -> Pointer]
      /\ Queue \subseteq Home /\ {"pool", "moved"} \subseteq Home
  BY DEF Fits, Home
<1>2. \A q \in Queue : Starts'[q] = head'[q]
  BY DEF Starts, Home, Queue
<1>3. Starts'["pool"] = poolHead' /\ Starts'["moved"] = moved'.all
  BY DEF Starts, Home, Queue
<1>4. \A q \in Queue : Len(M[q]) \in 0 .. Cardinality(Element)
  BY <1>1, Lengths
<1>5. Lists' = M
  BY ListsNext
<1>6. \A q \in Queue : head'[q] \in Pointer
  BY <1>1, <1>2
<1>7. \A q \in Queue : count'[q] \in 0 .. Cardinality(Element)
  BY <1>4
<1> QED BY <1>1, <1>3, <1>5, <1>6, <1>7

\* A thread takes a message in its hands.
LEMMA Grasp ==
  ASSUME TypeOK, NEW t \in Thread, NEW e, hand[t] = {}, hand' = [hand EXCEPT ![t] = {e}]
  PROVE  Held' = Held \cup {e}
<1>1. hand'[t] = {e} /\ \A u \in Thread : u # t => hand'[u] = hand[u]
  BY DEF TypeOK
<1> QED BY <1>1 DEF Held

\* A thread lets go of its message.
LEMMA LetGo ==
  ASSUME TypeOK, Hands, NEW t \in Thread, NEW e \in hand[t], hand' = [hand EXCEPT ![t] = {}]
  PROVE  Held' = Held \ {e} /\ e \in Held
<1>1. hand'[t] = {} /\ \A u \in Thread : u # t => hand'[u] = hand[u]
  BY DEF TypeOK
<1>2. hand[t] = {e} /\ \A u \in Thread : u # t => e \notin hand[u]
  BY DEF Hands
<1> QED BY <1>1, <1>2 DEF Held

LEMMA HandsType ==
  ASSUME TypeOK
  PROVE  Starts \in [Home -> Pointer] /\ Held \subseteq Element /\ Controller \in Thread
         /\ Remote \subseteq Thread /\ Queue \subseteq Home
BY DEF TypeOK, Starts, Held, Controller, Thread, Home, Queue
-----------------------------------------------------------------------------
(* The steps.                                                              *)

LEMMA AllocateInv ==
  ASSUME Inv, NEW t \in Remote, Allocate(t)
  PROVE  /\ Inv' /\ Lists' = Point(Lists, "pool", Tail(Lists["pool"]))
         /\ poolHead \in Element /\ poolHead \in Range(Lists["pool"])
         /\ \E m \in Message : body' = [body EXCEPT ![poolHead] = m]
<1> DEFINE e == poolHead
           M == Point(Lists, "pool", Tail(Lists["pool"]))
<1>1. TypeOK /\ Fits(next, Starts, Lists, Held) /\ Counts(Lists) /\ Hands /\ ~fatal
  BY DEF Inv
<1>2. /\ t \in Thread /\ t # Controller /\ hand[t] = {} /\ e # NULL /\ sent < MaxSend
      /\ poolHead' = next[e] /\ hand' = [hand EXCEPT ![t] = {e}] /\ sent' = sent + 1
      /\ allocated' = [allocated EXCEPT ![e] = TRUE]
      /\ \E m \in Message : body' = [body EXCEPT ![e] = m]
      /\ UNCHANGED <<next, head, tail, count, moved, pc, removal, fatal>>
  <2>1. PICK index \in Index, id \in Id :
          Get(poolHead, [index |-> index, id |-> id, n |-> sent + 1])
    BY DEF Allocate
  <2>2. [index |-> index, id |-> id, n |-> sent + 1] \in Message
    <3>1. sent + 1 \in 1 .. MaxSend
      BY <1>1, BoundAssumption DEF Allocate, TypeOK
    <3> QED BY <3>1 DEF Message
  <2>3. t \in Thread /\ t # Controller
    BY RemoteAssumption DEF Thread, Controller
  <2>4. \E m \in Message : body' = [body EXCEPT ![e] = m]
    BY <2>1, <2>2 DEF Get
  <2> QED BY <2>1, <2>3, <2>4 DEF Allocate, Get, queueVars
<1>3. Starts["pool"] = e /\ Starts' = Point(Starts, "pool", next[e]) /\ "pool" \in Home
  BY <1>2 DEF Starts, Point, Home, Queue
<1>4. /\ Fits(next, Point(Starts, "pool", next[e]), M, Held \cup {e}) /\ e \in Element /\ e \notin Held
      /\ Range(Tail(Lists["pool"])) = Range(Lists["pool"]) \ {e} /\ e \in Range(Lists["pool"])
  <2>1. Fits(next, Point(Starts, "pool", next[e]), M, Held \cup {e})
    BY <1>1, <1>2, <1>3, TakeFirst
  <2>2. /\ e \in Element /\ e \notin Held
        /\ Range(Tail(Lists["pool"])) = Range(Lists["pool"]) \ {e} /\ e \in Range(Lists["pool"])
    BY <1>1, <1>2, <1>3, FirstIs
  <2> QED BY <2>1, <2>2
<1>5. Held' = Held \cup {e}
  BY <1>1, <1>2, Grasp
<1>6. Fits(next', Starts', M, Held')
  BY <1>2, <1>3, <1>4, <1>5
<1>7. Lists' = M
  BY <1>6, ListsNext
<1>8. M["pool"] = Tail(Lists["pool"]) /\ \A h \in Home : h # "pool" => M[h] = Lists[h]
  BY <1>3 DEF Lists, Point
<1>9. Counts(Lists)'
  <2>1. \A h \in Queue \cup {"moved"} : Lists'[h] = Lists[h]
    BY <1>7, <1>8 DEF Home, Queue
  <2>2. \A x \in Element : x \notin Range(Lists'["pool"]) <=> x \notin Range(Lists["pool"]) \/ x = e
    BY <1>4, <1>7, <1>8
  <2>3. allocated \in [Element -> BOOLEAN]
    BY <1>1 DEF TypeOK
  <2>4. \A x \in Element : allocated'[x] <=> allocated[x] \/ x = e
    BY <1>2, <1>4, <2>3
  <2> QED BY <1>1, <1>2, <2>1, <2>2, <2>4 DEF Counts
<1>10. Hands'
  <2>1. hand'[t] = {e} /\ \A u \in Thread : u # t => hand'[u] = hand[u] /\ e \notin hand[u]
    BY <1>1, <1>2, <1>4 DEF TypeOK, Held
  <2>2. Lists'["defer"] = Lists["defer"]
    BY <1>7, <1>8 DEF Home, Queue
  <2> QED BY <1>1, <1>2, <1>4, <2>1, <2>2 DEF Hands, Thread
<1>11. TypeOK'
  BY <1>1, <1>2, <1>4, BoundAssumption DEF TypeOK
<1>12. Inv'
  BY <1>2, <1>1, <1>6, <1>7, <1>9, <1>10, <1>11 DEF Inv
<1> QED BY <1>2, <1>4, <1>7, <1>12

LEMMA DeliverInv ==
  ASSUME Inv, NEW t \in Remote, Deliver(t)
  PROVE  Inv' /\ \E e \in hand[t] : Lists' = Point(Lists, "incoming", Behind(Lists["incoming"], e))
<1>1. TypeOK /\ Fits(next, Starts, Lists, Held) /\ Counts(Lists) /\ Hands /\ ~fatal
  BY DEF Inv
<1>2. PICK e \in hand[t] : EnqueueLast("incoming", e)
  BY DEF Deliver
<1> DEFINE s == Lists["incoming"]
           M == Point(Lists, "incoming", Append(s, e))
           first == head["incoming"] = NULL
<1>3. /\ t \in Thread /\ t # Controller /\ hand' = [hand EXCEPT ![t] = {}]
      /\ UNCHANGED <<poolHead, allocated, body, moved, pc, removal, sent, fatal>>
  BY RemoteAssumption DEF Deliver, poolVars, Thread, Controller
<1>4. Held' = Held \ {e} /\ e \in Held /\ Held \subseteq Element
  BY <1>1, <1>3, LetGo, HandsType
<1>5. "incoming" \in Home /\ "incoming" \in Queue /\ Starts["incoming"] = head["incoming"]
  BY DEF Starts, Home, Queue
<1>6. /\ Fits(IF first THEN Point(next, e, NULL) ELSE Point(Point(next, e, NULL), Last(s), e),
              Point(Starts, "incoming", IF first THEN e ELSE head["incoming"]), M, Held \ {e})
      /\ Len(Append(s, e)) = Len(s) + 1 /\ Last(Append(s, e)) = e
      /\ Append(s, e) \in Seq(Element)
  <2>1. Fits(next, Starts, Lists, Held) /\ "incoming" \in Home /\ e \in Held
    BY <1>1, <1>4, <1>5
  <2> HIDE DEF M, s, first
  <2>2. Fits(Hook(next, Starts["incoming"], Lists["incoming"], e),
             Point(Starts, "incoming", First(Starts["incoming"], e)),
             Point(Lists, "incoming", Behind(Lists["incoming"], e)), Held \ {e})
    BY <2>1, AddLast
  <2>3. Lists["incoming"] \in Seq(Element) /\ e \in Element
    BY <1>4, <2>1, Lengths
  <2>4. /\ Len(Behind(Lists["incoming"], e)) = Len(Lists["incoming"]) + 1
        /\ Last(Behind(Lists["incoming"], e)) = e
        /\ Behind(Lists["incoming"], e) \in Seq(Element)
    BY <2>3, BehindIs
  <2> QED BY <1>5, <2>2, <2>4 DEF M, s, first, Hook, First, Behind
<1>7. first <=> s = <<>>
  <2>1. Linked(next, Starts["incoming"], s)
    BY <1>1, <1>5 DEF Fits
  <2> QED BY <1>5, <2>1, LinkedNull
<1>8. ~first => tail["incoming"] = Last(s)
  BY <1>1, <1>5, <1>7 DEF Counts
<1>9. next' = IF first THEN Point(next, e, NULL) ELSE Point(Point(next, e, NULL), Last(s), e)
  BY <1>2, <1>8 DEF EnqueueLast, Point
<1>10. Starts' = Point(Starts, "incoming", IF first THEN e ELSE head["incoming"])
  BY <1>1, <1>2, <1>3 DEF Starts, Point, EnqueueLast, Home, Queue, TypeOK
<1>11. Fits(next', Starts', M, Held')
  BY <1>4, <1>6, <1>9, <1>10
<1>12. Lists' = M
  BY <1>11, ListsNext
<1>13. M["incoming"] = Append(s, e) /\ \A h \in Home : h # "incoming" => M[h] = Lists[h]
  BY <1>5 DEF Lists, Point
<1>14. /\ tail'["incoming"] = e /\ count'["incoming"] = count["incoming"] + 1
       /\ \A q \in Queue : q # "incoming" => tail'[q] = tail[q] /\ count'[q] = count[q]
       /\ tail' \in [Queue -> Pointer] /\ DOMAIN count' = Queue
  BY <1>1, <1>2, <1>4, <1>5 DEF EnqueueLast, TypeOK, Pointer
<1>15. Counts(Lists)'
  <2>1. \A q \in Queue : count'[q] = Len(M[q])
    <3>1. \A q \in Queue : count[q] = Len(Lists[q]) /\ q \in Home
      BY <1>1, HandsType DEF Counts
    <3> QED BY <1>5, <1>6, <1>13, <1>14, <3>1
  <2>2. \A q \in Queue : M[q] # <<>> /\ ~(q = "defer" /\ pc = "removeNext") => tail'[q] = Last(M[q])
    <3>1. \A q \in Queue : q \in Home
      BY <1>1, HandsType
    <3> QED BY <1>1, <1>6, <1>13, <1>14, <3>1 DEF Counts
  <2>3. M["moved"] = Lists["moved"] /\ M["pool"] = Lists["pool"]
    BY <1>13 DEF Home
  <2> QED BY <1>1, <1>3, <1>12, <2>1, <2>2, <2>3 DEF Counts
<1>16. Hands'
  <2>1. hand'[t] = {} /\ \A u \in Thread : u # t => hand'[u] = hand[u]
    BY <1>1, <1>3 DEF TypeOK
  <2>2. Lists'["defer"] = Lists["defer"]
    BY <1>12, <1>13 DEF Home, Queue
  <2>3. Controller \in Thread
    BY <1>1, HandsType
  <2> QED BY <1>1, <1>3, <2>1, <2>2, <2>3 DEF Hands
<1>17. TypeOK'
  <2>1. next' \in [Element -> Pointer] /\ \A q \in Queue : Starts'[q] \in Pointer /\ q \in Home
    BY <1>1, <1>11, HandsType DEF Fits
  <2>2. head' \in [Queue -> Pointer]
    BY <1>1, <1>2, <1>4, <1>5 DEF EnqueueLast, TypeOK, Pointer
  <2>3. count' \in [Queue -> 0 .. Cardinality(Element)]
    <3>1. \A q \in Queue : count'[q] = Len(M[q])
      BY <1>12, <1>15 DEF Counts
    <3>2. \A q \in Queue : Len(M[q]) \in 0 .. Cardinality(Element)
      BY <1>11, <2>1, Lengths
    <3>3. count' = [q \in Queue |-> count'[q]]
      BY <1>2, <1>1 DEF EnqueueLast, TypeOK
    <3> QED BY <3>1, <3>2, <3>3
  <2>4. hand' \in [Thread -> SUBSET Element]
    BY <1>1, <1>3 DEF TypeOK
  <2> QED BY <1>1, <1>3, <1>14, <2>1, <2>2, <2>3, <2>4 DEF TypeOK
<1>18. Inv'
  BY <1>3, <1>1, <1>11, <1>12, <1>15, <1>16, <1>17 DEF Inv
<1> QED BY <1>12, <1>18 DEF Behind

LEMMA MoveOutInv ==
  ASSUME Inv, MoveOut
  PROVE  /\ Inv' /\ Lists["moved"] = <<>>
         /\ Lists' = Point(Point(Lists, "incoming", <<>>), "moved", Lists["incoming"])
<1>1. TypeOK /\ Fits(next, Starts, Lists, Held) /\ Counts(Lists) /\ Hands /\ ~fatal
  BY DEF Inv
<1> DEFINE s == Lists["incoming"]
           l == Point(Lists, "incoming", <<>>)
           M == Point(l, "moved", s)
           st == Point(Starts, "incoming", NULL)
<1>2. "incoming" \in Home /\ "moved" \in Home /\ "incoming" \in Queue
  BY DEF Home, Queue
<1>3. /\ Starts["incoming"] = head["incoming"] /\ Starts["moved"] = moved.all
      /\ s \in Seq(Element)
  BY <1>1, <1>2, Lengths DEF Starts, Home, Queue
<1>4. /\ pc = "loop" /\ pc' = "moved" /\ moved = NoList /\ moved.all = NULL
      /\ moved' = [all |-> head["incoming"], last |-> tail["incoming"], count |-> count["incoming"]]
      /\ head' = [head EXCEPT !["incoming"] = NULL]
      /\ tail' = [tail EXCEPT !["incoming"] = NULL]
      /\ count' = [count EXCEPT !["incoming"] = 0]
      /\ UNCHANGED <<next, poolHead, allocated, body, hand, removal, sent, fatal>>
  BY <1>1 DEF MoveOut, Goto, poolVars, Hands, NoList
<1>5. Lists["moved"] = <<>> /\ Linked(next, Starts["incoming"], s) /\ next \in [Element -> Pointer]
      /\ Held \subseteq Element /\ \A e \in Held : e \notin Range(s)
  <2>1. Linked(next, Starts["moved"], Lists["moved"])
    BY <1>1, <1>2 DEF Fits
  <2>2. Lists["moved"] = <<>>
    BY <1>3, <1>4, <2>1, LinkedNull
  <2> QED BY <1>1, <1>2, <2>2 DEF Fits
<1>6. PICK K \in SUBSET Element : K = Held \cup Range(s)
  BY <1>3, <1>5, RangeType
<1>7. Linked(next, NULL, <<>>) /\ Range(<<>>) = {}
  BY LinkedEmpty
<1>8. Fits(next, st, l, K)
  <2>1. Range(<<>>) \cup K = Range(Lists["incoming"]) \cup Held /\ Range(<<>>) \cap K = {}
    BY <1>6, <1>7
  <2>2. PICK z : z = <<>>
    OBVIOUS
  <2>3. Fits(next, Point(Starts, "incoming", NULL), Point(Lists, "incoming", z), K)
    <3>1. /\ Linked(next, NULL, z) /\ Range(z) \cup K = Range(Lists["incoming"]) \cup Held
          /\ Range(z) \cap K = {}
      BY <1>7, <2>1, <2>2
    <3> HIDE DEF s
    <3> QED BY <1>1, <1>2, <1>5, <3>1, Changed
  <2> QED BY <2>2, <2>3
<1>9. l["moved"] = <<>> /\ l["incoming"] = <<>> /\ \A h \in Home : h # "incoming" => l[h] = Lists[h]
  BY <1>2, <1>5 DEF Point, Lists, Home, Queue
<1>10. Fits(next, Point(st, "moved", head["incoming"]), M, Held)
  <2>1. PICK p : p = head["incoming"]
    OBVIOUS
  <2>2. Range(s) \cup Held = Range(l["moved"]) \cup K /\ Range(s) \cap Held = {}
    BY <1>5, <1>6, <1>7, <1>9
  <2>3. Linked(next, p, s) /\ Held \in SUBSET Element
    BY <1>3, <1>5, <2>1
  <2> HIDE DEF s, l, st
  <2>4. Fits(next, Point(st, "moved", p), Point(l, "moved", s), Held)
    BY <1>2, <1>5, <1>8, <2>2, <2>3, Changed
  <2> QED BY <2>1, <2>4
<1>11. Starts' = Point(st, "moved", head["incoming"])
  BY <1>1, <1>4 DEF Starts, Point, Home, Queue, TypeOK
<1>12. Held' = Held
  BY <1>4 DEF Held
<1>13. Fits(next', Starts', M, Held')
  BY <1>4, <1>10, <1>11, <1>12
<1>14. M["moved"] = s /\ M["incoming"] = <<>>
       /\ \A h \in Home : h # "incoming" /\ h # "moved" => M[h] = Lists[h]
  BY <1>2, <1>9 DEF Point, Lists, Home, Queue
<1>15. /\ count'["incoming"] = 0 /\ \A q \in Queue : q # "incoming" => count'[q] = count[q]
       /\ \A q \in Queue : q # "incoming" => tail'[q] = tail[q]
       /\ count' = [q \in Queue |-> count'[q]] /\ head' = [q \in Queue |-> head'[q]]
       /\ tail' \in [Queue -> Pointer] /\ moved' \in [all : Pointer, last : Pointer, count : Nat]
  <2>1. count["incoming"] \in Nat
    BY <1>1, <1>2, ElementAssumption, FS_CardinalityType DEF TypeOK
  <2> QED BY <1>1, <1>2, <1>4, <2>1 DEF TypeOK, Pointer
<1>16. \A q \in Queue : q # "moved" /\ q \in Home
  BY DEF Queue, Home
<1>17. \A q \in Queue : count'[q] = Len(M[q])
  <2>1. Len(<<>>) = 0
    OBVIOUS
  <2> QED BY <1>1, <1>14, <1>15, <1>16, <2>1 DEF Counts
<1>18. /\ Lists' = M /\ next' \in [Element -> Pointer]
       /\ head' \in [Queue -> Pointer] /\ count' \in [Queue -> 0 .. Cardinality(Element)]
  BY <1>13, <1>15, <1>17, Settle
<1>19. Counts(Lists)'
  <2>1. \A q \in Queue : M[q] # <<>> /\ ~(q = "defer" /\ pc' = "removeNext") => tail'[q] = Last(M[q])
    BY <1>1, <1>4, <1>14, <1>15, <1>16 DEF Counts
  <2>2. moved'.count = Len(M["moved"]) /\ (M["moved"] # <<>> => moved'.last = Last(M["moved"]))
    BY <1>1, <1>2, <1>4, <1>14 DEF Counts
  <2>3. M["pool"] = Lists["pool"]
    BY <1>14 DEF Home
  <2> QED BY <1>1, <1>4, <1>17, <1>18, <2>1, <2>2, <2>3 DEF Counts
<1>20. Hands'
  BY <1>1, <1>4 DEF Hands
<1>21. TypeOK'
  BY <1>1, <1>4, <1>15, <1>18 DEF TypeOK
<1>22. Inv'
  BY <1>1, <1>4, <1>13, <1>18, <1>19, <1>20, <1>21 DEF Inv
<1> QED BY <1>5, <1>18, <1>22

LEMMA MoveInInv ==
  ASSUME Inv, MoveIn
  PROVE  /\ Inv'
         /\ Lists' = Point(Point(Lists, "moved", <<>>), "capsule", Lists["capsule"] \o Lists["moved"])
<1>1. TypeOK /\ Fits(next, Starts, Lists, Held) /\ Counts(Lists) /\ Hands /\ ~fatal
  BY DEF Inv
<1> DEFINE c == Lists["capsule"]
           m == Lists["moved"]
           l == Point(Lists, "moved", <<>>)
           st == Point(Starts, "moved", NULL)
           u == c \o m
           M == Point(l, "capsule", u)
           p == IF head["capsule"] = NULL THEN moved.all ELSE head["capsule"]
<1>2. "capsule" \in Home /\ "moved" \in Home /\ "capsule" \in Queue
  BY DEF Home, Queue
<1>3. /\ Starts["capsule"] = head["capsule"] /\ Starts["moved"] = moved.all
      /\ c \in Seq(Element) /\ m \in Seq(Element)
  BY <1>1, <1>2, Lengths DEF Starts, Home, Queue
<1>4. /\ pc = "moved" /\ pc' = "loop" /\ moved' = NoList /\ moved'.all = NULL /\ moved'.count = 0
      /\ EnqueueAll("capsule", moved)
      /\ UNCHANGED <<poolHead, allocated, body, hand, removal, sent>>
  BY <1>1 DEF MoveIn, Goto, poolVars, NoList
<1>5. /\ Linked(next, head["capsule"], c) /\ Linked(next, moved.all, m)
      /\ Range(c) \cap Range(m) = {} /\ next \in [Element -> Pointer] /\ Held \subseteq Element
      /\ \A e \in Held : e \notin Range(m) /\ e \notin Range(c)
  BY <1>1, <1>2, <1>3 DEF Fits
<1>6. (moved.all = NULL <=> m = <<>>) /\ (head["capsule"] = NULL <=> c = <<>>)
  BY <1>5, LinkedNull
<1>7. /\ m # <<>> => moved.last = Last(m) /\ Last(m) \in Element
      /\ c # <<>> => tail["capsule"] = Last(c) /\ Last(c) \in Range(c)
      /\ count["capsule"] = Len(c) /\ moved.count = Len(m)
  <2>1. m # <<>> => Last(m) \in Element
    BY <1>5, <1>6, LinkedLast DEF Last
  <2>2. c # <<>> => Last(c) \in Range(c)
    BY <1>5, <1>6, LinkedLast DEF Last
  <2> QED BY <1>1, <1>2, <2>1, <2>2 DEF Counts
<1>8. fatal' = FALSE
  <2>1. c = <<>> => Len(c) = 0
    OBVIOUS
  <2>2. CASE moved.all = NULL
    BY <1>1, <1>4, <2>2 DEF EnqueueAll, TypeOK
  <2>3. CASE moved.all # NULL
    <3>1. moved.last # NULL
      BY <1>6, <1>7, <2>3, NullAssumption
    <3>2. head["capsule"] = NULL => count["capsule"] = 0
      BY <1>6, <1>7, <2>1
    <3> QED BY <1>4, <2>3, <3>1, <3>2 DEF EnqueueAll
  <2> QED BY <2>2, <2>3
<1>9. PICK K \in SUBSET Element : K = Held \cup Range(m)
  BY <1>3, <1>5, RangeType
<1>10. Linked(next, NULL, <<>>) /\ Range(<<>>) = {}
  BY LinkedEmpty
<1>11. Fits(next, st, l, K)
  <2>1. PICK z : z = <<>>
    OBVIOUS
  <2>2. /\ Linked(next, NULL, z) /\ Range(z) \cup K = Range(Lists["moved"]) \cup Held
        /\ Range(z) \cap K = {}
    BY <1>9, <1>10, <2>1
  <2> HIDE DEF c, m
  <2>3. Fits(next, Point(Starts, "moved", NULL), Point(Lists, "moved", z), K)
    BY <1>1, <1>2, <1>5, <2>2, Changed
  <2> QED BY <2>1, <2>3
<1>12. l["moved"] = <<>> /\ \A h \in Home : h # "moved" => l[h] = Lists[h]
  BY <1>2 DEF Point, Lists
<1>13. /\ u \in Seq(Element) /\ Range(u) = Range(c) \cup Range(m) /\ Len(u) = Len(c) + Len(m)
       /\ m = <<>> => u = c
       /\ c = <<>> => u = m
  BY <1>3, RangeConcat, ConcatEmptySeq
<1>14. next' \in [Element -> Pointer] /\ Linked(next', p, u)
       /\ \A e \in Element : e \notin Range(c) => next'[e] = next[e]
  <2>1. CASE m = <<>>
    BY <1>4, <1>5, <1>6, <1>13, <2>1 DEF EnqueueAll
  <2>2. CASE m # <<>> /\ c = <<>>
    BY <1>4, <1>5, <1>6, <1>13, <2>2 DEF EnqueueAll
  <2>3. CASE m # <<>> /\ c # <<>>
    <3>1. next' = Point(next, c[Len(c)], moved.all) /\ p = head["capsule"]
      BY <1>4, <1>6, <1>7, <2>3 DEF EnqueueAll, Point, Last
    <3>2. c[Len(c)] \in Range(c) /\ c[Len(c)] \in Element
      BY <1>5, <1>6, <2>3, LinkedLast
    <3>3. moved.all \in Pointer
      BY <1>5, LinkedNull
    <3>4. next' \in [Element -> Pointer] /\ \A e \in Element : e \notin Range(c) => next'[e] = next[e]
      BY <1>5, <3>1, <3>2, <3>3 DEF Point
    <3> HIDE DEF c, m
    <3>5. Linked(Point(next, c[Len(c)], moved.all), head["capsule"], c \o m)
      BY <1>5, <1>6, <2>3, LinkedConcat
    <3> QED BY <3>1, <3>4, <3>5
  <2> QED BY <2>1, <2>2, <2>3
<1>15. Fits(next', Point(st, "capsule", p), M, Held)
  <2>1. PICK ny \in [Element -> Pointer] : ny = next'
    BY <1>14
  <2>2. Linked(ny, p, u) /\ Held \in SUBSET Element
    BY <1>5, <1>14, <2>1
  <2>3. \A e \in Element : e \notin Range(l["capsule"]) \cup K => ny[e] = next[e]
    BY <1>2, <1>12, <1>14, <2>1
  <2>4. Range(u) \cup Held = Range(l["capsule"]) \cup K /\ Range(u) \cap Held = {}
    BY <1>2, <1>5, <1>9, <1>12, <1>13
  <2> HIDE DEF p, u, l, st, c, m
  <2>5. Fits(ny, Point(st, "capsule", p), Point(l, "capsule", u), Held)
    BY <1>2, <1>11, <2>1, <2>2, <2>3, <2>4, Changed
  <2> QED BY <2>1, <2>5
<1>16. Starts' = Point(st, "capsule", p)
  <2>1. poolHead' = poolHead /\ moved'.all = NULL
    BY <1>4
  <2>2. /\ head'["capsule"] = p
        /\ \A q \in Queue : q # "capsule" => head'[q] = head[q]
    <3>1. head["capsule"] = NULL /\ moved.all = NULL => p = head["capsule"]
      OBVIOUS
    <3> QED BY <1>1, <1>2, <1>4, <1>5, <1>6, <3>1 DEF EnqueueAll, TypeOK, queueVars
  <2> QED BY <2>1, <2>2 DEF Starts, Point, Home, Queue
<1>17. Held' = Held
  BY <1>4 DEF Held
<1>18. Fits(next', Starts', M, Held')
  BY <1>15, <1>16, <1>17
<1>19. M["capsule"] = u /\ M["moved"] = <<>>
       /\ \A h \in Home : h # "capsule" /\ h # "moved" => M[h] = Lists[h]
  BY <1>2, <1>12 DEF Point, Lists
<1>20. /\ count'["capsule"] = Len(c) + Len(m)
       /\ \A q \in Queue : q # "capsule" => count'[q] = count[q] /\ tail'[q] = tail[q]
       /\ m # <<>> => tail'["capsule"] = Last(m)
       /\ m = <<>> => tail'["capsule"] = tail["capsule"]
       /\ count' = [q \in Queue |-> count'[q]] /\ head' = [q \in Queue |-> head'[q]]
       /\ tail' \in [Queue -> Pointer]
  <2>1. m = <<>> => Len(m) = 0
    OBVIOUS
  <2>2. Len(c) \in Nat /\ Len(m) \in Nat
    BY <1>3
  <2>3. /\ count = [q \in Queue |-> count[q]] /\ head = [q \in Queue |-> head[q]]
        /\ tail \in [Queue -> Pointer]
    BY <1>1 DEF TypeOK
  <2>4. count["capsule"] = Len(c) /\ moved.count = Len(m)
    BY <1>7
  <2> HIDE DEF c, m
  <2>5. CASE moved.all = NULL
    BY <1>2, <1>4, <1>6, <2>1, <2>2, <2>3, <2>4, <2>5 DEF EnqueueAll, queueVars
  <2>6. CASE moved.all # NULL
    <3>1. moved.last \in Pointer /\ moved.last = Last(m)
      BY <1>6, <1>7, <2>6 DEF Pointer
    <3>2. m # <<>>
      BY <1>6, <2>6
    <3>3. tail' = [tail EXCEPT !["capsule"] = moved.last]
      BY <1>4, <2>6 DEF EnqueueAll
    <3>4. count' = [count EXCEPT !["capsule"] = @ + moved.count]
      BY <1>4, <2>6 DEF EnqueueAll
    <3>5. head' = [head EXCEPT !["capsule"] = IF @ = NULL THEN moved.all ELSE @]
      BY <1>4, <2>6 DEF EnqueueAll
    <3>6. head' = [q \in Queue |-> head'[q]]
      BY <2>3, <3>5
    <3>7. /\ tail'["capsule"] = Last(m) /\ tail' \in [Queue -> Pointer]
          /\ \A q \in Queue : q # "capsule" => tail'[q] = tail[q]
      BY <1>2, <2>3, <3>1, <3>3
    <3>8. /\ count'["capsule"] = Len(c) + Len(m) /\ count' = [q \in Queue |-> count'[q]]
          /\ \A q \in Queue : q # "capsule" => count'[q] = count[q]
      BY <1>2, <2>3, <2>4, <3>4
    <3> QED BY <3>2, <3>6, <3>7, <3>8
  <2> QED BY <2>5, <2>6
<1>21. \A q \in Queue : q # "moved" /\ q \in Home
  BY DEF Queue, Home
<1>22. \A q \in Queue : count'[q] = Len(M[q])
  BY <1>1, <1>13, <1>19, <1>20, <1>21 DEF Counts
<1>23. /\ Lists' = M /\ next' \in [Element -> Pointer]
       /\ head' \in [Queue -> Pointer] /\ count' \in [Queue -> 0 .. Cardinality(Element)]
  BY <1>18, <1>20, <1>22, Settle
<1>24. u # <<>> => tail'["capsule"] = Last(u)
  <2>1. CASE m = <<>>
    BY <1>7, <1>13, <1>20, <2>1
  <2>2. CASE m # <<>>
    <3>1. Last(u) = Last(m)
      BY <1>3, <2>2, LastConcat
    <3> QED BY <1>20, <2>2, <3>1
  <2> QED BY <2>1, <2>2
<1>25. Counts(Lists)'
  <2>1. \A q \in Queue : M[q] # <<>> /\ ~(q = "defer" /\ pc' = "removeNext") => tail'[q] = Last(M[q])
    BY <1>1, <1>4, <1>19, <1>20, <1>21, <1>24 DEF Counts
  <2>2. moved'.count = Len(M["moved"]) /\ M["moved"] = <<>>
    BY <1>4, <1>19
  <2>3. M["pool"] = Lists["pool"]
    BY <1>19 DEF Home
  <2> QED BY <1>1, <1>4, <1>22, <1>23, <2>1, <2>2, <2>3 DEF Counts
<1>26. Hands'
  BY <1>1, <1>4 DEF Hands
<1>27. TypeOK'
  <2>1. moved' \in [all : Pointer, last : Pointer, count : Nat]
    BY <1>4 DEF NoList, Pointer
  <2> QED BY <1>1, <1>4, <1>8, <1>20, <1>23, <2>1 DEF TypeOK
<1>28. Inv'
  BY <1>8, <1>18, <1>23, <1>25, <1>26, <1>27 DEF Inv
<1> QED BY <1>23, <1>28

LEMMA InjectInv ==
  ASSUME Inv, Inject
  PROVE  /\ Inv' /\ Lists' = Point(Lists, "capsule", Tail(Lists["capsule"]))
         /\ Lists["capsule"] # <<>> /\ head["capsule"] = Lists["capsule"][1]
<1>1. TypeOK /\ Fits(next, Starts, Lists, Held) /\ Counts(Lists) /\ Hands /\ ~fatal
  BY DEF Inv
<1> DEFINE s == Lists["capsule"]
           e == head["capsule"]
           M == Point(Lists, "capsule", Tail(s))
<1>2. "capsule" \in Home /\ "capsule" \in Queue /\ Controller \in Thread
  BY <1>1, HandsType DEF Home, Queue
<1>3. Starts["capsule"] = e /\ s \in Seq(Element)
  BY <1>1, <1>2, Lengths DEF Starts, Home, Queue
<1>4. /\ pc = "loop" /\ pc' = "user" /\ e # NULL /\ hand[Controller] = {}
      /\ head' = [head EXCEPT !["capsule"] = next[@]]
      /\ count' = [count EXCEPT !["capsule"] = @ - 1] /\ fatal' = (count["capsule"] = 0)
      /\ hand' = [hand EXCEPT ![Controller] = {e}]
      /\ UNCHANGED <<next, poolHead, allocated, body, tail, moved, removal, sent>>
  BY <1>1 DEF Inject, Goto, Dequeue, poolVars, Hands
<1>5. /\ Fits(next, Point(Starts, "capsule", next[e]), M, Held \cup {e})
      /\ e \in Element /\ e \notin Held /\ s # <<>>
      /\ Len(Tail(s)) = Len(s) - 1 /\ Len(s) # 0
  <2>1. Fits(next, Point(Starts, "capsule", next[e]), M, Held \cup {e})
    BY <1>1, <1>2, <1>3, <1>4, TakeFirst
  <2>2. e \in Element /\ e \notin Held /\ s # <<>>
    BY <1>1, <1>2, <1>3, <1>4, FirstIs
  <2> QED BY <1>3, <2>1, <2>2
<1>6. Held' = Held \cup {e}
  BY <1>1, <1>2, <1>4, Grasp
<1>7. Starts' = Point(Starts, "capsule", next[e])
  BY <1>1, <1>4 DEF Starts, Point, Home, Queue, TypeOK
<1>8. Fits(next', Starts', M, Held')
  BY <1>4, <1>5, <1>6, <1>7
<1>9. M["capsule"] = Tail(s) /\ \A h \in Home : h # "capsule" => M[h] = Lists[h]
  BY <1>2 DEF Point, Lists
<1>10. /\ count'["capsule"] = count["capsule"] - 1
       /\ \A q \in Queue : q # "capsule" => count'[q] = count[q]
       /\ count' = [q \in Queue |-> count'[q]] /\ head' = [q \in Queue |-> head'[q]]
  BY <1>1, <1>2, <1>4 DEF TypeOK
<1>11. \A q \in Queue : q # "moved" /\ q \in Home
  BY DEF Queue, Home
<1>12. \A q \in Queue : count'[q] = Len(M[q])
  BY <1>1, <1>5, <1>9, <1>10, <1>11 DEF Counts
<1>13. /\ Lists' = M /\ next' \in [Element -> Pointer]
       /\ head' \in [Queue -> Pointer] /\ count' \in [Queue -> 0 .. Cardinality(Element)]
  BY <1>8, <1>10, <1>12, Settle
<1>14. Counts(Lists)'
  <2>1. Tail(s) # <<>> => Last(Tail(s)) = Last(s)
    BY <1>3, <1>5, LastTail
  <2>2. \A q \in Queue : M[q] # <<>> /\ ~(q = "defer" /\ pc' = "removeNext") => tail'[q] = Last(M[q])
    BY <1>1, <1>4, <1>5, <1>9, <1>11, <2>1 DEF Counts
  <2>3. M["moved"] = Lists["moved"] /\ M["pool"] = Lists["pool"]
    BY <1>9 DEF Home
  <2> QED BY <1>1, <1>4, <1>12, <1>13, <2>2, <2>3 DEF Counts
<1>15. Hands'
  <2>1. hand'[Controller] = {e} /\ \A u \in Thread : u # Controller => hand'[u] = hand[u]
    BY <1>1, <1>2, <1>4 DEF TypeOK
  <2>2. \A u \in Thread : e \notin hand[u]
    BY <1>5 DEF Held
  <2>3. \A t \in Thread : hand'[t] = {} \/ \E x \in Element : hand'[t] = {x}
    BY <1>1, <1>5, <2>1 DEF Hands
  <2>4. \A t, u \in Thread : t # u => hand'[t] \cap hand'[u] = {}
    BY <1>1, <2>1, <2>2 DEF Hands
  <2> QED BY <1>1, <1>4, <2>1, <2>3, <2>4 DEF Hands
<1>16. fatal' = FALSE
  BY <1>1, <1>2, <1>4, <1>5 DEF Counts
<1>17. TypeOK'
  <2>1. hand' \in [Thread -> SUBSET Element]
    BY <1>1, <1>4, <1>5 DEF TypeOK
  <2> QED BY <1>1, <1>4, <1>13, <1>16, <2>1 DEF TypeOK
<1>18. Inv'
  BY <1>8, <1>13, <1>14, <1>15, <1>16, <1>17 DEF Inv
<1>19. e = s[1]
  BY <1>1, <1>2, <1>3, <1>5 DEF Fits, Linked
<1> QED BY <1>5, <1>13, <1>18, <1>19

LEMMA ReturnInv ==
  ASSUME Inv, Return
  PROVE  /\ Inv'
         /\ \E e \in hand[Controller] :
              /\ Lists' = Point(Lists, "pool", Cons(e, Lists["pool"]))
              /\ body' = [body EXCEPT ![e] = NoMessage]
<1>1. TypeOK /\ Fits(next, Starts, Lists, Held) /\ Counts(Lists) /\ Hands /\ ~fatal
  BY DEF Inv
<1>2. PICK e \in hand[Controller] : Put(e)
  BY DEF Return
<1> DEFINE s == Lists["pool"]
           M == Point(Lists, "pool", Cons(e, s))
<1>3. "pool" \in Home /\ Controller \in Thread
  BY <1>1, HandsType DEF Home
<1>4. Starts["pool"] = poolHead
  BY DEF Starts, Home, Queue
<1>5. /\ pc = "user" /\ pc' = "loop"
      /\ poolHead' = e /\ next' = Point(next, e, poolHead)
      /\ allocated' = [allocated EXCEPT ![e] = FALSE]
      /\ body' = [body EXCEPT ![e] = NoMessage]
      /\ hand' = [hand EXCEPT ![Controller] = {}]
      /\ UNCHANGED <<head, tail, count, moved, removal, sent, fatal>>
  BY <1>2 DEF Return, Goto, Put, queueVars, Point
<1>6. Held' = Held \ {e} /\ e \in Held /\ e \in Element
  <2>1. Held' = Held \ {e} /\ e \in Held
    BY <1>1, <1>2, <1>3, <1>5, LetGo
  <2> QED BY <1>1, <2>1, HandsType
<1>7. /\ Fits(Point(next, e, poolHead), Point(Starts, "pool", e), M, Held \ {e})
      /\ Range(Cons(e, s)) = Range(s) \cup {e}
  <2> HIDE DEF s, M
  <2>1. /\ Fits(Point(next, e, Starts["pool"]), Point(Starts, "pool", e),
                Point(Lists, "pool", Cons(e, Lists["pool"])), Held \ {e})
        /\ Range(Cons(e, Lists["pool"])) = Range(Lists["pool"]) \cup {e}
    <3>1. Fits(next, Starts, Lists, Held) /\ e \in Held
      BY <1>1, <1>6
    <3>2. Fits(Point(next, e, Starts["pool"]), Point(Starts, "pool", e),
               Point(Lists, "pool", Cons(e, Lists["pool"])), Held \ {e})
      BY <1>3, <3>1, AddFirst
    <3>3. Lists["pool"] \in Seq(Element)
      BY <1>3, <3>1, Lengths
    <3> QED BY <1>6, <3>2, <3>3, ConsIs
  <2> QED BY <1>4, <2>1 DEF s, M
<1>8. Starts' = Point(Starts, "pool", e)
  BY <1>5 DEF Starts, Point, Home, Queue
<1>9. Fits(next', Starts', M, Held')
  BY <1>5, <1>6, <1>7, <1>8
<1>10. M["pool"] = Cons(e, s) /\ \A h \in Home : h # "pool" => M[h] = Lists[h]
  BY <1>3 DEF Point, Lists
<1>11. \A q \in Queue : q # "pool" /\ q \in Home
  BY DEF Queue, Home
<1>12. \A q \in Queue : count'[q] = Len(M[q])
  BY <1>1, <1>5, <1>10, <1>11 DEF Counts
<1>13. count' = [q \in Queue |-> count'[q]] /\ head' = [q \in Queue |-> head'[q]]
  BY <1>1, <1>5 DEF TypeOK
<1>14. /\ Lists' = M /\ next' \in [Element -> Pointer]
       /\ head' \in [Queue -> Pointer] /\ count' \in [Queue -> 0 .. Cardinality(Element)]
  BY <1>9, <1>12, <1>13, Settle
<1>15. Counts(Lists)'
  <2>1. \A q \in Queue : M[q] # <<>> /\ ~(q = "defer" /\ pc' = "removeNext") => tail'[q] = Last(M[q])
    BY <1>1, <1>5, <1>10, <1>11 DEF Counts
  <2>2. M["moved"] = Lists["moved"]
    BY <1>10 DEF Home
  <2>3. allocated \in [Element -> BOOLEAN]
    BY <1>1 DEF TypeOK
  <2>4. \A x \in Element : allocated'[x] <=> x \notin Range(M["pool"])
    BY <1>1, <1>5, <1>6, <1>7, <1>10, <2>3 DEF Counts
  <2> QED BY <1>1, <1>5, <1>12, <1>14, <2>1, <2>2, <2>4 DEF Counts
<1>16. Hands'
  <2>1. hand'[Controller] = {} /\ \A u \in Thread : u # Controller => hand'[u] = hand[u]
    BY <1>1, <1>3, <1>5 DEF TypeOK
  <2> QED BY <1>1, <1>3, <1>5, <2>1 DEF Hands
<1>17. TypeOK'
  <2>1. hand' \in [Thread -> SUBSET Element]
    BY <1>1, <1>5 DEF TypeOK
  <2>2. poolHead' \in Pointer
    BY <1>5, <1>6 DEF Pointer
  <2> QED BY <1>1, <1>5, <1>14, <2>1, <2>2 DEF TypeOK
<1>18. Inv'
  BY <1>1, <1>5, <1>9, <1>14, <1>15, <1>16, <1>17 DEF Inv
<1> QED BY <1>5, <1>14, <1>18

LEMMA DeferInv ==
  ASSUME Inv, Defer
  PROVE  /\ Inv' /\ poolHead \in Element /\ poolHead \in Range(Lists["pool"])
         /\ Lists' = Point(Point(Lists, "pool", Tail(Lists["pool"])),
                           "defer", Behind(Lists["defer"], poolHead))
<1>1. TypeOK /\ Fits(next, Starts, Lists, Held) /\ Counts(Lists) /\ Hands /\ ~fatal
  BY DEF Inv
<1> DEFINE e == poolHead
           d == Lists["defer"]
           l == Point(Lists, "pool", Tail(Lists["pool"]))
           st == Point(Starts, "pool", next[e])
           M == Point(l, "defer", Behind(d, e))
           first == head["defer"] = NULL
<1>2. "pool" \in Home /\ "defer" \in Home /\ "defer" \in Queue
  BY DEF Home, Queue
<1>3. Starts["pool"] = e /\ Starts["defer"] = head["defer"] /\ d \in Seq(Element)
  BY <1>1, <1>2, Lengths DEF Starts, Home, Queue
<1>4. PICK x \in hand[Controller] : Get(poolHead, body[x])
  BY DEF Defer
<1>5. /\ pc = "user" /\ pc' = "user" /\ e # NULL /\ x \in Element
      /\ poolHead' = next[e] /\ allocated' = [allocated EXCEPT ![e] = TRUE]
      /\ body' = [body EXCEPT ![e] = body[x]]
      /\ EnqueueLast("defer", e)
      /\ UNCHANGED <<hand, moved, removal, sent, fatal>>
  BY <1>1, <1>4, HandsType DEF Defer, Goto, Get, TypeOK
<1>6. /\ e \in Element /\ e \notin Held /\ e \in Range(Lists["pool"])
      /\ Range(Tail(Lists["pool"])) = Range(Lists["pool"]) \ {e}
  BY <1>1, <1>2, <1>3, <1>5, FirstIs
<1>7. Fits(next, st, l, Held \cup {e})
  BY <1>1, <1>2, <1>3, <1>5, TakeFirst
<1>8. l["pool"] = Tail(Lists["pool"]) /\ \A h \in Home : h # "pool" => l[h] = Lists[h]
  BY <1>2 DEF Point, Lists
<1>9. l["defer"] = d /\ st["defer"] = head["defer"]
  BY <1>2, <1>3, <1>8 DEF Point, Starts
<1>10. Fits(Hook(next, head["defer"], d, e), Point(st, "defer", First(head["defer"], e)), M, Held)
  <2>1. PICK H : H = Held \cup {e}
    OBVIOUS
  <2> HIDE DEF l, st, d
  <2>2. Fits(next, st, l, H) /\ e \in H /\ H \ {e} = Held
    BY <1>6, <1>7, <2>1
  <2>3. Fits(Hook(next, st["defer"], l["defer"], e), Point(st, "defer", First(st["defer"], e)),
             Point(l, "defer", Behind(l["defer"], e)), H \ {e})
    BY <1>2, <2>2, AddLast
  <2> QED BY <1>9, <2>2, <2>3
<1>11. next' = Hook(next, head["defer"], d, e)
  <2>1. first <=> d = <<>>
    <3>1. Linked(next, head["defer"], d)
      BY <1>1, <1>2, <1>3 DEF Fits
    <3> QED BY <3>1, LinkedNull
  <2>2. ~first => tail["defer"] = Last(d)
    BY <1>1, <1>2, <1>5, <2>1 DEF Counts
  <2> QED BY <1>5, <2>2 DEF EnqueueLast, Point, Hook
<1>12. Starts' = Point(st, "defer", First(head["defer"], e))
  <2>1. head'["defer"] = First(head["defer"], e) /\ \A q \in Queue : q # "defer" => head'[q] = head[q]
    BY <1>1, <1>2, <1>5 DEF EnqueueLast, First, TypeOK
  <2>2. poolHead' = next[e] /\ moved' = moved
    BY <1>5
  <2> QED BY <2>1, <2>2 DEF Starts, Point, Home, Queue
<1>13. Held' = Held
  BY <1>5 DEF Held
<1>14. Fits(next', Starts', M, Held')
  BY <1>10, <1>11, <1>12, <1>13
<1>15. M["defer"] = Behind(d, e) /\ \A h \in Home : h # "defer" => M[h] = l[h]
  BY <1>2 DEF Point, Lists
<1>16. /\ tail'["defer"] = e /\ count'["defer"] = count["defer"] + 1
       /\ \A q \in Queue : q # "defer" => tail'[q] = tail[q] /\ count'[q] = count[q]
       /\ tail' \in [Queue -> Pointer]
       /\ count' = [q \in Queue |-> count'[q]] /\ head' = [q \in Queue |-> head'[q]]
  BY <1>1, <1>2, <1>5, <1>6 DEF EnqueueLast, TypeOK, Pointer
<1>17. Behind(d, e) # <<>> /\ Len(Behind(d, e)) = Len(d) + 1 /\ Last(Behind(d, e)) = e
  BY <1>3, <1>6, BehindIs
<1>18. \A q \in Queue : q # "pool" /\ q \in Home
  BY DEF Queue, Home
<1>19. \A q \in Queue : q # "defer" => M[q] = Lists[q]
  BY <1>8, <1>15, <1>18
<1>20. \A q \in Queue : count'[q] = Len(M[q])
  BY <1>1, <1>15, <1>16, <1>17, <1>19 DEF Counts
<1>21. /\ Lists' = M /\ next' \in [Element -> Pointer] /\ poolHead' \in Pointer
       /\ head' \in [Queue -> Pointer] /\ count' \in [Queue -> 0 .. Cardinality(Element)]
  BY <1>14, <1>16, <1>20, Settle
<1>22. Counts(Lists)'
  <2>1. \A q \in Queue : M[q] # <<>> /\ ~(q = "defer" /\ pc' = "removeNext") => tail'[q] = Last(M[q])
    BY <1>1, <1>5, <1>15, <1>16, <1>17, <1>19 DEF Counts
  <2>2. M["moved"] = Lists["moved"] /\ M["pool"] = Tail(Lists["pool"])
    BY <1>8, <1>15 DEF Home
  <2>3. allocated \in [Element -> BOOLEAN]
    BY <1>1 DEF TypeOK
  <2>4. \A y \in Element : allocated'[y] <=> y \notin Range(M["pool"])
    BY <1>1, <1>5, <1>6, <2>2, <2>3 DEF Counts
  <2> QED BY <1>1, <1>5, <1>20, <1>21, <2>1, <2>2, <2>4 DEF Counts
<1>23. Hands'
  BY <1>1, <1>5 DEF Hands
<1>24. TypeOK'
  <2>1. allocated' \in [Element -> BOOLEAN] /\ body' \in [Element -> Message \cup {NoMessage}]
    BY <1>1, <1>5, <1>6 DEF TypeOK
  <2> QED BY <1>1, <1>5, <1>16, <1>21, <2>1 DEF TypeOK
<1>25. Inv'
  BY <1>1, <1>5, <1>14, <1>21, <1>22, <1>23, <1>24 DEF Inv
<1> QED BY <1>6, <1>21, <1>25
-----------------------------------------------------------------------------
(* remove.  Below, e has been unlinked from the defer queue, of which r is *)
(* left and nx are the pointers, but no other list holds it yet.           *)

Relinked(keeper, e) == IF keeper = NULL THEN next ELSE Point(next, keeper, next[e])

LEMMA UnlinkPurge ==
  ASSUME Inv, NEW e \in Element, NEW h, NEW keeper, NEW r, NEW H,
         Unlink(e, h, keeper), removal.kind = "purge", UNCHANGED <<hand, moved>>,
         H = Held \cup {e}, e \notin Held,
         Fits(Relinked(keeper, e), Point(Starts, "defer", h), Point(Lists, "defer", r), H)
  PROVE  \E M : /\ Fits(next', Starts', M, Held')
                /\ M["defer"] = r /\ M["incoming"] = Lists["incoming"]
                /\ M["capsule"] = Lists["capsule"] /\ M["moved"] = Lists["moved"]
                /\ \A x \in Element : allocated'[x] <=> x \notin Range(M["pool"])
                /\ poolHead' \in Pointer /\ allocated' \in [Element -> BOOLEAN]
                /\ body' \in [Element -> Message \cup {NoMessage}]
                /\ tail' = tail /\ head' = [q \in Queue |-> head'[q]]
                /\ count' = [count EXCEPT !["defer"] = @ - 1]
<1>1. TypeOK /\ Fits(next, Starts, Lists, Held) /\ Counts(Lists) /\ Hands /\ ~fatal
  BY DEF Inv
<1> DEFINE s == Lists["pool"]
           l == Point(Lists, "defer", r)
           st == Point(Starts, "defer", h)
           nx == Relinked(keeper, e)
           M == Point(l, "pool", Cons(e, s))
<1>2. "pool" \in Home /\ "defer" \in Home /\ "defer" \in Queue /\ s \in Seq(Element)
  <2>1. "pool" \in Home /\ "defer" \in Home /\ "defer" \in Queue
    BY DEF Home, Queue
  <2> QED BY <1>1, <2>1, Lengths
<1>3. st["pool"] = poolHead /\ l["pool"] = s /\ l["defer"] = r
      /\ \A g \in Home : g # "defer" => l[g] = Lists[g]
  BY <1>2 DEF Starts, Lists, Point, Home, Queue
<1>4. /\ next' = Point(nx, e, poolHead) /\ poolHead' = e
      /\ allocated' = [allocated EXCEPT ![e] = FALSE]
      /\ body' = [body EXCEPT ![e] = NoMessage]
      /\ head' = [head EXCEPT !["defer"] = h]
      /\ count' = [count EXCEPT !["defer"] = @ - 1]
      /\ tail' = tail
  BY DEF Unlink, Point, Relinked
<1>5. Fits(Point(nx, e, poolHead), Point(st, "pool", e), M, Held)
  <2>1. e \in H /\ H \ {e} = Held
    OBVIOUS
  <2> HIDE DEF nx, st, l, s
  <2>2. Fits(nx, st, l, H)
    BY DEF nx, st, l
  <2>3. Fits(Point(nx, e, st["pool"]), Point(st, "pool", e), Point(l, "pool", Cons(e, l["pool"])), H \ {e})
    BY <1>2, <2>1, <2>2, AddFirst
  <2> QED BY <1>3, <2>1, <2>3
<1>6. Starts' = Point(st, "pool", e)
  BY <1>1, <1>4 DEF Starts, Point, Home, Queue, TypeOK
<1>7. Held' = Held
  BY DEF Held
<1>8. Fits(next', Starts', M, Held')
  BY <1>4, <1>5, <1>6, <1>7
<1>9. M["pool"] = Cons(e, s) /\ \A g \in Home : g # "pool" => M[g] = l[g]
  BY <1>2 DEF Point, Lists
<1>10. /\ M["defer"] = r /\ M["incoming"] = Lists["incoming"]
       /\ M["capsule"] = Lists["capsule"] /\ M["moved"] = Lists["moved"]
  BY <1>3, <1>9 DEF Home, Queue
<1>11. \A x \in Element : allocated'[x] <=> x \notin Range(M["pool"])
  <2>1. Range(M["pool"]) = Range(s) \cup {e}
    BY <1>2, <1>9, ConsIs
  <2>2. allocated \in [Element -> BOOLEAN]
    BY <1>1 DEF TypeOK
  <2> QED BY <1>1, <1>4, <2>1, <2>2 DEF Counts
<1>12. /\ poolHead' \in Pointer /\ allocated' \in [Element -> BOOLEAN]
       /\ body' \in [Element -> Message \cup {NoMessage}]
       /\ head' = [q \in Queue |-> head'[q]]
  BY <1>1, <1>4 DEF TypeOK, Pointer
<1> HIDE DEF M
<1> QED BY <1>4, <1>8, <1>10, <1>11, <1>12

LEMMA UnlinkRecall ==
  ASSUME Inv, NEW e \in Element, NEW h, NEW keeper, NEW r, NEW H,
         Unlink(e, h, keeper), removal.kind # "purge", UNCHANGED <<hand, moved>>,
         H = Held \cup {e}, e \notin Held,
         Fits(Relinked(keeper, e), Point(Starts, "defer", h), Point(Lists, "defer", r), H)
  PROVE  \E M : /\ Fits(next', Starts', M, Held')
                /\ M["defer"] = r /\ M["incoming"] = Lists["incoming"]
                /\ M["pool"] = Lists["pool"] /\ M["moved"] = Lists["moved"]
                /\ Len(M["capsule"]) = Len(Lists["capsule"]) + 1
                /\ M["capsule"] = IF removal.front THEN Cons(e, Lists["capsule"])
                                  ELSE Behind(Lists["capsule"], e)
                /\ tail'["capsule"] = Last(M["capsule"])
                /\ \A q \in Queue : q # "capsule" => tail'[q] = tail[q]
                /\ UNCHANGED <<poolHead, allocated, body>>
                /\ tail' \in [Queue -> Pointer] /\ head' = [q \in Queue |-> head'[q]]
                /\ count' = [count EXCEPT !["defer"] = @ - 1, !["capsule"] = @ + 1]
<1>1. TypeOK /\ Fits(next, Starts, Lists, Held) /\ Counts(Lists) /\ Hands /\ ~fatal
  BY DEF Inv
<1> DEFINE c == Lists["capsule"]
           l == Point(Lists, "defer", r)
           st == Point(Starts, "defer", h)
           nx == Relinked(keeper, e)
           front == removal.front
           first == head["capsule"]
           u == IF front THEN Cons(e, c) ELSE Behind(c, e)
           M == Point(l, "capsule", u)
           p == IF front \/ first = NULL THEN e ELSE first
<1>2. "capsule" \in Home /\ "defer" \in Home /\ "capsule" \in Queue /\ c \in Seq(Element)
  <2>1. "capsule" \in Home /\ "defer" \in Home /\ "capsule" \in Queue
    BY DEF Home, Queue
  <2> QED BY <1>1, <2>1, Lengths
<1>3. st["capsule"] = first /\ l["capsule"] = c /\ l["defer"] = r
      /\ \A g \in Home : g # "defer" => l[g] = Lists[g]
  BY <1>2 DEF Starts, Lists, Point, Home, Queue
<1>4. first = NULL <=> c = <<>>
  <2>1. Linked(next, Starts["capsule"], c) /\ Starts["capsule"] = first
    BY <1>1, <1>2 DEF Fits, Starts, Home, Queue
  <2> QED BY <2>1, LinkedNull
<1>5. first # NULL => tail["capsule"] = Last(c)
  BY <1>1, <1>2, <1>4 DEF Counts
<1>6. /\ head' = [head EXCEPT !["defer"] = h, !["capsule"] = IF front \/ first = NULL THEN e ELSE @]
      /\ tail' = [tail EXCEPT !["capsule"] = IF front /\ first # NULL THEN @ ELSE e]
      /\ count' = [count EXCEPT !["defer"] = @ - 1, !["capsule"] = @ + 1]
      /\ UNCHANGED <<poolHead, allocated, body>>
  BY DEF Unlink, poolVars
<1>7. next' = IF front THEN Point(nx, e, first) ELSE Hook(nx, first, c, e)
  <2>2. CASE front
    <3>1. removal.front /\ removal.front = TRUE
      BY <1>1, <2>2 DEF TypeOK, Removal
    <3>2. next' = Point(nx, e, first)
      BY <3>1 DEF Unlink, Point, Relinked
    <3> QED BY <2>2, <3>2
  <2>3. CASE ~front /\ first = NULL
    <3>1. next' = Point(nx, e, NULL)
      BY <2>3 DEF Unlink, Point, Relinked
    <3> QED BY <2>3, <3>1 DEF Hook
  <2>4. CASE ~front /\ first # NULL
    <3>1. next' = Point(Point(nx, e, NULL), tail["capsule"], e)
      BY <2>4 DEF Unlink, Point, Relinked
    <3> QED BY <1>5, <2>4, <3>1 DEF Hook
  <2> QED BY <2>2, <2>3, <2>4
<1>8. Fits(next', Point(st, "capsule", p), M, Held)
  <2>1. e \in H /\ H \ {e} = Held
    OBVIOUS
  <2>2. CASE front
    <3>1. next' = Point(nx, e, first) /\ u = Cons(e, c) /\ p = e
      BY <1>7, <2>2
    <3> HIDE DEF nx, st, l, c, u, p, first, front
    <3>2. Fits(nx, st, l, H)
      BY DEF nx, st, l
    <3>3. Fits(Point(nx, e, st["capsule"]), Point(st, "capsule", e),
               Point(l, "capsule", Cons(e, l["capsule"])), H \ {e})
      BY <1>2, <2>1, <3>2, AddFirst
    <3> QED BY <1>3, <2>1, <3>1, <3>3
  <2>3. CASE ~front
    <3>1. next' = Hook(nx, first, c, e) /\ u = Behind(c, e) /\ p = First(first, e)
      BY <1>7, <2>3 DEF First
    <3> HIDE DEF nx, st, l, c, u, p, first, front
    <3>2. Fits(nx, st, l, H)
      BY DEF nx, st, l
    <3>3. Fits(Hook(nx, st["capsule"], l["capsule"], e), Point(st, "capsule", First(st["capsule"], e)),
               Point(l, "capsule", Behind(l["capsule"], e)), H \ {e})
      BY <1>2, <2>1, <3>2, AddLast
    <3> QED BY <1>3, <2>1, <3>1, <3>3
  <2> QED BY <2>2, <2>3
<1>9. Starts' = Point(st, "capsule", p)
  <2>1. /\ head'["capsule"] = p /\ head'["defer"] = h
        /\ head'["incoming"] = head["incoming"]
    BY <1>1, <1>6 DEF TypeOK, Queue
  <2>2. poolHead' = poolHead /\ moved' = moved
    BY <1>6
  <2> HIDE DEF p
  <2> QED BY <2>1, <2>2 DEF Starts, Point, Home, Queue
<1>10. Held' = Held
  BY DEF Held
<1>11. Fits(next', Starts', M, Held')
  BY <1>8, <1>9, <1>10
<1>12. M["capsule"] = u /\ \A g \in Home : g # "capsule" => M[g] = l[g]
  BY <1>2 DEF Point, Lists
<1>13. /\ M["defer"] = r /\ M["incoming"] = Lists["incoming"]
       /\ M["pool"] = Lists["pool"] /\ M["moved"] = Lists["moved"]
  BY <1>3, <1>12 DEF Home, Queue
<1>14. Len(u) = Len(c) + 1 /\ Last(u) = IF front /\ c # <<>> THEN Last(c) ELSE e
  BY <1>2, ConsIs, BehindIs, LastCons
<1>15. /\ tail'["capsule"] = Last(u)
       /\ \A q \in Queue : q # "capsule" => tail'[q] = tail[q]
       /\ tail' \in [Queue -> Pointer] /\ head' = [q \in Queue |-> head'[q]]
  BY <1>1, <1>2, <1>4, <1>5, <1>6, <1>14 DEF TypeOK, Pointer
<1>16. M["capsule"] = IF removal.front THEN Cons(e, Lists["capsule"])
                      ELSE Behind(Lists["capsule"], e)
  BY <1>12
<1> HIDE DEF M, u
<1> QED BY <1>6, <1>11, <1>12, <1>13, <1>14, <1>15, <1>16

LEMMA UnlinkInv ==
  ASSUME Inv, NEW e \in Element, NEW h, NEW keeper, NEW r, NEW H,
         Unlink(e, h, keeper), UNCHANGED <<hand, moved>>,
         H = Held \cup {e}, e \notin Held, Len(Lists["defer"]) = Len(r) + 1,
         r # <<>> /\ pc' # "removeNext" => tail["defer"] = Last(r),
         pc # "removeNext" \/ pc' = "removeNext",
         Fits(Relinked(keeper, e), Point(Starts, "defer", h), Point(Lists, "defer", r), H)
  PROVE  /\ Fits(next', Starts', Lists', Held') /\ Counts(Lists)'
         /\ Lists'["defer"] = r /\ fatal' = FALSE
         /\ Lists'["incoming"] = Lists["incoming"] /\ Lists'["moved"] = Lists["moved"]
         /\ Lists'["capsule"] = IF removal.kind = "purge" THEN Lists["capsule"]
                                ELSE IF removal.front THEN Cons(e, Lists["capsule"])
                                ELSE Behind(Lists["capsule"], e)
         /\ next' \in [Element -> Pointer] /\ poolHead' \in Pointer
         /\ allocated' \in [Element -> BOOLEAN]
         /\ body' \in [Element -> Message \cup {NoMessage}]
         /\ head' \in [Queue -> Pointer] /\ tail' \in [Queue -> Pointer]
         /\ count' \in [Queue -> 0 .. Cardinality(Element)]
<1>1. TypeOK /\ Fits(next, Starts, Lists, Held) /\ Counts(Lists) /\ Hands /\ ~fatal
  BY DEF Inv
<1>2. /\ "defer" \in Home /\ "defer" \in Queue /\ Queue = {"incoming", "capsule", "defer"}
      /\ Len(r) \in Nat
  <2>1. "defer" \in Home /\ "defer" \in Queue /\ Queue = {"incoming", "capsule", "defer"}
    BY DEF Home, Queue
  <2>2. PICK l : l = Point(Lists, "defer", r)
    OBVIOUS
  <2>3. l["defer"] \in Seq(Element)
    BY <2>1, <2>2, Lengths
  <2>4. l["defer"] = r
    BY <2>1, <2>2 DEF Point, Lists
  <2> QED BY <2>1, <2>3, <2>4
<1>3. fatal' = FALSE
  <2>1. fatal' = (count["defer"] = 0)
    BY DEF Unlink
  <2>2. \A q \in Queue : count[q] = Len(Lists[q])
    BY <1>1 DEF Counts
  <2>3. count["defer"] = Len(Lists["defer"])
    <3>1. "defer" \in Queue
      BY <1>2
    <3> QED BY <2>2, <3>1
  <2>4. Len(r) + 1 # 0
    BY <1>2
  <2> QED BY <2>1, <2>3, <2>4
<1>4. /\ \A q \in Queue : count[q] \in Nat /\ count[q] = Len(Lists[q])
      /\ count \in [Queue -> 0 .. Cardinality(Element)]
  BY <1>1, ElementAssumption, FS_CardinalityType DEF TypeOK, Counts
<1>5. PICK M : /\ Fits(next', Starts', M, Held')
               /\ M["defer"] = r /\ M["incoming"] = Lists["incoming"] /\ M["moved"] = Lists["moved"]
               /\ \A x \in Element : allocated'[x] <=> x \notin Range(M["pool"])
               /\ poolHead' \in Pointer /\ allocated' \in [Element -> BOOLEAN]
               /\ body' \in [Element -> Message \cup {NoMessage}]
               /\ tail' \in [Queue -> Pointer] /\ head' = [q \in Queue |-> head'[q]]
               /\ tail'["incoming"] = tail["incoming"] /\ tail'["defer"] = tail["defer"]
               /\ M["capsule"] # <<>> => tail'["capsule"] = Last(M["capsule"])
               /\ M["capsule"] = IF removal.kind = "purge" THEN Lists["capsule"]
                                 ELSE IF removal.front THEN Cons(e, Lists["capsule"])
                                 ELSE Behind(Lists["capsule"], e)
               /\ count' = [q \in Queue |-> count'[q]]
               /\ \A q \in Queue : count'[q] = Len(M[q])
  <2>1. CASE removal.kind = "purge"
    <3>1. PICK M : /\ Fits(next', Starts', M, Held')
                   /\ M["defer"] = r /\ M["incoming"] = Lists["incoming"]
                   /\ M["capsule"] = Lists["capsule"] /\ M["moved"] = Lists["moved"]
                   /\ \A x \in Element : allocated'[x] <=> x \notin Range(M["pool"])
                   /\ poolHead' \in Pointer /\ allocated' \in [Element -> BOOLEAN]
                   /\ body' \in [Element -> Message \cup {NoMessage}]
                   /\ tail' = tail /\ head' = [q \in Queue |-> head'[q]]
                   /\ count' = [count EXCEPT !["defer"] = @ - 1]
      BY <2>1, UnlinkPurge
    <3>2. /\ count' = [q \in Queue |-> count'[q]] /\ count'["defer"] = count["defer"] - 1
          /\ count'["capsule"] = count["capsule"] /\ count'["incoming"] = count["incoming"]
      BY <1>2, <1>4, <3>1
    <3>3. \A q \in Queue : count'[q] = Len(M[q])
      BY <1>2, <1>4, <3>1, <3>2
    <3>4. M["capsule"] # <<>> => tail'["capsule"] = Last(M["capsule"])
      BY <1>1, <1>2, <3>1 DEF Counts
    <3>5. tail' \in [Queue -> Pointer] /\ tail'["incoming"] = tail["incoming"] /\ tail'["defer"] = tail["defer"]
      BY <1>1, <3>1 DEF TypeOK
    <3> QED BY <2>1, <3>1, <3>2, <3>3, <3>4, <3>5
  <2>2. CASE removal.kind # "purge"
    <3>1. PICK M : /\ Fits(next', Starts', M, Held')
                   /\ M["defer"] = r /\ M["incoming"] = Lists["incoming"]
                   /\ M["pool"] = Lists["pool"] /\ M["moved"] = Lists["moved"]
                   /\ Len(M["capsule"]) = Len(Lists["capsule"]) + 1
                   /\ M["capsule"] = IF removal.front THEN Cons(e, Lists["capsule"])
                                     ELSE Behind(Lists["capsule"], e)
                   /\ tail'["capsule"] = Last(M["capsule"])
                   /\ \A q \in Queue : q # "capsule" => tail'[q] = tail[q]
                   /\ UNCHANGED <<poolHead, allocated, body>>
                   /\ tail' \in [Queue -> Pointer] /\ head' = [q \in Queue |-> head'[q]]
                   /\ count' = [count EXCEPT !["defer"] = @ - 1, !["capsule"] = @ + 1]
      BY <2>2, UnlinkRecall
    <3>2. /\ count' = [q \in Queue |-> count'[q]] /\ count'["defer"] = count["defer"] - 1
          /\ count'["capsule"] = count["capsule"] + 1 /\ count'["incoming"] = count["incoming"]
      BY <1>2, <1>4, <3>1
    <3>3. \A q \in Queue : count'[q] = Len(M[q])
      BY <1>2, <1>4, <3>1, <3>2
    <3>4. \A x \in Element : allocated'[x] <=> x \notin Range(M["pool"])
      BY <1>1, <3>1 DEF Counts
    <3>5. /\ poolHead' \in Pointer /\ allocated' \in [Element -> BOOLEAN]
          /\ body' \in [Element -> Message \cup {NoMessage}]
          /\ tail'["incoming"] = tail["incoming"] /\ tail'["defer"] = tail["defer"]
      BY <1>1, <1>2, <3>1 DEF TypeOK
    <3> QED BY <2>2, <3>1, <3>2, <3>3, <3>4, <3>5
  <2> QED BY <2>1, <2>2
<1>6. /\ Lists' = M /\ next' \in [Element -> Pointer]
      /\ head' \in [Queue -> Pointer] /\ count' \in [Queue -> 0 .. Cardinality(Element)]
  BY <1>5, Settle
<1>7. Counts(Lists)'
  <2>1. \A q \in Queue : M[q] # <<>> /\ ~(q = "defer" /\ pc' = "removeNext") => tail'[q] = Last(M[q])
    BY <1>1, <1>2, <1>5 DEF Counts
  <2> QED BY <1>1, <1>5, <1>6, <2>1 DEF Counts
<1> QED BY <1>3, <1>5, <1>6, <1>7

LEMMA RemoveHeadInv ==
  ASSUME Inv, RemoveHead
  PROVE  /\ Inv' /\ Lists'["defer"] = Tail(Lists["defer"])
         /\ Lists["defer"] # <<>> /\ head["defer"] = Lists["defer"][1]
         /\ Lists'["incoming"] = Lists["incoming"] /\ Lists'["moved"] = Lists["moved"]
         /\ Lists'["capsule"] = IF removal.kind = "purge" THEN Lists["capsule"]
                                ELSE IF removal.front THEN Cons(head["defer"], Lists["capsule"])
                                ELSE Behind(Lists["capsule"], head["defer"])
<1>1. TypeOK /\ Fits(next, Starts, Lists, Held) /\ Counts(Lists) /\ Hands /\ ~fatal
  BY DEF Inv
<1> DEFINE d == Lists["defer"]
           e == head["defer"]
<1>2. "defer" \in Home /\ "defer" \in Queue
  BY DEF Home, Queue
<1>3. Starts["defer"] = e /\ d \in Seq(Element)
  BY <1>1, <1>2, Lengths DEF Starts, Home, Queue
<1>4. /\ pc = "removeHead" /\ pc' \in {"user", "removeHead"} /\ e # NULL
      /\ Unlink(e, next[e], NULL)
      /\ removal' = IF removal.one THEN NoRemoval ELSE [removal EXCEPT !.count = @ + 1]
      /\ UNCHANGED <<hand, moved, sent>>
  BY DEF RemoveHead, Goto
<1>5. e \in Element /\ e \notin Held /\ d # <<>>
  BY <1>1, <1>2, <1>3, <1>4, FirstIs
<1>6. Fits(next, Point(Starts, "defer", next[e]), Point(Lists, "defer", Tail(d)), Held \cup {e})
  BY <1>1, <1>2, <1>3, <1>4, TakeFirst
<1>7. Len(d) = Len(Tail(d)) + 1
  BY <1>3, <1>5
<1>8. Tail(d) # <<>> => tail["defer"] = Last(Tail(d))
  <2>1. Tail(d) # <<>> => Last(Tail(d)) = Last(d)
    BY <1>3, <1>5, LastTail
  <2> QED BY <1>1, <1>2, <1>4, <1>5, <2>1 DEF Counts
<1>9. PICK r, H, h : r = Tail(d) /\ H = Held \cup {e} /\ h = next[e]
  OBVIOUS
<1>10. Fits(Relinked(NULL, e), Point(Starts, "defer", h), Point(Lists, "defer", r), H)
  BY <1>6, <1>9 DEF Relinked
<1>11. /\ Fits(next', Starts', Lists', Held') /\ Counts(Lists)'
       /\ Lists'["defer"] = r /\ fatal' = FALSE
       /\ Lists'["incoming"] = Lists["incoming"] /\ Lists'["moved"] = Lists["moved"]
       /\ Lists'["capsule"] = IF removal.kind = "purge" THEN Lists["capsule"]
                              ELSE IF removal.front THEN Cons(e, Lists["capsule"])
                              ELSE Behind(Lists["capsule"], e)
       /\ next' \in [Element -> Pointer] /\ poolHead' \in Pointer
       /\ allocated' \in [Element -> BOOLEAN]
       /\ body' \in [Element -> Message \cup {NoMessage}]
       /\ head' \in [Queue -> Pointer] /\ tail' \in [Queue -> Pointer]
       /\ count' \in [Queue -> 0 .. Cardinality(Element)]
  <2>1. /\ Unlink(e, h, NULL) /\ Len(Lists["defer"]) = Len(r) + 1
        /\ (r # <<>> /\ pc' # "removeNext" => tail["defer"] = Last(r))
        /\ pc # "removeNext"
    BY <1>4, <1>7, <1>8, <1>9
  <2> HIDE DEF e, d
  <2> QED BY <1>4, <1>5, <1>9, <1>10, <2>1, UnlinkInv
<1>12. Hands'
  BY <1>1, <1>4 DEF Hands
<1>13. TypeOK'
  <2>1. removal' \in Removal
    BY <1>1, <1>4 DEF TypeOK, Removal, NoRemoval, Pointer
  <2> QED BY <1>1, <1>4, <1>11, <2>1 DEF TypeOK
<1>14. Inv'
  BY <1>11, <1>12, <1>13 DEF Inv
<1>15. e = d[1]
  BY <1>1, <1>2, <1>3, <1>5 DEF Fits, Linked
<1> QED BY <1>5, <1>9, <1>11, <1>14, <1>15

LEMMA RemoveNextInv ==
  ASSUME Inv, RemoveNext
  PROVE  /\ Inv' /\ next[removal.keeper] \in Element
         /\ \A k \in 1 .. Len(Lists["defer"]) : Lists["defer"][k] = removal.keeper =>
              /\ Lists'["defer"] = Without(Lists["defer"], k) /\ k + 1 \in 1 .. Len(Lists["defer"])
              /\ next[removal.keeper] = Lists["defer"][k + 1]
         /\ Lists'["incoming"] = Lists["incoming"] /\ Lists'["moved"] = Lists["moved"]
         /\ Lists'["capsule"] = IF removal.kind = "purge" THEN Lists["capsule"]
                                ELSE IF removal.front THEN Cons(next[removal.keeper], Lists["capsule"])
                                ELSE Behind(Lists["capsule"], next[removal.keeper])
<1>1. TypeOK /\ Fits(next, Starts, Lists, Held) /\ Counts(Lists) /\ Hands /\ ~fatal
  BY DEF Inv
<1> DEFINE d == Lists["defer"]
           keeper == removal.keeper
           e == next[keeper]
<1>2. "defer" \in Home /\ "defer" \in Queue
  BY DEF Home, Queue
<1>3. Starts["defer"] = head["defer"] /\ d \in Seq(Element) /\ Starts \in [Home -> Pointer]
  BY <1>1, <1>2, Lengths, HandsType DEF Starts, Home, Queue
<1>4. /\ pc = "removeNext" /\ pc' = "removeNext" /\ e # NULL
      /\ Unlink(e, head["defer"], keeper)
      /\ removal' = [removal EXCEPT !.count = @ + 1]
      /\ UNCHANGED <<hand, moved, sent>>
  BY DEF RemoveNext, Goto
<1>5. PICK k \in 1 .. Len(d) : d[k] = keeper
  BY <1>1, <1>3, <1>4 DEF Hands, Range
<1>6. PICK r, H : r = Without(d, k) /\ H = Held \cup {e}
  OBVIOUS
<1>7. /\ e \in Element /\ e \notin Held /\ keeper \in Element /\ keeper \in Range(r)
      /\ Len(d) = Len(r) + 1
  <2>1. /\ e \in Element /\ e \notin Held /\ keeper \in Element /\ keeper \in Range(r)
    BY <1>1, <1>2, <1>4, <1>5, <1>6, NextIs
  <2>2. Linked(next, Starts["defer"], d)
    BY <1>1, <1>2 DEF Fits
  <2>3. k + 1 \in 1 .. Len(d)
    BY <1>4, <1>5, <2>2, LinkedNext
  <2>4. Len(d) = Len(Without(d, k)) + 1
    BY <1>3, <2>3, WithoutIs
  <2> QED BY <1>6, <2>1, <2>4
<1>8. Fits(Point(next, keeper, next[e]), Starts, Point(Lists, "defer", r), H)
  <2>1. Fits(next, Starts, Lists, Held) /\ next[Lists["defer"][k]] # NULL
    BY <1>1, <1>4, <1>5
  <2>2. k \in 1 .. Len(Lists["defer"])
    BY <1>5
  <2> HIDE DEF d, e, keeper
  <2>3. Fits(Point(next, Lists["defer"][k], next[next[Lists["defer"][k]]]), Starts,
             Point(Lists, "defer", Without(Lists["defer"], k)), Held \cup {next[Lists["defer"][k]]})
    BY <1>2, <2>1, <2>2, TakeNext
  <2> QED BY <1>5, <1>6, <2>3 DEF d, e, keeper
<1>9. Fits(Relinked(keeper, e), Point(Starts, "defer", head["defer"]), Point(Lists, "defer", r), H)
  <2>1. Point(Starts, "defer", head["defer"]) = Starts
    BY <1>2, <1>3 DEF Point
  <2>2. keeper # NULL
    BY <1>7, NullAssumption
  <2> QED BY <1>8, <2>1, <2>2 DEF Relinked
<1>10. /\ Fits(next', Starts', Lists', Held') /\ Counts(Lists)'
       /\ Lists'["defer"] = r /\ fatal' = FALSE
       /\ Lists'["incoming"] = Lists["incoming"] /\ Lists'["moved"] = Lists["moved"]
       /\ Lists'["capsule"] = IF removal.kind = "purge" THEN Lists["capsule"]
                              ELSE IF removal.front THEN Cons(e, Lists["capsule"])
                              ELSE Behind(Lists["capsule"], e)
       /\ next' \in [Element -> Pointer] /\ poolHead' \in Pointer
       /\ allocated' \in [Element -> BOOLEAN]
       /\ body' \in [Element -> Message \cup {NoMessage}]
       /\ head' \in [Queue -> Pointer] /\ tail' \in [Queue -> Pointer]
       /\ count' \in [Queue -> 0 .. Cardinality(Element)]
  <2> HIDE DEF e, keeper
  <2> QED BY <1>4, <1>6, <1>7, <1>9, UnlinkInv
<1>11. Hands'
  BY <1>1, <1>4, <1>7, <1>10 DEF Hands, TypeOK, Removal
<1>12. TypeOK'
  <2>1. removal \in Removal
    BY <1>1 DEF TypeOK
  <2>2. removal' \in Removal
    BY <1>4, <2>1 DEF Removal
  <2> QED BY <1>1, <1>4, <1>10, <2>2 DEF TypeOK
<1>13. Inv'
  BY <1>10, <1>11, <1>12 DEF Inv
<1>14. Linked(next, Starts["defer"], d)
  BY <1>1, <1>2 DEF Fits
<1>15. k + 1 \in 1 .. Len(d) /\ e = d[k + 1] /\ \A j \in 1 .. Len(d) : d[j] = keeper => j = k
  BY <1>4, <1>5, <1>14, LinkedNext DEF Linked
<1> HIDE DEF d, e, keeper
<1>16. \A j \in 1 .. Len(d) : d[j] = keeper =>
         Lists'["defer"] = Without(d, j) /\ j + 1 \in 1 .. Len(d) /\ e = d[j + 1]
  BY <1>6, <1>10, <1>15
<1> QED BY <1>7, <1>10, <1>13, <1>16 DEF d, e, keeper

\* The steps that relink nothing.
LEMMA SameLists ==
  ASSUME Inv, UNCHANGED <<next, poolHead, head, hand, moved>>
  PROVE  Fits(next', Starts', Lists', Held') /\ Lists' = Lists
<1>1. Starts' = Starts /\ Held' = Held
  BY DEF Starts, Held
<1>2. Fits(next', Starts', Lists, Held')
  BY <1>1 DEF Inv
<1>3. Lists' = Lists
  BY <1>2, ListsNext
<1> QED BY <1>2, <1>3

LEMMA RemovalInv ==
  ASSUME Inv, Goto("user", "removeHead"), removal' \in Removal,
         UNCHANGED <<next, poolVars, queueVars, hand, moved, sent, fatal>>
  PROVE  Inv' /\ Lists' = Lists
<1>1. TypeOK /\ Counts(Lists) /\ Hands /\ ~fatal
  BY DEF Inv
<1>2. /\ pc = "user" /\ pc' = "removeHead"
      /\ UNCHANGED <<next, poolHead, allocated, body, head, tail, count, hand, moved, sent, fatal>>
  BY DEF Goto, poolVars, queueVars
<1>3. Fits(next', Starts', Lists', Held') /\ Lists' = Lists
  BY <1>2, SameLists
<1>4. Counts(Lists)'
  BY <1>1, <1>2, <1>3 DEF Counts
<1>5. Hands'
  BY <1>1, <1>2 DEF Hands
<1>6. TypeOK'
  BY <1>1, <1>2 DEF TypeOK
<1> QED BY <1>1, <1>2, <1>3, <1>4, <1>5, <1>6 DEF Inv

LEMMA KeepHeadInv ==
  ASSUME Inv, KeepHead
  PROVE  Inv' /\ Lists' = Lists
<1>1. TypeOK /\ Counts(Lists) /\ Hands /\ ~fatal /\ Fits(next, Starts, Lists, Held)
  BY DEF Inv
<1>2. /\ pc = "removeHead" /\ pc' = "removeNext" /\ head["defer"] # NULL
      /\ removal' = [removal EXCEPT !.keeper = head["defer"]]
      /\ UNCHANGED <<next, poolHead, allocated, body, head, tail, count, hand, moved, sent, fatal>>
  BY DEF KeepHead, Goto, poolVars, queueVars
<1>3. Fits(next', Starts', Lists', Held') /\ Lists' = Lists
  BY <1>2, SameLists
<1>4. Counts(Lists)'
  BY <1>1, <1>2, <1>3 DEF Counts
<1>5. head["defer"] \in Range(Lists["defer"]) /\ head["defer"] \in Pointer
  <2>1. "defer" \in Home /\ Starts["defer"] = head["defer"]
    BY DEF Starts, Home, Queue
  <2>2. Linked(next, head["defer"], Lists["defer"])
    BY <1>1, <2>1 DEF Fits
  <2> QED BY <1>2, <2>2, LinkedNull
<1>6. removal' \in Removal /\ removal'.keeper = head["defer"]
  <2>1. removal \in Removal
    BY <1>1 DEF TypeOK
  <2> QED BY <1>2, <1>5, <2>1 DEF Removal
<1>7. Hands'
  BY <1>1, <1>2, <1>3, <1>5, <1>6 DEF Hands
<1>8. TypeOK'
  BY <1>1, <1>2, <1>6 DEF TypeOK
<1> QED BY <1>1, <1>2, <1>3, <1>4, <1>7, <1>8 DEF Inv

LEMMA NoHeadInv ==
  ASSUME Inv, NoHead
  PROVE  Inv' /\ Lists' = Lists
<1>1. TypeOK /\ Counts(Lists) /\ Hands /\ ~fatal
  BY DEF Inv
<1>2. /\ pc = "removeHead" /\ pc' = "user" /\ removal' = NoRemoval
      /\ UNCHANGED <<next, poolHead, allocated, body, head, tail, count, hand, moved, sent, fatal>>
  BY DEF NoHead, Goto, poolVars, queueVars
<1>3. Fits(next', Starts', Lists', Held') /\ Lists' = Lists
  BY <1>2, SameLists
<1>4. Counts(Lists)'
  BY <1>1, <1>2, <1>3 DEF Counts
<1>5. Hands'
  BY <1>1, <1>2 DEF Hands
<1>6. TypeOK'
  BY <1>1, <1>2 DEF TypeOK, Removal, NoRemoval, Pointer
<1> QED BY <1>1, <1>2, <1>3, <1>4, <1>5, <1>6 DEF Inv

LEMMA KeepNextInv ==
  ASSUME Inv, KeepNext
  PROVE  Inv' /\ Lists' = Lists
<1>1. TypeOK /\ Counts(Lists) /\ Hands /\ ~fatal /\ Fits(next, Starts, Lists, Held)
  BY DEF Inv
<1> DEFINE d == Lists["defer"]
           e == next[removal.keeper]
<1>2. /\ pc = "removeNext" /\ pc' = "removeNext" /\ e # NULL
      /\ removal' = [removal EXCEPT !.keeper = e]
      /\ UNCHANGED <<next, poolHead, allocated, body, head, tail, count, hand, moved, sent, fatal>>
  BY DEF KeepNext, Goto, poolVars, queueVars
<1>3. Fits(next', Starts', Lists', Held') /\ Lists' = Lists
  BY <1>2, SameLists
<1>4. Counts(Lists)'
  BY <1>1, <1>2, <1>3 DEF Counts
<1>5. e \in Range(d) /\ e \in Pointer
  <2>1. "defer" \in Home
    BY DEF Home, Queue
  <2>2. PICK k \in 1 .. Len(d) : d[k] = removal.keeper
    <3>1. removal.keeper \in Range(d) /\ d \in Seq(Element)
      BY <1>1, <1>2, <2>1, Lengths DEF Hands
    <3> QED BY <3>1 DEF Range
  <2>3. e \in Range(d) /\ e \in Element
    BY <1>1, <1>2, <2>1, <2>2, NextIs
  <2> QED BY <2>3 DEF Pointer
<1>6. removal' \in Removal /\ removal'.keeper = e
  <2>1. removal \in Removal
    BY <1>1 DEF TypeOK
  <2> HIDE DEF e
  <2> QED BY <1>2, <1>5, <2>1 DEF Removal
<1>7. Hands'
  BY <1>1, <1>2, <1>3, <1>5, <1>6 DEF Hands
<1>8. TypeOK'
  BY <1>1, <1>2, <1>6 DEF TypeOK
<1> QED BY <1>1, <1>2, <1>3, <1>4, <1>7, <1>8 DEF Inv

LEMMA NoNextInv ==
  ASSUME Inv, NoNext
  PROVE  Inv' /\ Lists' = Lists
<1>1. TypeOK /\ Counts(Lists) /\ Hands /\ ~fatal /\ Fits(next, Starts, Lists, Held)
  BY DEF Inv
<1> DEFINE d == Lists["defer"]
           keeper == removal.keeper
<1>2. /\ pc = "removeNext" /\ pc' = "user" /\ next[keeper] = NULL
      /\ tail' = [tail EXCEPT !["defer"] = keeper] /\ removal' = NoRemoval
      /\ UNCHANGED <<next, poolHead, allocated, body, head, count, hand, moved, sent, fatal>>
  BY DEF NoNext, Goto, poolVars
<1>3. Fits(next', Starts', Lists', Held') /\ Lists' = Lists
  BY <1>2, SameLists
<1>4. keeper = Last(d)
  <2>1. "defer" \in Home
    BY DEF Home, Queue
  <2>2. PICK k \in 1 .. Len(d) : d[k] = keeper
    <3>1. keeper \in Range(d) /\ d \in Seq(Element)
      BY <1>1, <1>2, <2>1, Lengths DEF Hands
    <3> QED BY <3>1 DEF Range
  <2>3. Linked(next, Starts["defer"], d)
    BY <1>1, <2>1 DEF Fits
  <2>4. next[d[k]] = IF k = Len(d) THEN NULL ELSE d[k + 1]
    BY <2>2, <2>3 DEF Linked
  <2>5. k # Len(d) => d[k + 1] \in Element
    BY <2>2, <2>3 DEF Linked
  <2>6. k = Len(d)
    BY <1>2, <2>2, <2>4, <2>5, NullAssumption
  <2> QED BY <2>2, <2>6 DEF Last
<1>5. /\ tail'["defer"] = keeper /\ \A q \in Queue : q # "defer" => tail'[q] = tail[q]
      /\ tail' \in [Queue -> Pointer]
  <2>1. tail \in [Queue -> Pointer] /\ keeper \in Pointer
    BY <1>1 DEF TypeOK, Removal
  <2>2. "defer" \in Queue
    BY DEF Queue
  <2> HIDE DEF keeper
  <2> QED BY <1>2, <2>1, <2>2
<1>6. Counts(Lists)'
  BY <1>1, <1>2, <1>3, <1>4, <1>5 DEF Counts
<1>7. Hands'
  BY <1>1, <1>2 DEF Hands
<1>8. TypeOK'
  <2>1. removal' \in Removal
    BY <1>2 DEF Removal, NoRemoval, Pointer
  <2> QED BY <1>1, <1>2, <1>5, <2>1 DEF TypeOK
<1> QED BY <1>1, <1>2, <1>3, <1>6, <1>7, <1>8 DEF Inv

\* The elements in the order of the pool.
LEMMA Ordered ==
  ASSUME NEW s, s = SetToSeq(Element)
  PROVE  /\ s \in Seq(Element) /\ s # <<>> /\ Range(s) = Element
         /\ \A i, j \in 1 .. Len(s) : s[i] = s[j] => i = j
<1> DEFINE N == Cardinality(Element)
<1>1. N \in Nat /\ N # 0 /\ ExistsBijection(1 .. N, Element)
  BY ElementAssumption, FS_CardinalityType, FS_EmptySet
<1>2. \E f \in [1 .. N -> Element] : IsInjective(f)
  <2>1. PICK f \in Bijection(1 .. N, Element) : TRUE
    BY <1>1 DEF ExistsBijection
  <2> QED BY <2>1 DEF Bijection, Injection, Surjection, IsInjective
<1>3. s \in [1 .. N -> Element] /\ IsInjective(s)
  BY <1>2 DEF SetToSeq
<1>4. s \in Seq(Element) /\ Len(s) = N
  BY <1>1, <1>3
<1>5. \A i, j \in 1 .. Len(s) : s[i] = s[j] => i = j
  BY <1>3, <1>4 DEF IsInjective
<1>6. IsFiniteSet(Range(s)) /\ Cardinality(Range(s)) = N /\ Range(s) \in SUBSET Element
  BY <1>4, <1>5, Distinct, RangeType
<1>7. Range(s) = Element
  BY <1>6, ElementAssumption, FS_Subset
<1>8. s # <<>>
  BY <1>1, <1>4
<1> QED BY <1>4, <1>5, <1>7, <1>8

LEMMA InitInv == Init => Inv
<1> SUFFICES ASSUME Init PROVE Inv
  OBVIOUS
<1>1. PICK s : s = SetToSeq(Element)
  OBVIOUS
<1>2. /\ s \in Seq(Element) /\ s # <<>> /\ Range(s) = Element /\ DOMAIN s = 1 .. Len(s)
      /\ \A i, j \in 1 .. Len(s) : s[i] = s[j] => i = j
  BY <1>1, Ordered
<1> DEFINE At(e) == CHOOSE i \in DOMAIN s : s[i] = e
           M == [h \in Home |-> IF h = "pool" THEN s ELSE <<>>]
<1>3. /\ next = [e \in Element |-> IF At(e) = Len(s) THEN NULL ELSE s[At(e) + 1]]
      /\ poolHead = s[1]
  BY <1>1 DEF Init
<1>4. /\ allocated = [e \in Element |-> FALSE] /\ body = [e \in Element |-> NoMessage]
      /\ head = [q \in Queue |-> NULL] /\ tail = [q \in Queue |-> NULL]
      /\ count = [q \in Queue |-> 0] /\ hand = [t \in Thread |-> {}]
      /\ moved = NoList /\ pc = "loop" /\ removal = NoRemoval /\ sent = 0 /\ fatal = FALSE
  BY DEF Init
<1>5. \A i \in 1 .. Len(s) : s[i] \in Element /\ At(s[i]) = i
  BY <1>2
<1>6. \A e \in Element : At(e) \in 1 .. Len(s)
  BY <1>2 DEF Range
<1>7. Len(s) \in Nat \ {0}
  BY <1>2
<1> HIDE DEF At
<1>8. next \in [Element -> Pointer]
  <2> SUFFICES ASSUME NEW e \in Element
               PROVE  (IF At(e) = Len(s) THEN NULL ELSE s[At(e) + 1]) \in Pointer
    BY <1>3
  <2>1. At(e) # Len(s) => At(e) + 1 \in 1 .. Len(s)
    BY <1>6, <1>7
  <2> QED BY <1>5, <2>1 DEF Pointer
<1>9. Linked(next, poolHead, s)
  BY <1>2, <1>3, <1>5 DEF Linked
<1>10. Linked(next, NULL, <<>>) /\ Range(<<>>) = {} /\ <<>> \in Seq(Element) /\ Len(<<>>) = 0
  BY LinkedEmpty
<1>11. Held = {}
  BY <1>4 DEF Held
<1>12. M["pool"] = s /\ \A h \in Home : h # "pool" => M[h] = <<>>
  BY DEF Home
<1>13. Starts["pool"] = poolHead /\ \A h \in Home : h # "pool" => Starts[h] = NULL
  BY <1>4 DEF Starts, Home, Queue, NoList
<1>14. /\ M \in [Home -> Seq(Element)] /\ Starts \in [Home -> Pointer] /\ poolHead \in Pointer
       /\ "pool" \in Home
  <2>1. poolHead \in Pointer
    BY <1>9, LinkedNull
  <2>2. \A h \in Home : Starts[h] \in Pointer
    BY <1>13, <2>1 DEF Pointer
  <2>3. \A h \in Home : M[h] \in Seq(Element)
    BY <1>2, <1>10, <1>12
  <2> QED BY <2>1, <2>2, <2>3 DEF Starts, Home
<1> HIDE DEF M
<1>15. Fits(next, Starts, M, Held)
  <2>1. \A h \in Home : Linked(next, Starts[h], M[h])
    BY <1>9, <1>10, <1>12, <1>13
  <2>2. \A g, h \in Home : g # h => Range(M[g]) \cap Range(M[h]) = {}
    BY <1>10, <1>12
  <2>3. \A e \in Element : e \in {} <=> \A h \in Home : e \notin Range(M[h])
    BY <1>2, <1>12, <1>14
  <2> QED BY <1>8, <1>11, <1>14, <2>1, <2>2, <2>3 DEF Fits
<1>16. Lists = M
  BY <1>15, ListsAre
<1>17. Counts(Lists)
  <2>1. \A q \in Queue : q \in Home /\ q # "pool"
    BY DEF Home, Queue
  <2>2. \A q \in Queue : count[q] = 0 /\ M[q] = <<>>
    BY <1>4, <1>12, <2>1
  <2>3. M["moved"] = <<>> /\ moved.count = 0
    BY <1>4, <1>12 DEF NoList, Home
  <2>4. \A e \in Element : allocated[e] <=> e \notin Range(M["pool"])
    BY <1>2, <1>4, <1>12
  <2> QED BY <1>10, <1>16, <2>2, <2>3, <2>4 DEF Counts
<1>18. Hands
  BY <1>4 DEF Hands, Controller, Thread
<1>19. TypeOK
  <2>1. 0 \in 0 .. Cardinality(Element)
    BY ElementAssumption, FS_CardinalityType
  <2>2. removal \in Removal /\ moved \in [all : Pointer, last : Pointer, count : Nat]
    BY <1>4 DEF Removal, NoRemoval, NoList, Pointer
  <2>3. head \in [Queue -> Pointer] /\ tail \in [Queue -> Pointer]
    BY <1>4 DEF Pointer
  <2>4. count \in [Queue -> 0 .. Cardinality(Element)]
    BY <1>4, <2>1
  <2>5. sent \in 0 .. MaxSend
    BY <1>4, BoundAssumption
  <2> QED BY <1>4, <1>8, <1>14, <2>2, <2>3, <2>4, <2>5 DEF TypeOK
<1> QED BY <1>4, <1>15, <1>16, <1>17, <1>18, <1>19 DEF Inv

LEMMA NextInv == Inv /\ [Next]_vars => Inv'
<1> SUFFICES ASSUME Inv, [Next]_vars PROVE Inv'
  OBVIOUS
<1>1. ASSUME NEW t \in Remote, Allocate(t) \/ Deliver(t) PROVE Inv'
  BY <1>1, AllocateInv, DeliverInv
<1>2. CASE MoveOut \/ MoveIn \/ Inject \/ Defer \/ Return
  BY <1>2, MoveOutInv, MoveInInv, InjectInv, DeferInv, ReturnInv
<1>3. ASSUME NEW index \in Index \cup {-1}, NEW id \in Id \cup {-1}, Purge(index, id)
      PROVE  Inv'
  <2>1. removal' \in Removal
    BY <1>3 DEF Purge, Removal, NoRemoval, Pointer
  <2> QED BY <1>3, <2>1, RemovalInv DEF Purge
<1>4. ASSUME NEW index \in Index \cup {-1}, NEW id \in Id \cup {-1},
             NEW front \in BOOLEAN, NEW one \in BOOLEAN, Recall(index, id, front, one)
      PROVE  Inv'
  <2>1. removal' \in Removal
    BY <1>4 DEF Recall, Removal, NoRemoval, Pointer
  <2> QED BY <1>4, <2>1, RemovalInv DEF Recall
<1>5. CASE RemoveStep
  BY <1>5, RemoveHeadInv, KeepHeadInv, NoHeadInv, RemoveNextInv, KeepNextInv, NoNextInv
     DEF RemoveStep
<1>6. CASE UNCHANGED vars
  <2>1. /\ UNCHANGED <<next, allocated, body, poolHead, head, tail, count, hand, moved, pc,
                       removal, sent, fatal>>
    BY <1>6 DEF vars
  <2>2. Fits(next', Starts', Lists', Held') /\ Lists' = Lists
    BY <2>1, SameLists
  <2> QED BY <2>1, <2>2 DEF Inv, TypeOK, Counts, Hands
<1> QED BY <1>1, <1>2, <1>3, <1>4, <1>5, <1>6 DEF Next

\* Whatever the threads and the controller do: the pointers form whole lists, no element is on
\* two of them or lost, and counts, tails and flags are as the lists say.
THEOREM Invariance == Spec => []Inv
BY InitInv, NextInv, PTL DEF Spec

\* Every pointer, flag and count is of its type in every state.
THEOREM Typing == Spec => []TypeOK
<1>1. Inv => TypeOK
  BY DEF Inv
<1> QED BY <1>1, Invariance, PTL

LEMMA Disjoint ==
  ASSUME NEW S, IsFiniteSet(S), NEW T, IsFiniteSet(T), S \cap T = {}
  PROVE  IsFiniteSet(S \cup T) /\ Cardinality(S \cup T) = Cardinality(S) + Cardinality(T)
<1>1. Cardinality(S \cup T) = Cardinality(S) + Cardinality(T) - Cardinality(S \cap T)
  BY FS_Union
<1>2. Cardinality(S \cap T) = 0 /\ Cardinality(S) \in Nat /\ Cardinality(T) \in Nat
  BY FS_EmptySet, FS_CardinalityType
<1> QED BY <1>1, <1>2, FS_Union

LEMMA Counted ==
  ASSUME Inv, NEW h \in Home
  PROVE  IsFiniteSet(Range(Lists[h])) /\ Cardinality(Range(Lists[h])) = Len(Lists[h])
<1>1. Linked(next, Starts[h], Lists[h])
  BY DEF Inv, Fits
<1>2. Lists[h] \in Seq(Element) /\ \A i, j \in 1 .. Len(Lists[h]) : Lists[h][i] = Lists[h][j] => i = j
  BY <1>1 DEF Linked
<1> QED BY <1>2, Distinct

LEMMA InvSound == Inv => ListsSound
<1> SUFFICES ASSUME Inv PROVE ListsSound
  OBVIOUS
<1>1. TypeOK /\ Fits(next, Starts, Lists, Held) /\ Counts(Lists) /\ Hands /\ ~fatal
  BY DEF Inv
<1>2. /\ Chain(poolHead) = Lists["pool"] /\ Chain(moved.all) = Lists["moved"]
      /\ \A q \in Queue : Chain(head[q]) = Lists[q]
  BY DEF Lists, Starts, Home, Queue
<1>3. WellFormed
  BY <1>1, <1>2 DEF WellFormed, Counts
<1>4. /\ Home = {"pool", "moved", "incoming", "capsule", "defer"}
      /\ Held = UNION {hand[t] : t \in Thread}
      /\ "incoming" \in Queue /\ "capsule" \in Queue /\ "defer" \in Queue
  BY DEF Home, Queue, Held
<1> DEFINE a == Lists["pool"]
           b == Lists["moved"]
           c == Lists["incoming"]
           d == Lists["capsule"]
           f == Lists["defer"]
           linked == a \o b \o c \o d \o f
<1>5. /\ a \in Seq(Element) /\ b \in Seq(Element) /\ c \in Seq(Element) /\ d \in Seq(Element)
      /\ f \in Seq(Element)
  BY <1>1, <1>4, Lengths
<1>6. /\ IsFiniteSet(Range(a)) /\ Cardinality(Range(a)) = Len(a)
      /\ IsFiniteSet(Range(b)) /\ Cardinality(Range(b)) = Len(b)
      /\ IsFiniteSet(Range(c)) /\ Cardinality(Range(c)) = Len(c)
      /\ IsFiniteSet(Range(d)) /\ Cardinality(Range(d)) = Len(d)
      /\ IsFiniteSet(Range(f)) /\ Cardinality(Range(f)) = Len(f)
  BY <1>4, Counted
<1>7. IsFiniteSet(Held)
  BY <1>1, HandsType, ElementAssumption, FS_Subset
<1>8. \A g, h \in Home : g # h => Range(Lists[g]) \cap Range(Lists[h]) = {}
  BY <1>1 DEF Fits
<1>9. \A e \in Element : e \in Held <=> \A h \in Home : e \notin Range(Lists[h])
  BY <1>1 DEF Fits
<1>10. /\ Range(a) \cap Range(b) = {} /\ (Range(a) \cup Range(b)) \cap Range(c) = {}
       /\ (Range(a) \cup Range(b) \cup Range(c)) \cap Range(d) = {}
       /\ (Range(a) \cup Range(b) \cup Range(c) \cup Range(d)) \cap Range(f) = {}
  BY <1>4, <1>8
<1>11. /\ Held \subseteq Element /\ Range(a) \subseteq Element /\ Range(b) \subseteq Element
       /\ Range(c) \subseteq Element /\ Range(d) \subseteq Element /\ Range(f) \subseteq Element
  BY <1>1, <1>5, HandsType, RangeType
<1>12. Held \cap (Range(a) \cup Range(b) \cup Range(c) \cup Range(d) \cup Range(f)) = {}
  BY <1>4, <1>9, <1>11
<1>13. Held \cup (Range(a) \cup Range(b) \cup Range(c) \cup Range(d) \cup Range(f)) = Element
  BY <1>4, <1>9, <1>11
<1> HIDE DEF a, b, c, d, f
<1>14. /\ linked \in Seq(Element)
       /\ Range(linked) = Range(a) \cup Range(b) \cup Range(c) \cup Range(d) \cup Range(f)
       /\ Len(linked) = Len(a) + Len(b) + Len(c) + Len(d) + Len(f)
  <2>1. /\ a \o b \in Seq(Element) /\ Range(a \o b) = Range(a) \cup Range(b)
        /\ Len(a \o b) = Len(a) + Len(b)
    BY <1>5, RangeConcat
  <2>2. /\ a \o b \o c \in Seq(Element) /\ Range(a \o b \o c) = Range(a \o b) \cup Range(c)
        /\ Len(a \o b \o c) = Len(a \o b) + Len(c)
    BY <1>5, <2>1, RangeConcat
  <2>3. /\ a \o b \o c \o d \in Seq(Element)
        /\ Range(a \o b \o c \o d) = Range(a \o b \o c) \cup Range(d)
        /\ Len(a \o b \o c \o d) = Len(a \o b \o c) + Len(d)
    BY <1>5, <2>2, RangeConcat
  <2>4. /\ linked \in Seq(Element)
        /\ Range(linked) = Range(a \o b \o c \o d) \cup Range(f)
        /\ Len(linked) = Len(a \o b \o c \o d) + Len(f)
    BY <1>5, <2>3, RangeConcat
  <2> QED BY <2>1, <2>2, <2>3, <2>4
<1>15. Len(linked) + Cardinality(Held) = Cardinality(Element)
  <2>1. PICK A, B, C, D, F : A = Range(a) /\ B = Range(b) /\ C = Range(c) /\ D = Range(d) /\ F = Range(f)
    OBVIOUS
  <2>2. /\ IsFiniteSet(A \cup B)
        /\ Cardinality(A \cup B) = Cardinality(A) + Cardinality(B)
    <3>1. IsFiniteSet(A) /\ IsFiniteSet(B) /\ A \cap B = {}
      BY <1>6, <1>10, <2>1
    <3> QED BY <3>1, Disjoint
  <2>3. /\ IsFiniteSet(A \cup B \cup C)
        /\ Cardinality(A \cup B \cup C) = Cardinality(A \cup B) + Cardinality(C)
    <3>1. IsFiniteSet(C) /\ (A \cup B) \cap C = {}
      BY <1>6, <1>10, <2>1
    <3> QED BY <2>2, <3>1, Disjoint
  <2>4. /\ IsFiniteSet(A \cup B \cup C \cup D)
        /\ Cardinality(A \cup B \cup C \cup D) = Cardinality(A \cup B \cup C) + Cardinality(D)
    <3>1. IsFiniteSet(D) /\ (A \cup B \cup C) \cap D = {}
      BY <1>6, <1>10, <2>1
    <3> QED BY <2>3, <3>1, Disjoint
  <2>7. /\ IsFiniteSet(A \cup B \cup C \cup D \cup F)
        /\ Cardinality(A \cup B \cup C \cup D \cup F) = Cardinality(A \cup B \cup C \cup D) + Cardinality(F)
    <3>1. IsFiniteSet(F) /\ (A \cup B \cup C \cup D) \cap F = {}
      BY <1>6, <1>10, <2>1
    <3> QED BY <2>4, <3>1, Disjoint
  <2>8. Cardinality(Element) = Cardinality(Held) + Cardinality(A \cup B \cup C \cup D \cup F)
    <3>1. IsFiniteSet(Held) /\ Held \cap (A \cup B \cup C \cup D \cup F) = {}
      BY <1>7, <1>12, <2>1
    <3>2. Held \cup (A \cup B \cup C \cup D \cup F) = Element
      BY <1>13, <2>1
    <3> QED BY <2>7, <3>1, <3>2, Disjoint
  <2>9. Cardinality(A) = Len(a) /\ Cardinality(B) = Len(b) /\ Cardinality(C) = Len(c)
        /\ Cardinality(D) = Len(d) /\ Cardinality(F) = Len(f)
    BY <1>6, <2>1
  <2>5. Cardinality(Element) = Cardinality(Held) + (Len(a) + Len(b) + Len(c) + Len(d) + Len(f))
    BY <2>2, <2>3, <2>4, <2>7, <2>8, <2>9
  <2>6. /\ Cardinality(Held) \in Nat /\ Len(a) \in Nat /\ Len(b) \in Nat /\ Len(c) \in Nat
        /\ Len(d) \in Nat /\ Len(f) \in Nat
    BY <1>5, <1>7, FS_CardinalityType
  <2> QED BY <1>14, <2>5, <2>6
<1>16. {e \in Element : allocated[e]} = Element \ Range(a)
  BY <1>1 DEF Counts, a
<1>17. OneHome
  <2>1. Range(linked) \cup Held = Element
    BY <1>13, <1>14
  <2>2. linked = Chain(poolHead) \o Chain(moved.all) \o Chain(head["incoming"])
                   \o Chain(head["capsule"]) \o Chain(head["defer"])
    BY <1>2, <1>4 DEF a, b, c, d, f
  <2> HIDE DEF linked
  <2> QED BY <1>1, <1>2, <1>4, <1>15, <1>16, <2>1, <2>2 DEF OneHome, a
<1> QED BY <1>3, <1>17 DEF ListsSound

\* The message lists stay whole and share nothing, for any number of messages and threads: the
\* callbacks of remove relink the elements it walks over, and senders go on between the halves
\* of moveAll.
THEOREM Soundness == Spec => []ListsSound
BY Invariance, InvSound, PTL
-----------------------------------------------------------------------------
(* remove does not go back.                                                *)

\* What a step leaves of WalkedPast when remove does not go on.
LEMMA WalkStands ==
  ASSUME Inv, WalkedPast, Inv', pc' = pc, removal' = removal, Lists'["defer"] = Lists["defer"],
         \A e \in Range(Lists["defer"]) : body'[e] = body[e],
         \A e \in Element : allocated'[e] => body'[e] \in Message
  PROVE  WalkedPast'
<1>1. Lists["defer"] \in Seq(Element)
  BY Lengths DEF Inv, Home, Queue
<1>2. \A j \in 1 .. Len(Lists["defer"]) : Lists["defer"][j] \in Range(Lists["defer"])
  BY <1>1 DEF Range
<1>3. CASE pc = "removeNext"
  <2>1. PICK k \in 1 .. Len(Lists["defer"]) :
          /\ Lists["defer"][k] = removal.keeper
          /\ \A j \in 1 .. k : ~Matches(Lists["defer"][j])
    BY <1>3 DEF WalkedPast
  <2>2. \A j \in 1 .. k : j \in 1 .. Len(Lists["defer"])
    BY <1>1
  <2>3. \A j \in 1 .. k : body'[Lists["defer"][j]] = body[Lists["defer"][j]]
    BY <1>2, <2>2
  <2>4. \A j \in 1 .. k : ~(\/ removal'.index = -1
                            \/ /\ removal'.index = body'[Lists'["defer"][j]].index
                               /\ \/ removal'.kind = "recall"
                                  \/ removal'.id \in {-1, body'[Lists'["defer"][j]].id})
    BY <2>1, <2>3 DEF Matches
  <2>5. k \in 1 .. Len(Lists'["defer"]) /\ Lists'["defer"][k] = removal'.keeper
    BY <2>1
  <2> QED BY <2>4, <2>5 DEF WalkedPast, Matches
<1>4. CASE pc # "removeNext"
  BY <1>4 DEF WalkedPast
<1> QED BY <1>3, <1>4

\* The messages that are in use after an element was given out, or taken back.
LEMMA InUse ==
  ASSUME TypeOK, WalkedPast, NEW e \in Element,
         \/ \E m \in Message : allocated' = [allocated EXCEPT ![e] = TRUE] /\ body' = [body EXCEPT ![e] = m]
         \/ allocated' = [allocated EXCEPT ![e] = FALSE] /\ \E m : body' = [body EXCEPT ![e] = m]
         \/ UNCHANGED <<allocated, body>>
  PROVE  \A x \in Element : allocated'[x] => body'[x] \in Message
BY DEF TypeOK, WalkedPast

\* A step after which remove is not under way.
LEMMA WalkEnds ==
  ASSUME pc' \notin {"removeHead", "removeNext"}, removal' = NoRemoval,
         \A e \in Element : allocated'[e] => body'[e] \in Message
  PROVE  WalkedPast'
BY DEF WalkedPast

\* An element in hand, or on a list but the pool, is in use.
LEMMA UsedAre ==
  ASSUME Inv, WalkedPast
  PROVE  /\ \A e \in Held : e \in Element /\ allocated[e] /\ body[e] \in Message
         /\ \A h \in Home \ {"pool"} : \A e \in Range(Lists[h]) :
              e \in Element /\ allocated[e] /\ body[e] \in Message /\ e \notin Held
<1>1. /\ Fits(next, Starts, Lists, Held) /\ "pool" \in Home
      /\ \A e \in Element : allocated[e] <=> e \notin Range(Lists["pool"])
  BY DEF Inv, Counts, Home
<1>2. \A h \in Home : Range(Lists[h]) \subseteq Element
  BY <1>1, Lengths
<1> QED BY <1>1, <1>2 DEF Fits, WalkedPast

LEMMA WalkSenders ==
  ASSUME Inv, WalkedPast, NEW t \in Remote, Allocate(t) \/ Deliver(t)
  PROVE  WalkedPast'
<1>1. TypeOK /\ "defer" \in Home /\ "pool" \in Home
  BY DEF Inv, Home, Queue
<1>2. CASE Allocate(t)
  <2>1. /\ Inv' /\ Lists' = Point(Lists, "pool", Tail(Lists["pool"]))
        /\ poolHead \in Element /\ poolHead \in Range(Lists["pool"])
        /\ \E m \in Message : body' = [body EXCEPT ![poolHead] = m]
    BY <1>2, AllocateInv
  <2>2. pc' = pc /\ removal' = removal /\ allocated' = [allocated EXCEPT ![poolHead] = TRUE]
    BY <1>2 DEF Allocate, Get
  <2>3. Lists'["defer"] = Lists["defer"]
    BY <1>1, <2>1 DEF Point, Lists
  <2>4. \A e \in Range(Lists["defer"]) : e \in Element /\ e # poolHead
    <3>1. Range(Lists["defer"]) \cap Range(Lists["pool"]) = {}
      BY <1>1 DEF Inv, Fits
    <3>2. Range(Lists["defer"]) \subseteq Element
      BY <1>1, Lengths DEF Inv
    <3> QED BY <2>1, <3>1, <3>2
  <2>5. \A e \in Range(Lists["defer"]) : body'[e] = body[e]
    BY <1>1, <2>1, <2>4 DEF TypeOK
  <2>6. \A e \in Element : allocated'[e] => body'[e] \in Message
    BY <1>1, <2>1, <2>2, InUse
  <2> QED BY <2>1, <2>2, <2>3, <2>5, <2>6, WalkStands
<1>3. CASE Deliver(t)
  <2>1. PICK e \in hand[t] : Inv' /\ Lists' = Point(Lists, "incoming", Behind(Lists["incoming"], e))
    BY <1>3, DeliverInv
  <2>2. pc' = pc /\ removal' = removal /\ allocated' = allocated /\ body' = body
    BY <1>3 DEF Deliver, poolVars
  <2>3. Lists'["defer"] = Lists["defer"]
    BY <1>1, <2>1 DEF Point, Lists
  <2>4. \A x \in Element : allocated'[x] => body'[x] \in Message
    BY <2>2 DEF WalkedPast
  <2> QED BY <2>1, <2>2, <2>3, <2>4, WalkStands
<1> QED BY <1>2, <1>3

LEMMA WalkController ==
  ASSUME Inv, WalkedPast, MoveOut \/ MoveIn \/ Inject \/ Defer \/ Return
  PROVE  WalkedPast'
<1>1. TypeOK
  BY DEF Inv
<1>2. pc' \in {"loop", "moved", "user"} /\ removal' = NoRemoval
  <2>1. pc' \in {"loop", "moved", "user"} /\ pc \in {"loop", "moved", "user"} /\ removal' = removal
    BY DEF MoveOut, MoveIn, Inject, Defer, Return, Goto
  <2> QED BY <2>1 DEF WalkedPast
<1>3. CASE MoveOut \/ MoveIn \/ Inject
  <2>1. allocated' = allocated /\ body' = body
    BY <1>3 DEF MoveOut, MoveIn, Inject, poolVars
  <2> QED BY <1>2, <2>1, WalkEnds DEF WalkedPast
<1>4. CASE Defer
  <2>1. poolHead \in Element
    BY <1>4, DeferInv
  <2>2. PICK x \in hand[Controller] : Get(poolHead, body[x])
    BY <1>4 DEF Defer
  <2>3. x \in Held
    BY <2>2, HandsType, <1>1 DEF Held
  <2>4. body[x] \in Message
    BY <2>3, UsedAre
  <2>5. /\ allocated' = [allocated EXCEPT ![poolHead] = TRUE]
        /\ body' = [body EXCEPT ![poolHead] = body[x]]
    BY <2>2 DEF Get
  <2>6. \A e \in Element : allocated'[e] => body'[e] \in Message
    BY <1>1, <2>1, <2>4, <2>5, InUse
  <2> QED BY <1>2, <2>6, WalkEnds
<1>5. CASE Return
  <2>1. PICK e \in hand[Controller] : Put(e)
    BY <1>5 DEF Return
  <2>2. e \in Element
    BY <1>1, <2>1, HandsType DEF TypeOK
  <2>3. allocated' = [allocated EXCEPT ![e] = FALSE] /\ body' = [body EXCEPT ![e] = NoMessage]
    BY <2>1 DEF Put
  <2>4. \A x \in Element : allocated'[x] => body'[x] \in Message
    BY <1>1, <2>2, <2>3, InUse
  <2> QED BY <1>2, <2>4, WalkEnds
<1> QED BY <1>3, <1>4, <1>5

LEMMA WalkBegins ==
  ASSUME WalkedPast, NEW index, NEW id, NEW front, NEW one,
         Purge(index, id) \/ Recall(index, id, front, one)
  PROVE  WalkedPast'
<1>1. pc' = "removeHead" /\ allocated' = allocated /\ body' = body
  BY DEF Purge, Recall, Goto, poolVars
<1>2. removal'.kind \in {"purge", "recall"}
  BY DEF Purge, Recall, NoRemoval
<1> QED BY <1>1, <1>2 DEF WalkedPast

\* What Unlink does to what is in use.
LEMMA UnlinkUse ==
  ASSUME TypeOK, WalkedPast, NEW e \in Element, NEW h, NEW keeper, Unlink(e, h, keeper)
  PROVE  /\ \A x \in Element : allocated'[x] => body'[x] \in Message
         /\ \A x \in Element \ {e} : body'[x] = body[x]
         /\ removal.kind # "purge" => body' = body
<1>1. CASE removal.kind = "purge"
  <2>1. allocated' = [allocated EXCEPT ![e] = FALSE] /\ body' = [body EXCEPT ![e] = NoMessage]
    BY <1>1 DEF Unlink
  <2>2. \A x \in Element : allocated'[x] => body'[x] \in Message
    BY <2>1, InUse
  <2> QED BY <1>1, <2>1, <2>2 DEF TypeOK
<1>2. CASE removal.kind # "purge"
  <2>1. allocated' = allocated /\ body' = body
    BY <1>2 DEF Unlink, poolVars
  <2> QED BY <2>1 DEF WalkedPast
<1> QED BY <1>1, <1>2

LEMMA WalkHead ==
  ASSUME Inv, WalkedPast, RemoveHead \/ KeepHead \/ NoHead
  PROVE  WalkedPast'
<1>1. TypeOK /\ "defer" \in Home
  BY DEF Inv, Home, Queue
<1>2. removal.kind \in {"purge", "recall"}
  BY DEF WalkedPast, RemoveHead, KeepHead, NoHead, Goto
<1>3. CASE RemoveHead
  <2>1. head["defer"] \in Element
    <3>1. Starts["defer"] = head["defer"] /\ head["defer"] # NULL
      BY <1>3 DEF Starts, Home, Queue, RemoveHead
    <3> QED BY <1>1, <3>1, FirstIs DEF Inv
  <2>2. \A x \in Element : allocated'[x] => body'[x] \in Message
    BY <1>1, <1>3, <2>1, UnlinkUse DEF RemoveHead
  <2>3. \/ pc' = "user" /\ removal' = NoRemoval
        \/ pc' = "removeHead" /\ removal'.kind = removal.kind
    <3>1. removal \in Removal
      BY <1>1 DEF TypeOK
    <3> QED BY <1>3, <3>1 DEF RemoveHead, Goto, Removal
  <2> QED BY <1>2, <2>2, <2>3 DEF WalkedPast
<1>4. CASE KeepHead
  <2>1. Lists' = Lists /\ Inv'
    BY <1>4, KeepHeadInv
  <2>2. /\ pc' = "removeNext" /\ allocated' = allocated /\ body' = body
        /\ removal' = [removal EXCEPT !.keeper = head["defer"]] /\ ~Matches(head["defer"])
    BY <1>4 DEF KeepHead, Goto, poolVars
  <2>3. Lists["defer"] # <<>> /\ Lists["defer"][1] = head["defer"] /\ Lists["defer"] \in Seq(Element)
    <3>1. Starts["defer"] = head["defer"] /\ head["defer"] # NULL
      BY <1>4 DEF Starts, Home, Queue, KeepHead
    <3>2. Linked(next, head["defer"], Lists["defer"])
      BY <1>1, <3>1 DEF Inv, Fits
    <3> QED BY <3>1, <3>2 DEF Linked
  <2>4. 1 \in 1 .. Len(Lists["defer"])
    BY <2>3
  <2>5. /\ removal'.keeper = head["defer"] /\ removal'.kind = removal.kind
        /\ removal'.index = removal.index /\ removal'.id = removal.id
    <3>1. removal \in Removal
      BY <1>1 DEF TypeOK
    <3> QED BY <2>2, <3>1 DEF Removal
  <2>6. \A j \in 1 .. 1 : ~(\/ removal'.index = -1
                            \/ /\ removal'.index = body'[Lists'["defer"][j]].index
                               /\ \/ removal'.kind = "recall"
                                  \/ removal'.id \in {-1, body'[Lists'["defer"][j]].id})
    BY <2>1, <2>2, <2>3, <2>5 DEF Matches
  <2>7. \E k \in 1 .. Len(Lists'["defer"]) : /\ Lists'["defer"][k] = removal'.keeper
                                             /\ \A j \in 1 .. k : ~Matches(Lists["defer"][j])'
    BY <2>1, <2>3, <2>4, <2>5, <2>6 DEF Matches
  <2> QED BY <1>2, <2>2, <2>5, <2>7 DEF WalkedPast
<1>5. CASE NoHead
  <2>1. pc' = "user" /\ removal' = NoRemoval /\ allocated' = allocated /\ body' = body
    BY <1>5 DEF NoHead, Goto, poolVars
  <2> QED BY <2>1, WalkEnds DEF WalkedPast
<1> QED BY <1>3, <1>4, <1>5

\* Where remove is in its second loop.
LEMMA WalkAt ==
  ASSUME Inv, WalkedPast, pc = "removeNext"
  PROVE  /\ \E k \in 1 .. Len(Lists["defer"]) :
              /\ Lists["defer"][k] = removal.keeper
              /\ \A j \in 1 .. k : ~Matches(Lists["defer"][j])
         /\ Lists["defer"] \in Seq(Element) /\ Len(Lists["defer"]) \in Nat
         /\ \A i, j \in 1 .. Len(Lists["defer"]) : Lists["defer"][i] = Lists["defer"][j] => i = j
         /\ \A j \in 1 .. Len(Lists["defer"]) : Lists["defer"][j] \in Element
         /\ \A k \in 1 .. Len(Lists["defer"]) :
              Lists["defer"][k] = removal.keeper /\ next[removal.keeper] # NULL =>
                k + 1 \in 1 .. Len(Lists["defer"]) /\ next[removal.keeper] = Lists["defer"][k + 1]
         /\ removal \in Removal /\ removal.kind \in {"purge", "recall"}
<1>1. "defer" \in Home
  BY DEF Home, Queue
<1>2. Linked(next, Starts["defer"], Lists["defer"])
  BY <1>1 DEF Inv, Fits
<1>3. \A k \in 1 .. Len(Lists["defer"]) :
        Lists["defer"][k] = removal.keeper /\ next[removal.keeper] # NULL =>
          k + 1 \in 1 .. Len(Lists["defer"]) /\ next[removal.keeper] = Lists["defer"][k + 1]
  BY <1>2, LinkedNext
<1>4. /\ Lists["defer"] \in Seq(Element)
      /\ \A i, j \in 1 .. Len(Lists["defer"]) : Lists["defer"][i] = Lists["defer"][j] => i = j
  BY <1>2 DEF Linked
<1>5. Len(Lists["defer"]) \in Nat /\ \A j \in 1 .. Len(Lists["defer"]) : Lists["defer"][j] \in Element
  BY <1>4
<1> QED BY <1>3, <1>4, <1>5 DEF WalkedPast, Inv, TypeOK

LEMMA WalkNext ==
  ASSUME Inv, WalkedPast, RemoveNext \/ KeepNext \/ NoNext
  PROVE  WalkedPast'
<1>1. TypeOK /\ pc = "removeNext"
  BY DEF Inv, RemoveNext, KeepNext, NoNext
<1> DEFINE d == Lists["defer"]
           w == Lists'["defer"]
<1>2. PICK k \in 1 .. Len(d) : d[k] = removal.keeper /\ \A j \in 1 .. k : ~Matches(d[j])
  BY <1>1, WalkAt
<1>3. /\ d \in Seq(Element) /\ Len(d) \in Nat
      /\ \A i, j \in 1 .. Len(d) : d[i] = d[j] => i = j
      /\ \A j \in 1 .. Len(d) : d[j] \in Element
      /\ next[removal.keeper] # NULL => k + 1 \in 1 .. Len(d) /\ next[removal.keeper] = d[k + 1]
      /\ removal \in Removal /\ removal.kind \in {"purge", "recall"}
  BY <1>1, <1>2, WalkAt
<1> HIDE DEF d, w
<1>4. \A j \in 1 .. k : j \in 1 .. Len(d)
  BY <1>3
<1>5. CASE RemoveNext
  <2>1. PICK e : e = next[removal.keeper]
    OBVIOUS
  <2>2. /\ e # NULL /\ Unlink(e, head["defer"], removal.keeper) /\ pc' = "removeNext"
        /\ removal' = [removal EXCEPT !.count = @ + 1]
    BY <1>5, <2>1 DEF RemoveNext, Goto
  <2>3. e \in Element /\ e = d[k + 1] /\ k + 1 \in 1 .. Len(d)
    BY <1>3, <2>1, <2>2
  <2>4. w = Without(d, k)
    BY <1>2, <1>5, RemoveNextInv DEF d, w
  <2>5. Len(w) = Len(d) - 1 /\ \A j \in 1 .. k : w[j] = d[j]
    <3>1. /\ Len(RemoveAt(d, k + 1)) = Len(d) - 1
          /\ \A i \in 1 .. Len(d) - 1 : RemoveAt(d, k + 1)[i] = IF i < k + 1 THEN d[i] ELSE d[i + 1]
      BY <1>3, <2>3, RemoveAtIs
    <3>2. \A j \in 1 .. k : j \in 1 .. Len(d) - 1 /\ j < k + 1
      BY <1>3, <2>3
    <3> QED BY <2>4, <3>1, <3>2 DEF Without
  <2>6. /\ \A x \in Element : allocated'[x] => body'[x] \in Message
        /\ \A x \in Element \ {e} : body'[x] = body[x]
    BY <1>1, <2>2, <2>3, UnlinkUse
  <2>7. \A j \in 1 .. k : d[j] \in Element \ {e}
    <3>1. \A j \in 1 .. k : j # k + 1
      BY <1>2
    <3> QED BY <1>3, <1>4, <2>3, <3>1
  <2>8. \A j \in 1 .. k : body'[w[j]] = body[d[j]]
    BY <2>5, <2>6, <2>7
  <2>9. /\ removal'.keeper = removal.keeper /\ removal'.kind = removal.kind
        /\ removal'.index = removal.index /\ removal'.id = removal.id
    BY <1>3, <2>2 DEF Removal
  <2>10. \A j \in 1 .. k : ~(\/ removal'.index = -1
                             \/ /\ removal'.index = body'[w[j]].index
                                /\ \/ removal'.kind = "recall"
                                   \/ removal'.id \in {-1, body'[w[j]].id})
    BY <1>2, <2>8, <2>9 DEF Matches
  <2>11. k \in 1 .. Len(w) /\ w[k] = removal'.keeper
    BY <1>2, <1>3, <2>3, <2>5, <2>9
  <2>12. \E i \in 1 .. Len(w) : w[i] = removal'.keeper /\ \A j \in 1 .. i : ~Matches(Lists["defer"][j])'
    BY <2>10, <2>11 DEF Matches, w
  <2> QED BY <1>3, <2>2, <2>6, <2>9, <2>12 DEF WalkedPast, w
<1>6. CASE KeepNext
  <2>1. /\ pc' = "removeNext" /\ allocated' = allocated /\ body' = body
        /\ removal' = [removal EXCEPT !.keeper = next[removal.keeper]]
        /\ next[removal.keeper] # NULL /\ ~Matches(next[removal.keeper])
    BY <1>6 DEF KeepNext, Goto, poolVars
  <2>2. w = d
    BY <1>6, KeepNextInv DEF d, w
  <2>3. k + 1 \in 1 .. Len(d) /\ next[removal.keeper] = d[k + 1]
    BY <1>3, <2>1
  <2>4. /\ removal'.keeper = d[k + 1] /\ removal'.kind = removal.kind
        /\ removal'.index = removal.index /\ removal'.id = removal.id
    <3>1. PICK x : x = next[removal.keeper]
      OBVIOUS
    <3>2. removal' = [removal EXCEPT !.keeper = x]
      BY <2>1, <3>1
    <3> QED BY <1>3, <2>3, <3>1, <3>2 DEF Removal
  <2>5. \A j \in 1 .. k + 1 : ~Matches(d[j])
    <3>1. \A j \in 1 .. k + 1 : j \in 1 .. k \/ j = k + 1
      BY <1>2
    <3> QED BY <1>2, <2>1, <2>3, <3>1
  <2>6. \A j \in 1 .. k + 1 : ~(\/ removal'.index = -1
                                \/ /\ removal'.index = body'[w[j]].index
                                   /\ \/ removal'.kind = "recall"
                                      \/ removal'.id \in {-1, body'[w[j]].id})
    BY <2>1, <2>2, <2>4, <2>5 DEF Matches
  <2>7. \E i \in 1 .. Len(w) : w[i] = removal'.keeper /\ \A j \in 1 .. i : ~Matches(Lists["defer"][j])'
    BY <2>2, <2>3, <2>4, <2>6 DEF Matches, w
  <2> QED BY <1>3, <2>1, <2>4, <2>7 DEF WalkedPast, w
<1>7. CASE NoNext
  <2>1. pc' = "user" /\ removal' = NoRemoval /\ allocated' = allocated /\ body' = body
    BY <1>7 DEF NoNext, Goto, poolVars
  <2> QED BY <2>1, WalkEnds DEF WalkedPast
<1> QED BY <1>5, <1>6, <1>7

LEMMA WalkInv == Inv /\ WalkedPast /\ [Next]_vars => Inv' /\ WalkedPast'
<1> SUFFICES ASSUME Inv, WalkedPast, [Next]_vars PROVE Inv' /\ WalkedPast'
  OBVIOUS
<1>1. Inv'
  BY NextInv
<1>2. CASE Next
  <2>1. ASSUME NEW t \in Remote, Allocate(t) \/ Deliver(t) PROVE WalkedPast'
    BY <2>1, WalkSenders
  <2>2. CASE MoveOut \/ MoveIn \/ Inject \/ Defer \/ Return
    BY <1>1, <2>2, WalkController
  <2>3. ASSUME NEW index, NEW id, Purge(index, id) PROVE WalkedPast'
    BY <2>3, WalkBegins
  <2>4. ASSUME NEW index, NEW id, NEW front, NEW one, Recall(index, id, front, one)
        PROVE  WalkedPast'
    BY <2>4, WalkBegins
  <2>5. CASE RemoveStep
    BY <1>1, <2>5, WalkHead, WalkNext DEF RemoveStep
  <2> QED BY <1>1, <1>2, <2>1, <2>2, <2>3, <2>4, <2>5 DEF Next
<1>3. CASE UNCHANGED vars
  <2>1. UNCHANGED <<next, allocated, body, poolHead, head, hand, moved, pc, removal>>
    BY <1>3 DEF vars
  <2>2. Lists' = Lists
    BY <2>1, SameLists
  <2>3. \A e \in Element : allocated'[e] => body'[e] \in Message
    BY <2>1 DEF WalkedPast
  <2> QED BY <1>1, <2>1, <2>2, <2>3, WalkStands
<1> QED BY <1>1, <1>2, <1>3

LEMMA WalkAlways == Spec => [](Inv /\ WalkedPast)
<1>1. Init => WalkedPast
  BY DEF Init, WalkedPast
<1> QED BY <1>1, InitInv, WalkInv, PTL DEF Spec
-----------------------------------------------------------------------------
(* The messages of a list of elements.                                     *)

Content == Message \cup {NoMessage}

Said(b, s) == [i \in DOMAIN s |-> b[s[i]]]

LEMMA SaidIs ==
  ASSUME NEW b \in [Element -> Content], NEW s \in Seq(Element)
  PROVE  /\ Said(b, s) \in Seq(Content) /\ Len(Said(b, s)) = Len(s) /\ Len(s) \in Nat
         /\ \A i \in 1 .. Len(s) : Said(b, s)[i] = b[s[i]] /\ s[i] \in Element
         /\ Said(b, s) = <<>> <=> s = <<>>
BY DEF Said

\* What is not changed says the same.
LEMMA SaidSame ==
  ASSUME NEW s \in Seq(Element), NEW b, NEW c, \A e \in Range(s) : c[e] = b[e]
  PROVE  Said(c, s) = Said(b, s)
BY DEF Said, Range

LEMMA SaidBehind ==
  ASSUME NEW b \in [Element -> Content], NEW s \in Seq(Element), NEW e \in Element
  PROVE  Said(b, Behind(s, e)) = Append(Said(b, s), b[e])
<1> DEFINE t == Behind(s, e)
<1>1. /\ t \in Seq(Element) /\ Len(t) = Len(s) + 1 /\ t[Len(s) + 1] = e /\ Len(s) \in Nat
      /\ \A i \in 1 .. Len(s) : t[i] = s[i]
  BY DEF Behind
<1>2. /\ Said(b, s) \in Seq(Content) /\ Len(Said(b, s)) = Len(s)
      /\ \A i \in 1 .. Len(s) : Said(b, s)[i] = b[s[i]]
  BY SaidIs
<1> HIDE DEF t
<1>3. /\ Said(b, t) \in Seq(Content) /\ Len(Said(b, t)) = Len(t)
      /\ \A i \in 1 .. Len(t) : Said(b, t)[i] = b[t[i]]
  BY <1>1, SaidIs
<1>4. PICK u : u = Append(Said(b, s), b[e])
  OBVIOUS
<1>5. /\ u \in Seq(Content) /\ Len(u) = Len(s) + 1 /\ u[Len(s) + 1] = b[e]
      /\ \A i \in 1 .. Len(s) : u[i] = Said(b, s)[i]
  BY <1>2, <1>4
<1>6. \A i \in 1 .. Len(t) : i \in 1 .. Len(s) \/ i = Len(s) + 1
  BY <1>1
<1>7. \A i \in 1 .. Len(t) : Said(b, t)[i] = u[i]
  BY <1>1, <1>2, <1>3, <1>5, <1>6
<1>8. Said(b, t) = u
  BY <1>1, <1>3, <1>5, <1>7, SeqEqual
<1> QED BY <1>4, <1>8 DEF t

LEMMA SaidConcat ==
  ASSUME NEW b \in [Element -> Content], NEW s \in Seq(Element), NEW t \in Seq(Element)
  PROVE  Said(b, s \o t) = Said(b, s) \o Said(b, t)
<1>1. PICK u : u = s \o t
  OBVIOUS
<1>2. /\ u \in Seq(Element) /\ Len(u) = Len(s) + Len(t) /\ Len(s) \in Nat /\ Len(t) \in Nat
      /\ \A i \in 1 .. Len(s) + Len(t) : u[i] = IF i <= Len(s) THEN s[i] ELSE t[i - Len(s)]
  BY <1>1, ConcatProperties
<1>3. /\ Said(b, s) \in Seq(Content) /\ Len(Said(b, s)) = Len(s)
      /\ \A i \in 1 .. Len(s) : Said(b, s)[i] = b[s[i]]
      /\ Said(b, t) \in Seq(Content) /\ Len(Said(b, t)) = Len(t)
      /\ \A i \in 1 .. Len(t) : Said(b, t)[i] = b[t[i]]
      /\ Said(b, u) \in Seq(Content) /\ Len(Said(b, u)) = Len(u)
      /\ \A i \in 1 .. Len(u) : Said(b, u)[i] = b[u[i]]
  BY <1>2, SaidIs
<1>4. PICK x, y : x = Said(b, s) /\ y = Said(b, t)
  OBVIOUS
<1>5. /\ x \o y \in Seq(Content) /\ Len(x \o y) = Len(x) + Len(y)
      /\ \A i \in 1 .. Len(x) + Len(y) : (x \o y)[i] = IF i <= Len(x) THEN x[i] ELSE y[i - Len(x)]
  BY <1>3, <1>4, ConcatProperties
<1>6. \A i \in 1 .. Len(u) : IF i <= Len(s) THEN i \in 1 .. Len(s) ELSE i - Len(s) \in 1 .. Len(t)
  BY <1>2
<1>7. ASSUME NEW i \in 1 .. Len(u) PROVE Said(b, u)[i] = (x \o y)[i]
  <2>1. Len(x) = Len(s) /\ i \in 1 .. Len(s) + Len(t) /\ Said(b, u)[i] = b[u[i]]
    BY <1>2, <1>3, <1>4
  <2>2. CASE i <= Len(s)
    <3>1. u[i] = s[i] /\ (x \o y)[i] = x[i] /\ i \in 1 .. Len(s)
      BY <1>2, <1>3, <1>4, <1>5, <1>6, <2>1, <2>2
    <3> QED BY <1>3, <1>4, <2>1, <3>1
  <2>3. CASE ~(i <= Len(s))
    <3>1. u[i] = t[i - Len(s)] /\ (x \o y)[i] = y[i - Len(s)] /\ i - Len(s) \in 1 .. Len(t)
      BY <1>2, <1>3, <1>4, <1>5, <1>6, <2>1, <2>3
    <3> QED BY <1>3, <1>4, <2>1, <3>1
  <2> QED BY <2>2, <2>3
<1>8. Said(b, u) = x \o y
  <2>1. PICK v, z : v = Said(b, u) /\ z = x \o y
    OBVIOUS
  <2>2. v \in Seq(Content) /\ Len(v) = Len(u)
    BY <1>3, <2>1
  <2>3. z \in Seq(Content) /\ Len(z) = Len(u)
    <3>1. Len(x) = Len(s) /\ Len(y) = Len(t)
      BY <1>3, <1>4
    <3> QED BY <1>2, <1>5, <2>1, <3>1
  <2>4. \A i \in 1 .. Len(v) : v[i] = z[i]
    BY <1>7, <2>1, <2>2
  <2>5. v = z
    BY <2>2, <2>3, <2>4, SeqEqual
  <2> QED BY <2>1, <2>5
<1> QED BY <1>1, <1>4, <1>8

LEMMA SaidCons ==
  ASSUME NEW b \in [Element -> Content], NEW s \in Seq(Element), NEW e \in Element
  PROVE  Said(b, Cons(e, s)) = <<b[e]>> \o Said(b, s)
<1>1. <<e>> \in Seq(Element) /\ Said(b, <<e>>) = <<b[e]>>
  <2>1. DOMAIN <<e>> = {1} /\ <<e>>[1] = e
    OBVIOUS
  <2>2. Said(b, <<e>>) = [i \in {1} |-> b[e]]
    BY <2>1 DEF Said
  <2>3. <<b[e]>> = [i \in {1} |-> b[e]]
    OBVIOUS
  <2> QED BY <2>2, <2>3
<1>2. Said(b, <<e>> \o s) = Said(b, <<e>>) \o Said(b, s)
  BY <1>1, SaidConcat
<1> QED BY <1>1, <1>2 DEF Cons

LEMMA SaidTail ==
  ASSUME NEW b \in [Element -> Content], NEW s \in Seq(Element), s # <<>>
  PROVE  Said(b, Tail(s)) = Tail(Said(b, s)) /\ Head(Said(b, s)) = b[s[1]]
<1>1. /\ Said(b, s) \in Seq(Content) /\ Len(Said(b, s)) = Len(s) /\ Said(b, s) # <<>>
      /\ \A i \in 1 .. Len(s) : Said(b, s)[i] = b[s[i]]
      /\ Len(s) \in Nat \ {0} /\ 1 \in 1 .. Len(s)
  BY SaidIs
<1>2. PICK t : t = Tail(s)
  OBVIOUS
<1>3. /\ t \in Seq(Element) /\ Len(t) = Len(s) - 1
      /\ \A i \in 1 .. Len(t) : t[i] = s[i + 1]
  BY <1>1, <1>2
<1>4. PICK x : x = Said(b, s)
  OBVIOUS
<1>5. /\ Tail(x) \in Seq(Content) /\ Len(Tail(x)) = Len(s) - 1 /\ Head(x) = x[1]
      /\ \A i \in 1 .. Len(s) - 1 : Tail(x)[i] = x[i + 1]
  BY <1>1, <1>4
<1>6. /\ Said(b, t) \in Seq(Content) /\ Len(Said(b, t)) = Len(t)
      /\ \A i \in 1 .. Len(t) : Said(b, t)[i] = b[t[i]]
  BY <1>3, SaidIs
<1>7. \A i \in 1 .. Len(t) : i + 1 \in 1 .. Len(s)
  BY <1>1, <1>3
<1>8. \A i \in 1 .. Len(t) : Said(b, t)[i] = Tail(x)[i]
  BY <1>1, <1>3, <1>4, <1>5, <1>6, <1>7
<1>9. Said(b, t) = Tail(x)
  BY <1>3, <1>5, <1>6, <1>8, SeqEqual
<1> QED BY <1>1, <1>2, <1>4, <1>5, <1>9

LEMMA SaidWithout ==
  ASSUME NEW b \in [Element -> Content], NEW s \in Seq(Element), NEW i \in 1 .. Len(s)
  PROVE  Said(b, RemoveAt(s, i)) = RemoveAt(Said(b, s), i)
<1>1. /\ Said(b, s) \in Seq(Content) /\ Len(Said(b, s)) = Len(s)
      /\ \A j \in 1 .. Len(s) : Said(b, s)[j] = b[s[j]]
      /\ Len(s) \in Nat
  BY SaidIs
<1>2. PICK t, x : t = RemoveAt(s, i) /\ x = Said(b, s)
  OBVIOUS
<1>3. /\ t \in Seq(Element) /\ Len(t) = Len(s) - 1
      /\ \A j \in 1 .. Len(s) - 1 : t[j] = IF j < i THEN s[j] ELSE s[j + 1]
  BY <1>2, RemoveAtIs
<1>4. x \in Seq(Content) /\ i \in 1 .. Len(x)
  BY <1>1, <1>2
<1>5. /\ RemoveAt(x, i) \in Seq(Content) /\ Len(RemoveAt(x, i)) = Len(x) - 1
      /\ \A j \in 1 .. Len(x) - 1 : RemoveAt(x, i)[j] = IF j < i THEN x[j] ELSE x[j + 1]
  BY <1>4, RemoveAtIs
<1>6. /\ Said(b, t) \in Seq(Content) /\ Len(Said(b, t)) = Len(t)
      /\ \A j \in 1 .. Len(t) : Said(b, t)[j] = b[t[j]]
  BY <1>3, SaidIs
<1>7. \A j \in 1 .. Len(t) : j \in 1 .. Len(s) /\ j + 1 \in 1 .. Len(s)
  BY <1>1, <1>3
<1>8. \A j \in 1 .. Len(t) : Said(b, t)[j] = RemoveAt(x, i)[j]
  BY <1>1, <1>2, <1>3, <1>5, <1>6, <1>7
<1>9. Said(b, t) = RemoveAt(x, i)
  BY <1>1, <1>2, <1>3, <1>5, <1>6, <1>8, SeqEqual
<1> QED BY <1>2, <1>9
-----------------------------------------------------------------------------
(* Deferral's variables.                                                   *)

Arrived  == Bodies(moved.all) \o Bodies(head["incoming"])
Ready    == Bodies(head["capsule"])
AtHand   == SetToSeq({body[e] : e \in hand[Controller]})
Deferred == Bodies(head["defer"])

\* What list h says.
Shown(h) == Said(body, Lists[h])

LEMMA Views ==
  Inv => /\ Arrived = Shown("moved") \o Shown("incoming")
         /\ Ready = Shown("capsule") /\ Deferred = Shown("defer")
<1>1. /\ Lists["moved"] = Chain(moved.all) /\ Lists["incoming"] = Chain(head["incoming"])
      /\ Lists["capsule"] = Chain(head["capsule"]) /\ Lists["defer"] = Chain(head["defer"])
  BY DEF Lists, Starts, Home, Queue
<1> QED BY <1>1 DEF Arrived, Ready, Deferred, Shown, Said, Bodies

LEMMA ViewsNext ==
  Inv' => /\ Arrived' = Shown("moved")' \o Shown("incoming")'
          /\ Ready' = Shown("capsule")' /\ Deferred' = Shown("defer")'
<1>1. Inv' => (/\ Arrived = Shown("moved") \o Shown("incoming")
               /\ Ready = Shown("capsule") /\ Deferred = Shown("defer"))'
  BY Views, PTL
<1> QED BY <1>1

LEMMA ListTypes ==
  ASSUME Inv
  PROVE  /\ \A h \in Home : Lists[h] \in Seq(Element) /\ Range(Lists[h]) \subseteq Element
         /\ body \in [Element -> Content]
         /\ \A h \in Home : Shown(h) \in Seq(Content)
         /\ "moved" \in Home /\ "incoming" \in Home /\ "capsule" \in Home /\ "defer" \in Home
         /\ "pool" \in Home
<1>1. \A h \in Home : Lists[h] \in Seq(Element) /\ Range(Lists[h]) \subseteq Element
  BY Lengths DEF Inv
<1>2. body \in [Element -> Content]
  BY DEF Inv, TypeOK, Content
<1>3. \A h \in Home : Shown(h) \in Seq(Content)
  BY <1>1, <1>2, SaidIs DEF Shown
<1> QED BY <1>1, <1>2, <1>3 DEF Home, Queue

LEMMA ListTypesNext ==
  ASSUME Inv'
  PROVE  /\ \A h \in Home : Lists'[h] \in Seq(Element)
         /\ body' \in [Element -> Content]
<1>1. \A h \in Home : Lists'[h] \in Seq(Element)
  BY DEF Inv, Fits
<1> QED BY <1>1 DEF Inv, TypeOK, Content

\* A list that is as it was says what it did, if only another element changed.
LEMMA ShownSame ==
  ASSUME Inv, NEW h \in Home, Lists'[h] = Lists[h], NEW e, e \notin Range(Lists[h]),
         \A x \in Element \ {e} : body'[x] = body[x]
  PROVE  Shown(h)' = Shown(h)
<1>1. \A x \in Range(Lists[h]) : body'[x] = body[x]
  BY ListTypes
<1>2. PICK s \in Seq(Element) : s = Lists[h]
  BY ListTypes
<1>3. PICK b, c : b = body /\ c = body'
  OBVIOUS
<1>4. \A e1 \in Range(s) : c[e1] = b[e1]
  BY <1>1, <1>2, <1>3
<1>5. Said(c, s) = Said(b, s)
  BY <1>4, SaidSame
<1> QED BY <1>2, <1>3, <1>5 DEF Shown

LEMMA AtHandSame ==
  ASSUME Inv, hand'[Controller] = hand[Controller], NEW e, e \notin hand[Controller],
         \A x \in Element \ {e} : body'[x] = body[x]
  PROVE  AtHand' = AtHand
<1>1. hand[Controller] \subseteq Element
  BY HandsType DEF Inv, TypeOK
<1>2. {body'[x] : x \in hand'[Controller]} = {body[x] : x \in hand[Controller]}
  BY <1>1
<1> QED BY <1>2 DEF AtHand

LEMMA Single ==
  SetToSeq({}) = <<>> /\ \A x : SetToSeq({x}) = <<x>>
<1>1. SetToSeq({}) = <<>>
  <2>1. Cardinality({}) = 0
    BY FS_EmptySet
  <2>2. <<>> \in [1 .. 0 -> {}] /\ IsInjective(<<>>)
    BY DEF IsInjective
  <2>3. SetToSeq({}) \in [1 .. 0 -> {}]
    BY <2>1, <2>2 DEF SetToSeq
  <2> QED BY <2>3
<1>2. ASSUME NEW x PROVE SetToSeq({x}) = <<x>>
  <2>1. Cardinality({x}) = 1
    BY FS_Singleton
  <2>2. <<x>> \in [1 .. 1 -> {x}] /\ IsInjective(<<x>>)
    BY DEF IsInjective
  <2>3. SetToSeq({x}) \in [1 .. 1 -> {x}]
    BY <2>1, <2>2 DEF SetToSeq
  <2> QED BY <2>3
<1> QED BY <1>1, <1>2

LEMMA AtHandIs ==
  /\ hand[Controller] = {} => AtHand = <<>>
  /\ \A e : hand[Controller] = {e} => AtHand = <<body[e]>>
<1>1. hand[Controller] = {} => {body[e] : e \in hand[Controller]} = {}
  OBVIOUS
<1>2. \A e : hand[Controller] = {e} => {body[x] : x \in hand[Controller]} = {body[e]}
  OBVIOUS
<1> QED BY <1>1, <1>2, Single DEF AtHand

LEMMA AtHandNext ==
  /\ hand'[Controller] = {} => AtHand' = <<>>
  /\ \A e : hand'[Controller] = {e} => AtHand' = <<body'[e]>>
<1>1. hand'[Controller] = {} => {body'[e] : e \in hand'[Controller]} = {}
  OBVIOUS
<1>2. \A e : hand'[Controller] = {e} => {body'[x] : x \in hand'[Controller]} = {body'[e]}
  OBVIOUS
<1> QED BY <1>1, <1>2, Single DEF AtHand

\* No two lists share an element, and none that is in hand is on a list.
LEMMA Elsewhere ==
  ASSUME Inv, NEW h \in Home, NEW e
  PROVE  /\ e \in Range(Lists[h]) => e \notin Held /\ \A g \in Home : g # h => e \notin Range(Lists[g])
         /\ e \in Held => e \notin Range(Lists[h]) /\ e \in Element
         /\ hand[Controller] \subseteq Held
<1>1. Range(Lists[h]) \subseteq Element
  BY ListTypes
<1>2. hand[Controller] \subseteq Held
  BY HandsType DEF Inv, Held
<1> QED BY <1>1, <1>2 DEF Inv, Fits
-----------------------------------------------------------------------------
(* The steps are Deferral's.                                               *)

Stutters == UNCHANGED <<Arrived, Ready, AtHand, Deferred>>

LEMMA StuttersIf ==
  ASSUME Inv, Inv', \A h \in Home \ {"pool"} : Shown(h)' = Shown(h), AtHand' = AtHand
  PROVE  Stutters
<1>1. /\ Shown("moved")' = Shown("moved") /\ Shown("incoming")' = Shown("incoming")
      /\ Shown("capsule")' = Shown("capsule") /\ Shown("defer")' = Shown("defer")
  BY DEF Home, Queue
<1> QED BY <1>1, Views, ViewsNext DEF Stutters

LEMMA SimAllocate ==
  ASSUME Inv, NEW t \in Remote, Allocate(t)
  PROVE  Stutters
<1>1. /\ Inv' /\ Lists' = Point(Lists, "pool", Tail(Lists["pool"]))
      /\ poolHead \in Element /\ poolHead \in Range(Lists["pool"])
      /\ \E m \in Message : body' = [body EXCEPT ![poolHead] = m]
  BY AllocateInv
<1>2. t \in Thread /\ t # Controller /\ Controller \in Thread
  BY RemoteAssumption DEF Thread, Controller
<1>3. hand'[Controller] = hand[Controller]
  BY <1>2 DEF Allocate, Inv, TypeOK
<1>4. \A x \in Element \ {poolHead} : body'[x] = body[x]
  BY <1>1, ListTypes
<1>5. poolHead \notin Held /\ \A h \in Home \ {"pool"} : poolHead \notin Range(Lists[h])
  BY <1>1, Elsewhere, ListTypes
<1>6. \A h \in Home \ {"pool"} : Lists'[h] = Lists[h]
  BY <1>1 DEF Point, Lists
<1>7. \A h \in Home \ {"pool"} : Shown(h)' = Shown(h)
  BY <1>4, <1>5, <1>6, ShownSame
<1>8. AtHand' = AtHand
  BY <1>3, <1>4, <1>5, AtHandSame, Elsewhere, ListTypes
<1> QED BY <1>1, <1>7, <1>8, StuttersIf

\* The steps of remove that relink nothing, and those that begin it.
LEMMA SimStill ==
  ASSUME Inv, Inv', Lists' = Lists, UNCHANGED <<body, hand>>
  PROVE  Stutters
BY StuttersIf DEF Shown, AtHand

Delivered(m) == Arrived' = Append(Arrived, m) /\ UNCHANGED <<Ready, AtHand, Deferred>>

LEMMA SimDeliver ==
  ASSUME Inv, WalkedPast, NEW t \in Remote, Deliver(t)
  PROVE  \E m \in Message : Delivered(m)
<1>1. PICK e \in hand[t] : Inv' /\ Lists' = Point(Lists, "incoming", Behind(Lists["incoming"], e))
  BY DeliverInv
<1>2. t \in Thread /\ t # Controller /\ Controller \in Thread
  BY RemoteAssumption DEF Thread, Controller
<1>3. body' = body /\ hand'[Controller] = hand[Controller]
  BY <1>2 DEF Deliver, poolVars, Inv, TypeOK
<1>4. e \in Element /\ body[e] \in Message
  BY <1>1, <1>2, UsedAre DEF Held
<1>5. \A h \in Home \ {"incoming"} : Shown(h)' = Shown(h)
  BY <1>1, <1>3 DEF Shown, Point, Lists
<1>6. Shown("incoming")' = Append(Shown("incoming"), body[e])
  <2>1. Lists'["incoming"] = Behind(Lists["incoming"], e)
    BY <1>1, ListTypes DEF Point, Lists
  <2> QED BY <1>3, <1>4, <2>1, ListTypes, SaidBehind DEF Shown
<1>7. Arrived' = Append(Arrived, body[e])
  <2>1. PICK x, y \in Seq(Content) : x = Shown("moved") /\ y = Shown("incoming")
    BY ListTypes
  <2>2. body[e] \in Content
    BY <1>4 DEF Content
  <2>3. x \o Append(y, body[e]) = Append(x \o y, body[e])
    BY <2>1, <2>2
  <2>4. Shown("moved")' = x
    BY <1>5, <2>1, ListTypes
  <2> QED BY <1>1, <1>6, <2>1, <2>3, <2>4, Views, ViewsNext
<1>8. Ready' = Ready /\ Deferred' = Deferred
  BY <1>1, <1>5, Views, ViewsNext, ListTypes
<1>9. AtHand' = AtHand
  BY <1>3 DEF AtHand
<1> QED BY <1>4, <1>7, <1>8, <1>9 DEF Delivered

LEMMA SimMoveOut ==
  ASSUME Inv, MoveOut
  PROVE  Stutters
<1>1. /\ Inv' /\ Lists["moved"] = <<>>
      /\ Lists' = Point(Point(Lists, "incoming", <<>>), "moved", Lists["incoming"])
  BY MoveOutInv
<1>2. body' = body /\ hand' = hand
  BY DEF MoveOut, poolVars
<1>3. Lists'["moved"] = Lists["incoming"] /\ Lists'["incoming"] = <<>>
      /\ Lists'["capsule"] = Lists["capsule"] /\ Lists'["defer"] = Lists["defer"]
  BY <1>1, ListTypes DEF Point, Lists, Home, Queue
<1>4. /\ Shown("moved")' = Shown("incoming") /\ Shown("capsule")' = Shown("capsule")
      /\ Shown("defer")' = Shown("defer")
  BY <1>2, <1>3 DEF Shown
<1>5. Shown("moved") = <<>> /\ Shown("incoming")' = <<>>
  BY <1>1, <1>2, <1>3 DEF Shown, Said
<1>6. Arrived' = Arrived
  <2>1. PICK x \in Seq(Content) : x = Shown("incoming")
    BY ListTypes
  <2>2. x \o <<>> = x /\ <<>> \o x = x
    BY <2>1, ConcatEmptySeq
  <2> QED BY <1>1, <1>4, <1>5, <2>1, <2>2, Views, ViewsNext
<1>7. AtHand' = AtHand
  BY <1>2 DEF AtHand
<1> QED BY <1>1, <1>4, <1>6, <1>7, Views, ViewsNext DEF Stutters

Moves ==
  \E k \in 1 .. Len(Arrived) :
    /\ Ready' = Ready \o SubSeq(Arrived, 1, k)
    /\ Arrived' = SubSeq(Arrived, k + 1, Len(Arrived))
    /\ UNCHANGED <<AtHand, Deferred>>

\* A sequence is parted again.
LEMMA Parted ==
  ASSUME NEW x \in Seq(Content), NEW y \in Seq(Content), x # <<>>
  PROVE  /\ Len(x) \in 1 .. Len(x \o y) /\ SubSeq(x \o y, 1, Len(x)) = x
         /\ SubSeq(x \o y, Len(x) + 1, Len(x \o y)) = y
<1>1. PICK z : z = x \o y
  OBVIOUS
<1>2. /\ z \in Seq(Content) /\ Len(z) = Len(x) + Len(y) /\ Len(x) \in Nat \ {0} /\ Len(y) \in Nat
      /\ \A i \in 1 .. Len(z) : z[i] \in Content
      /\ \A i \in 1 .. Len(z) : z[i] = IF i <= Len(x) THEN x[i] ELSE y[i - Len(x)]
  BY <1>1, ConcatProperties
<1>3. SubSeq(z, 1, Len(x)) = x
  <2>1. PICK u : u = SubSeq(z, 1, Len(x))
    OBVIOUS
  <2>2. \A i \in 1 .. Len(x) : i \in 1 .. Len(z)
    BY <1>2
  <2>3. /\ u \in Seq(Content) /\ Len(u) = Len(x)
        /\ \A i \in 1 .. Len(x) : u[i] = z[i]
    BY <1>2, <2>1, <2>2
  <2>4. \A i \in 1 .. Len(x) : u[i] = x[i]
    BY <1>2, <2>2, <2>3
  <2> QED BY <2>1, <2>3, <2>4, SeqEqual
<1>4. SubSeq(z, Len(x) + 1, Len(z)) = y
  <2>1. PICK u : u = SubSeq(z, Len(x) + 1, Len(z))
    OBVIOUS
  <2>2. \A i \in 1 .. Len(y) : i + Len(x) \in 1 .. Len(z) /\ ~(i + Len(x) <= Len(x))
                               /\ (i + Len(x)) - Len(x) = i
    BY <1>2
  <2>3. /\ u \in Seq(Content) /\ Len(u) = Len(y)
        /\ \A i \in 1 .. Len(y) : u[i] = z[i + Len(x)]
    BY <1>2, <2>1, <2>2
  <2>4. \A i \in 1 .. Len(y) : u[i] = y[i]
    BY <1>2, <2>2, <2>3
  <2> QED BY <2>1, <2>3, <2>4, SeqEqual
<1> QED BY <1>1, <1>2, <1>3, <1>4

LEMMA SimMoveIn ==
  ASSUME Inv, MoveIn
  PROVE  Moves \/ Stutters
<1>1. /\ Inv'
      /\ Lists' = Point(Point(Lists, "moved", <<>>), "capsule", Lists["capsule"] \o Lists["moved"])
  BY MoveInInv
<1>2. body' = body /\ hand' = hand
  BY DEF MoveIn, poolVars
<1>3. Lists'["moved"] = <<>> /\ Lists'["incoming"] = Lists["incoming"]
      /\ Lists'["capsule"] = Lists["capsule"] \o Lists["moved"] /\ Lists'["defer"] = Lists["defer"]
  BY <1>1, ListTypes DEF Point, Lists, Home, Queue
<1>4. PICK x, y, c \in Seq(Content) :
        x = Shown("moved") /\ y = Shown("incoming") /\ c = Shown("capsule")
  BY ListTypes
<1>5. /\ Shown("moved")' = <<>> /\ Shown("incoming")' = y /\ Shown("defer")' = Shown("defer")
      /\ Shown("capsule")' = c \o x
  <2>1. Said(body, Lists["capsule"] \o Lists["moved"]) = c \o x
    <3>1. PICK s, t \in Seq(Element) : s = Lists["capsule"] /\ t = Lists["moved"]
      BY ListTypes
    <3>2. PICK b \in [Element -> Content] : b = body
      BY ListTypes
    <3>3. Said(b, s \o t) = Said(b, s) \o Said(b, t)
      BY SaidConcat
    <3> QED BY <1>4, <3>1, <3>2, <3>3 DEF Shown
  <2>2. Shown("capsule")' = c \o x
    BY <1>2, <1>3, <2>1 DEF Shown
  <2>3. Shown("moved")' = <<>>
    BY <1>3 DEF Shown, Said
  <2>4. Shown("incoming")' = Shown("incoming") /\ Shown("defer")' = Shown("defer")
    BY <1>2, <1>3 DEF Shown
  <2> QED BY <1>4, <2>2, <2>3, <2>4
<1>6. /\ Arrived = x \o y /\ Arrived' = y /\ Ready = c /\ Ready' = c \o x /\ Deferred' = Deferred
  <2>1. <<>> \o y = y
    BY <1>4, ConcatEmptySeq
  <2> QED BY <1>1, <1>4, <1>5, <2>1, Views, ViewsNext
<1>7. AtHand' = AtHand
  BY <1>2 DEF AtHand
<1>8. CASE x = <<>>
  BY <1>4, <1>6, <1>7, <1>8, ConcatEmptySeq DEF Stutters
<1>9. CASE x # <<>>
  BY <1>4, <1>6, <1>7, <1>9, Parted DEF Moves
<1> QED BY <1>8, <1>9

Injects ==
  /\ AtHand = <<>> /\ Ready # <<>> /\ AtHand' = <<Head(Ready)>> /\ Ready' = Tail(Ready)
  /\ UNCHANGED <<Arrived, Deferred>>

LEMMA SimInject ==
  ASSUME Inv, Inject
  PROVE  Injects
<1>1. /\ Inv' /\ Lists' = Point(Lists, "capsule", Tail(Lists["capsule"]))
      /\ Lists["capsule"] # <<>> /\ head["capsule"] = Lists["capsule"][1]
  BY InjectInv
<1>2. body' = body /\ hand' = [hand EXCEPT ![Controller] = {head["capsule"]}]
  BY DEF Inject, poolVars
<1>3. hand[Controller] = {} /\ hand'[Controller] = {head["capsule"]}
  BY <1>2, HandsType DEF Inv, Hands, Inject, Goto, TypeOK
<1>4. AtHand = <<>> /\ AtHand' = <<body[head["capsule"]]>>
  BY <1>2, <1>3, AtHandIs, AtHandNext
<1>5. Lists'["capsule"] = Tail(Lists["capsule"])
      /\ \A h \in Home \ {"capsule"} : Lists'[h] = Lists[h]
  BY <1>1, ListTypes DEF Point, Lists
<1>6. /\ Shown("capsule") # <<>> /\ Head(Shown("capsule")) = body[head["capsule"]]
      /\ Shown("capsule")' = Tail(Shown("capsule"))
  <2>1. PICK s \in Seq(Element) : s = Lists["capsule"]
    BY ListTypes
  <2>2. PICK b \in [Element -> Content] : b = body
    BY ListTypes
  <2>3. s # <<>> /\ s[1] = head["capsule"]
    BY <1>1, <2>1
  <2>4. Said(b, Tail(s)) = Tail(Said(b, s)) /\ Head(Said(b, s)) = b[s[1]]
    BY <2>3, SaidTail
  <2>5. Said(b, s) # <<>>
    BY <2>3, SaidIs
  <2>6. Shown("capsule") = Said(b, s)
    BY <2>1, <2>2 DEF Shown
  <2>7. Shown("capsule")' = Said(b, Tail(s))
    BY <1>2, <1>5, <2>1, <2>2 DEF Shown
  <2> QED BY <2>2, <2>3, <2>4, <2>5, <2>6, <2>7
<1>7. \A h \in Home \ {"capsule"} : Shown(h)' = Shown(h)
  BY <1>2, <1>5 DEF Shown
<1> QED BY <1>1, <1>4, <1>6, <1>7, Views, ViewsNext, ListTypes DEF Injects

Defers == Deferred' = Deferred \o AtHand /\ UNCHANGED <<Arrived, Ready, AtHand>>

LEMMA SimDefer ==
  ASSUME Inv, Defer
  PROVE  Defers
<1>1. /\ Inv' /\ poolHead \in Element /\ poolHead \in Range(Lists["pool"])
      /\ Lists' = Point(Point(Lists, "pool", Tail(Lists["pool"])),
                        "defer", Behind(Lists["defer"], poolHead))
  BY DeferInv
<1>2. PICK x \in hand[Controller] : Get(poolHead, body[x])
  BY DEF Defer
<1>3. /\ hand' = hand /\ body' = [body EXCEPT ![poolHead] = body[x]]
      /\ hand[Controller] = {x}
  <2>1. \E e \in Element : hand[Controller] = {e}
    BY <1>2, HandsType DEF Inv, Hands, TypeOK
  <2>2. hand[Controller] = {x}
    BY <1>2, <2>1
  <2> QED BY <1>2, <2>2 DEF Defer, Get
<1>4. x \in Element /\ \A h \in Home : x \notin Range(Lists[h])
  BY <1>2, Elsewhere, ListTypes
<1>5. body[x] \in Content /\ body'[poolHead] = body[x] /\ body' \in [Element -> Content]
      /\ \A e \in Element \ {poolHead} : body'[e] = body[e]
  BY <1>1, <1>3, <1>4, ListTypes
<1>6. poolHead \notin hand[Controller] /\ \A h \in Home \ {"pool"} : poolHead \notin Range(Lists[h])
  BY <1>1, Elsewhere, ListTypes
<1>7. Lists'["defer"] = Behind(Lists["defer"], poolHead)
      /\ \A h \in Home \ {"pool", "defer"} : Lists'[h] = Lists[h]
  BY <1>1, ListTypes DEF Point, Lists
<1>8. \A h \in Home \ {"pool", "defer"} : Shown(h)' = Shown(h)
  BY <1>5, <1>6, <1>7, ShownSame
<1>9. AtHand' = AtHand
  BY <1>3, <1>5, <1>6, AtHandSame
<1>10. AtHand = <<body[x]>>
  BY <1>3, AtHandIs
<1>11. Shown("defer")' = Append(Shown("defer"), body[x])
  <2>1. PICK s \in Seq(Element) : s = Lists["defer"]
    BY ListTypes
  <2>2. PICK b \in [Element -> Content] : b = body'
    BY <1>5
  <2>3. Said(b, Behind(s, poolHead)) = Append(Said(b, s), b[poolHead])
    BY <1>1, SaidBehind
  <2>4. \A e \in Range(s) : b[e] = body[e]
    <3>1. Range(s) \subseteq Element /\ poolHead \notin Range(s)
      BY <1>6, <2>1, ListTypes
    <3> QED BY <1>5, <2>2, <3>1
  <2>5. Said(b, s) = Said(body, s)
    BY <2>4, SaidSame
  <2> QED BY <1>5, <1>7, <2>1, <2>2, <2>3, <2>5 DEF Shown
<1>12. Deferred' = Deferred \o AtHand
  <2>1. PICK s \in Seq(Content) : s = Shown("defer")
    BY ListTypes
  <2>2. PICK m \in Content : m = body[x]
    BY <1>5
  <2>3. Append(s, m) = s \o <<m>>
    OBVIOUS
  <2> QED BY <1>1, <1>10, <1>11, <2>1, <2>2, <2>3, Views, ViewsNext
<1> QED BY <1>1, <1>8, <1>9, <1>12, Views, ViewsNext, ListTypes DEF Defers

Returns == AtHand' = <<>> /\ UNCHANGED <<Arrived, Ready, Deferred>>

LEMMA SimReturn ==
  ASSUME Inv, Return
  PROVE  Returns
<1>1. PICK e \in hand[Controller] : /\ Inv'
                                    /\ Lists' = Point(Lists, "pool", Cons(e, Lists["pool"]))
                                    /\ body' = [body EXCEPT ![e] = NoMessage]
  BY ReturnInv
<1>2. hand' = [hand EXCEPT ![Controller] = {}] /\ hand'[Controller] = {}
  BY HandsType DEF Return, Inv, TypeOK
<1>3. AtHand' = <<>>
  BY <1>2, AtHandNext
<1>4. e \in Element /\ \A h \in Home : e \notin Range(Lists[h])
  BY <1>1, Elsewhere, ListTypes
<1>5. \A x \in Element \ {e} : body'[x] = body[x]
  BY <1>1, ListTypes
<1>6. \A h \in Home \ {"pool"} : Lists'[h] = Lists[h]
  BY <1>1 DEF Point, Lists
<1>7. \A h \in Home \ {"pool"} : Shown(h)' = Shown(h)
  BY <1>4, <1>5, <1>6, ShownSame
<1> QED BY <1>1, <1>3, <1>7, Views, ViewsNext, ListTypes DEF Returns

\* A removal begins, or keeps the element it looks at.
LEMMA SimWalk ==
  ASSUME Inv,
         \/ \E index \in Index \cup {-1}, id \in Id \cup {-1} : Purge(index, id)
         \/ \E index \in Index \cup {-1}, id \in Id \cup {-1},
               front \in BOOLEAN, one \in BOOLEAN : Recall(index, id, front, one)
         \/ KeepHead \/ NoHead \/ KeepNext \/ NoNext
  PROVE  Stutters
<1>1. CASE \E index \in Index \cup {-1}, id \in Id \cup {-1} : Purge(index, id)
  <2>1. PICK index \in Index \cup {-1}, id \in Id \cup {-1} : Purge(index, id)
    BY <1>1
  <2>2. removal' \in Removal
    BY <2>1 DEF Purge, Removal, NoRemoval, Pointer
  <2>3. Inv' /\ Lists' = Lists
    BY <2>1, <2>2, RemovalInv DEF Purge
  <2> QED BY <2>1, <2>3, SimStill DEF Purge, poolVars
<1>2. CASE \E index \in Index \cup {-1}, id \in Id \cup {-1}, front \in BOOLEAN, one \in BOOLEAN :
             Recall(index, id, front, one)
  <2>1. PICK index \in Index \cup {-1}, id \in Id \cup {-1}, front \in BOOLEAN, one \in BOOLEAN :
          Recall(index, id, front, one)
    BY <1>2
  <2>2. removal' \in Removal
    BY <2>1 DEF Recall, Removal, NoRemoval, Pointer
  <2>3. Inv' /\ Lists' = Lists
    BY <2>1, <2>2, RemovalInv DEF Recall
  <2> QED BY <2>1, <2>3, SimStill DEF Recall, poolVars
<1>3. CASE KeepHead
  BY <1>3, KeepHeadInv, SimStill DEF KeepHead, poolVars
<1>4. CASE NoHead
  BY <1>4, NoHeadInv, SimStill DEF NoHead, poolVars
<1>5. CASE KeepNext
  BY <1>5, KeepNextInv, SimStill DEF KeepNext, poolVars
<1>6. CASE NoNext
  BY <1>6, NoNextInv, SimStill DEF NoNext, poolVars
<1> QED BY <1>1, <1>2, <1>3, <1>4, <1>5, <1>6
-----------------------------------------------------------------------------
(* An element is unlinked.                                                 *)

\* The deferred message at i is taken away, and goes back to the pool or is made ready.
Unlinks(i) ==
  /\ i \in DOMAIN Deferred
  /\ Deferred' = RemoveAt(Deferred, i)
  /\ Ready' = IF removal.kind = "purge" THEN Ready
              ELSE IF removal.front THEN <<Deferred[i]>> \o Ready
              ELSE Append(Ready, Deferred[i])
  /\ UNCHANGED <<Arrived, AtHand>>

LEMMA SimUnlink ==
  ASSUME Inv, WalkedPast, Inv', NEW i \in 1 .. Len(Lists["defer"]), NEW h, NEW keeper, NEW e,
         e = Lists["defer"][i], Unlink(e, h, keeper), hand' = hand,
         Lists'["defer"] = RemoveAt(Lists["defer"], i),
         Lists'["incoming"] = Lists["incoming"], Lists'["moved"] = Lists["moved"],
         Lists'["capsule"] = IF removal.kind = "purge" THEN Lists["capsule"]
                             ELSE IF removal.front THEN Cons(e, Lists["capsule"])
                             ELSE Behind(Lists["capsule"], e)
  PROVE  Unlinks(i)
<1>1. PICK d, c \in Seq(Element) : d = Lists["defer"] /\ c = Lists["capsule"]
  BY ListTypes
<1>2. e \in Element /\ e = d[i] /\ e \in Range(d) /\ i \in 1 .. Len(d)
  BY <1>1 DEF Range
<1>3. \A x \in Element \ {e} : body'[x] = body[x]
  BY <1>2, UnlinkUse DEF Inv
<1>4. removal.kind # "purge" => body' = body
  BY <1>2, UnlinkUse DEF Inv
<1>5. e \notin Held /\ e \notin hand[Controller]
      /\ \A g \in Home \ {"defer"} : e \notin Range(Lists[g])
  BY <1>1, <1>2, Elsewhere, ListTypes
<1>6. AtHand' = AtHand
  BY <1>3, <1>5, AtHandSame
<1>7. Shown("incoming")' = Shown("incoming") /\ Shown("moved")' = Shown("moved")
  BY <1>3, <1>5, ShownSame, ListTypes
<1>8. PICK b \in [Element -> Content], w \in [Element -> Content] : b = body /\ w = body'
  BY ListTypes, ListTypesNext
<1>9. PICK r : r = RemoveAt(d, i)
  OBVIOUS
<1>10. /\ r \in Seq(Element) /\ Len(r) = Len(d) - 1 /\ Len(d) \in Nat
       /\ \A j \in 1 .. Len(d) - 1 : r[j] = IF j < i THEN d[j] ELSE d[j + 1]
  <2>1. PICK z \in 1 .. Len(d) : z = i
    BY <1>2
  <2>2. /\ RemoveAt(d, z) \in Seq(Element) /\ Len(RemoveAt(d, z)) = Len(d) - 1
        /\ \A j \in 1 .. Len(d) - 1 : RemoveAt(d, z)[j] = IF j < z THEN d[j] ELSE d[j + 1]
    BY RemoveAtIs
  <2> QED BY <1>9, <2>1, <2>2
<1>11. Said(w, r) = Said(b, r)
  <2>1. \A j, k \in 1 .. Len(d) : d[j] = d[k] => j = k
    <3>1. "defer" \in Home
      BY ListTypes
    <3>2. Linked(next, Starts["defer"], d)
      BY <1>1, <3>1 DEF Inv, Fits
    <3> QED BY <3>2 DEF Linked
  <2>2. ASSUME NEW j \in 1 .. Len(r) PROVE r[j] \in Element /\ r[j] # e
    <3>1. CASE j < i
      <4>1. r[j] = d[j] /\ j \in 1 .. Len(d) /\ j # i
        BY <1>2, <1>10, <3>1
      <4> QED BY <1>2, <2>1, <4>1
    <3>2. CASE ~(j < i)
      <4>1. r[j] = d[j + 1] /\ j + 1 \in 1 .. Len(d) /\ j + 1 # i
        BY <1>2, <1>10, <3>2
      <4> QED BY <1>2, <2>1, <4>1
    <3> QED BY <3>1, <3>2
  <2>3. \A x \in Range(r) : x \in Element \ {e}
    BY <1>10, <2>2 DEF Range
  <2>4. \A x \in Range(r) : w[x] = b[x]
    BY <1>3, <1>8, <2>3
  <2> QED BY <1>10, <2>4, SaidSame
<1>12. Said(b, r) = RemoveAt(Said(b, d), i)
  BY <1>2, <1>9, SaidWithout
<1>13. Deferred' = RemoveAt(Deferred, i)
  BY <1>1, <1>8, <1>9, <1>11, <1>12, Views, ViewsNext DEF Shown
<1>14. Deferred = Said(b, d) /\ Ready = Said(b, c)
  BY <1>1, <1>8, Views DEF Shown
<1>15. i \in DOMAIN Deferred /\ Deferred[i] = b[e]
  <2>1. PICK x : x = Said(b, d)
    OBVIOUS
  <2>2. x \in Seq(Content) /\ Len(x) = Len(d) /\ x[i] = b[d[i]]
    BY <1>2, <2>1, SaidIs
  <2> QED BY <1>2, <1>14, <2>1, <2>2
<1>16. Ready' = IF removal.kind = "purge" THEN Ready
                ELSE IF removal.front THEN <<Deferred[i]>> \o Ready
                ELSE Append(Ready, Deferred[i])
  <2>1. CASE removal.kind = "purge"
    <3>1. Shown("capsule")' = Shown("capsule")
      BY <1>3, <1>5, <2>1, ShownSame, ListTypes
    <3> QED BY <2>1, <3>1, Views, ViewsNext
  <2>2. CASE removal.kind # "purge" /\ removal.front
    <3>1. Said(b, Cons(e, c)) = <<b[e]>> \o Said(b, c)
      BY <1>2, SaidCons
    <3>2. Ready' = Said(b, Cons(e, c))
      BY <1>1, <1>4, <1>8, <2>2, ViewsNext DEF Shown
    <3>3. Ready' = <<Deferred[i]>> \o Ready
      BY <1>14, <1>15, <3>1, <3>2
    <3> QED BY <2>2, <3>3
  <2>3. CASE removal.kind # "purge" /\ ~removal.front
    <3>1. Said(b, Behind(c, e)) = Append(Said(b, c), b[e])
      BY <1>2, SaidBehind
    <3>2. Ready' = Said(b, Behind(c, e))
      BY <1>1, <1>4, <1>8, <2>3, ViewsNext DEF Shown
    <3>3. Ready' = Append(Ready, Deferred[i])
      BY <1>14, <1>15, <3>1, <3>2
    <3> QED BY <2>3, <3>3
  <2> QED BY <2>1, <2>2, <2>3
<1>17. Arrived' = Arrived
  BY <1>7, Views, ViewsNext
<1> QED BY <1>6, <1>13, <1>15, <1>16, <1>17 DEF Unlinks

\* What remove has been asked for, as Deferral sees it.
Asked == [kind |-> removal.kind, index |-> removal.index, id |-> removal.id,
          front |-> removal.front, one |-> removal.one]

\* What Deferral means by the message m being asked for.
Wanted(m) == \/ removal.index = -1
             \/ /\ removal.index = m.index
                /\ removal.kind = "recall" \/ removal.id \in {-1, m.id}

\* The first that remove looks for is at i, and it ends with it if it is to take one and
\* that is the head.
Finds(i) ==
  /\ removal.kind \in {"purge", "recall"}
  /\ Wanted(Deferred[i]) /\ \A j \in 1 .. i - 1 : ~Wanted(Deferred[j])
  /\ IF removal.one /\ i = 1 THEN removal' = NoRemoval
                             ELSE removal' = [removal EXCEPT !.count = @ + 1]

\* What Deferred says of the elements of the list.
LEMMA DeferredAt ==
  ASSUME Inv, NEW i \in 1 .. Len(Lists["defer"])
  PROVE  Deferred[i] = body[Lists["defer"][i]]
<1>1. PICK d \in Seq(Element), b \in [Element -> Content] : d = Lists["defer"] /\ b = body
  BY ListTypes
<1>2. Said(b, d)[i] = b[d[i]]
  BY <1>1, SaidIs
<1> QED BY <1>1, <1>2, Views DEF Shown

\* It wants the messages that the comparisons of the port match.
LEMMA WantedIs ==
  ASSUME Inv, NEW i \in 1 .. Len(Lists["defer"])
  PROVE  Wanted(Deferred[i]) <=> Matches(Lists["defer"][i])
BY DeferredAt DEF Wanted, Matches

LEMMA SimRemoveHead ==
  ASSUME Inv, WalkedPast, RemoveHead
  PROVE  Unlinks(1) /\ Finds(1)
<1>1. /\ Inv' /\ Lists'["defer"] = Tail(Lists["defer"])
      /\ Lists["defer"] # <<>> /\ head["defer"] = Lists["defer"][1]
      /\ Lists'["incoming"] = Lists["incoming"] /\ Lists'["moved"] = Lists["moved"]
      /\ Lists'["capsule"] = IF removal.kind = "purge" THEN Lists["capsule"]
                             ELSE IF removal.front THEN Cons(head["defer"], Lists["capsule"])
                             ELSE Behind(Lists["capsule"], head["defer"])
  BY RemoveHeadInv
<1>2. PICK e : e = head["defer"]
  OBVIOUS
<1>3. /\ pc = "removeHead" /\ Unlink(e, next[e], NULL) /\ Matches(e) /\ hand' = hand
  BY <1>2 DEF RemoveHead, Goto
<1>4. 1 \in 1 .. Len(Lists["defer"])
  BY <1>1, ListTypes
<1>5. Lists'["defer"] = RemoveAt(Lists["defer"], 1)
  <2>1. PICK d \in Seq(Element) : d = Lists["defer"]
    BY ListTypes
  <2>2. PICK t : t = Tail(d)
    OBVIOUS
  <2>3. PICK r : r = RemoveAt(d, 1)
    OBVIOUS
  <2>4. d # <<>> /\ Len(d) \in Nat \ {0} /\ 1 \in 1 .. Len(d)
    BY <1>1, <2>1
  <2>5. /\ r \in Seq(Element) /\ Len(r) = Len(d) - 1
        /\ \A j \in 1 .. Len(d) - 1 : r[j] = IF j < 1 THEN d[j] ELSE d[j + 1]
    BY <2>3, <2>4, RemoveAtIs
  <2>6. t \in Seq(Element) /\ Len(t) = Len(d) - 1 /\ \A j \in 1 .. Len(d) - 1 : t[j] = d[j + 1]
    BY <2>2, <2>4
  <2>7. \A j \in 1 .. Len(t) : t[j] = r[j]
    BY <2>4, <2>5, <2>6
  <2>8. t = r
    BY <2>5, <2>6, <2>7, SeqEqual
  <2> QED BY <1>1, <2>1, <2>2, <2>3, <2>8
<1>6. Unlinks(1)
  BY <1>1, <1>2, <1>3, <1>4, <1>5, SimUnlink
<1>7. Finds(1)
  <2>1. removal.kind \in {"purge", "recall"}
    BY <1>3 DEF WalkedPast
  <2>2. Wanted(Deferred[1])
    BY <1>1, <1>2, <1>3, <1>4, WantedIs
  <2>3. 1 .. 1 - 1 = {}
    OBVIOUS
  <2>4. removal' = IF removal.one THEN NoRemoval ELSE [removal EXCEPT !.count = @ + 1]
    BY DEF RemoveHead
  <2> QED BY <2>1, <2>2, <2>3, <2>4 DEF Finds
<1> QED BY <1>6, <1>7

LEMMA SimRemoveNext ==
  ASSUME Inv, WalkedPast, RemoveNext
  PROVE  \E i : Unlinks(i) /\ Finds(i)
<1>1. PICK e : e = next[removal.keeper]
  OBVIOUS
<1>2. /\ pc = "removeNext" /\ e # NULL /\ Matches(e) /\ Unlink(e, head["defer"], removal.keeper)
      /\ hand' = hand
  BY <1>1 DEF RemoveNext
<1>3. PICK k \in 1 .. Len(Lists["defer"]) :
        /\ Lists["defer"][k] = removal.keeper
        /\ \A j \in 1 .. k : ~Matches(Lists["defer"][j])
  BY <1>2, WalkAt
<1>4. /\ Inv' /\ k + 1 \in 1 .. Len(Lists["defer"]) /\ e = Lists["defer"][k + 1]
      /\ Lists'["defer"] = RemoveAt(Lists["defer"], k + 1)
      /\ Lists'["incoming"] = Lists["incoming"] /\ Lists'["moved"] = Lists["moved"]
      /\ Lists'["capsule"] = IF removal.kind = "purge" THEN Lists["capsule"]
                             ELSE IF removal.front THEN Cons(e, Lists["capsule"])
                             ELSE Behind(Lists["capsule"], e)
  BY <1>1, <1>3, RemoveNextInv DEF Without
<1>5. Unlinks(k + 1)
  <2>1. PICK i : i = k + 1
    OBVIOUS
  <2> QED BY <1>2, <1>4, <2>1, SimUnlink
<1>6. Finds(k + 1)
  <2>1. removal.kind \in {"purge", "recall"}
    BY <1>2 DEF WalkedPast
  <2>2. Wanted(Deferred[k + 1])
    BY <1>2, <1>4, WantedIs
  <2>3. ASSUME NEW j \in 1 .. (k + 1) - 1 PROVE ~Wanted(Deferred[j])
    <3>1. j \in 1 .. k /\ j \in 1 .. Len(Lists["defer"])
      BY <1>3, <1>4
    <3> QED BY <1>3, <3>1, WantedIs
  <2>4. removal' = [removal EXCEPT !.count = @ + 1] /\ k + 1 # 1
    BY <1>3 DEF RemoveNext
  <2> QED BY <2>1, <2>2, <2>3, <2>4 DEF Finds
<1> QED BY <1>5, <1>6

\* Where remove ends by itself, nothing that it looks for is left.
LEMMA NoneLeft ==
  ASSUME Inv, WalkedPast, NoHead \/ NoNext
  PROVE  /\ removal.kind \in {"purge", "recall"} /\ removal' = NoRemoval
         /\ \A i \in DOMAIN Deferred : ~Wanted(Deferred[i])
<1>1. removal.kind \in {"purge", "recall"} /\ removal' = NoRemoval
  BY DEF WalkedPast, NoHead, NoNext, Goto
<1>2. PICK d \in Seq(Element) : d = Lists["defer"] /\ Linked(next, head["defer"], d)
  BY ListTypes DEF Inv, Fits, Starts, Home, Queue
<1>3. DOMAIN Deferred = 1 .. Len(d)
  BY <1>2, Views DEF Shown, Said
<1>4. \A i \in 1 .. Len(d) : ~Matches(d[i])
  <2>1. CASE NoHead
    <3>1. d = <<>>
      BY <1>2, <2>1, LinkedNull DEF NoHead
    <3> QED BY <3>1
  <2>2. CASE NoNext
    <3>1. pc = "removeNext" /\ next[removal.keeper] = NULL
      BY <2>2 DEF NoNext
    <3>2. PICK k \in 1 .. Len(d) : d[k] = removal.keeper /\ \A j \in 1 .. k : ~Matches(d[j])
      BY <1>2, <3>1, WalkAt
    <3>3. k = Len(d)
      <4>1. next[d[k]] = IF k = Len(d) THEN NULL ELSE d[k + 1]
        BY <1>2, <3>2 DEF Linked
      <4>2. k # Len(d) => d[k + 1] \in Element
        BY <1>2, <3>2
      <4> QED BY <3>1, <3>2, <4>1, <4>2, NullAssumption
    <3> QED BY <3>2, <3>3
  <2> QED BY <2>1, <2>2
<1>5. \A i \in 1 .. Len(d) : Wanted(Deferred[i]) <=> Matches(d[i])
  BY <1>2, WantedIs
<1> QED BY <1>1, <1>3, <1>4, <1>5
-----------------------------------------------------------------------------
(* The refinement.                                                         *)

LEMMA AbstractInit == Init => Abstract!Init
<1> SUFFICES ASSUME Init PROVE Abstract!Init
  OBVIOUS
<1>1. Inv
  BY InitInv
<1>2. "controller" \in Thread
  BY DEF Thread, Controller
<1>3. hand[Controller] = {} /\ moved.all = NULL /\ \A q \in Queue : head[q] = NULL
  BY <1>2 DEF Init, NoList, Controller
<1>4. AtHand = <<>>
  BY <1>3, AtHandIs
<1>5. \A h \in Home \ {"pool"} : Starts[h] = NULL
  BY <1>3 DEF Starts, Home
<1>6. \A h \in Home \ {"pool"} : Lists[h] = <<>>
  <2>1. \A h \in Home : Linked(next, Starts[h], Lists[h])
    BY <1>1 DEF Inv, Fits
  <2>2. ASSUME NEW h \in Home \ {"pool"} PROVE Lists[h] = <<>>
    <3>1. Linked(next, NULL, Lists[h])
      BY <1>5, <2>1
    <3> QED BY <3>1, LinkedNull
  <2> QED BY <2>2
<1>7. \A h \in Home \ {"pool"} : Shown(h) = <<>>
  BY <1>6 DEF Shown, Said
<1>8. Arrived = <<>> /\ Ready = <<>> /\ Deferred = <<>>
  BY <1>1, <1>7, Views, ListTypes
<1>9. Asked = Abstract!NoRequest
  BY DEF Init, NoRemoval, Asked, Abstract!NoRequest
<1> QED BY <1>4, <1>8, <1>9 DEF Abstract!Init, Arrived, Ready, AtHand, Deferred, Asked

LEMMA SameRemoveAt == \A s, j : Abstract!RemoveAt(s, j) = RemoveAt(s, j)
BY DEF RemoveAt, Abstract!RemoveAt

\* A request is under way exactly while remove runs.
LEMMA AskedIs ==
  ASSUME Inv, WalkedPast
  PROVE  /\ pc \in {"loop", "moved", "user"} => Asked = Abstract!NoRequest
         /\ removal.kind \in {"purge", "recall"} => Asked # Abstract!NoRequest
         /\ removal' = removal => Asked' = Asked
         /\ removal' = NoRemoval => Asked' = Abstract!NoRequest
         /\ \A n : removal' = [removal EXCEPT !.count = n] => Asked' = Asked
         /\ \A e : removal' = [removal EXCEPT !.keeper = e] => Asked' = Asked
<1>1. pc \in {"loop", "moved", "user"} => removal = NoRemoval
  BY DEF WalkedPast
<1>2. removal \in Removal
  BY DEF Inv, TypeOK
<1>3. Asked.kind = removal.kind /\ Abstract!NoRequest.kind = "none"
  BY DEF Asked, Abstract!NoRequest
<1>4. \A n : removal' = [removal EXCEPT !.count = n] => Asked' = Asked
  BY <1>2 DEF Asked, Removal
<1>5. \A e : removal' = [removal EXCEPT !.keeper = e] => Asked' = Asked
  BY <1>2 DEF Asked, Removal
<1>6. removal.kind \in {"purge", "recall"} => Asked # Abstract!NoRequest
  BY <1>3
<1>7. removal = NoRemoval => Asked = Abstract!NoRequest
  BY DEF Asked, Abstract!NoRequest, NoRemoval
<1>8. removal' = NoRemoval => Asked' = Abstract!NoRequest
  BY DEF Asked, Abstract!NoRequest, NoRemoval
<1>9. removal' = removal => Asked' = Asked
  BY DEF Asked
<1> QED BY <1>1, <1>4, <1>5, <1>6, <1>7, <1>8, <1>9

\* Deferral's view of its variables, in the words of this module.
LEMMA Seen ==
  /\ \A i : i \in DOMAIN Deferred => (Abstract!Meant(Deferred[i]) <=> Wanted(Deferred[i]))
  /\ \A x : Abstract!Ask(x) <=> /\ Asked = Abstract!NoRequest /\ AtHand # <<>> /\ Asked' = x
                                /\ Stutters
BY DEF Abstract!Meant, Abstract!Ask, Wanted, Stutters, Arrived, Ready, AtHand, Deferred, Asked

LEMMA AbstractUnlink ==
  ASSUME Inv, WalkedPast, NEW i, Unlinks(i), Finds(i)
  PROVE  Abstract!Take(i)
<1>1. i \in DOMAIN Deferred /\ Deferred' = Abstract!RemoveAt(Deferred, i)
  BY SameRemoveAt DEF Unlinks
<1>2. Asked # Abstract!NoRequest
  BY AskedIs DEF Finds
<1>3. Abstract!IsFirst(i)
  <2>1. DOMAIN Deferred = 1 .. Len(Lists["defer"]) /\ Len(Lists["defer"]) \in Nat
    BY Views, ListTypes DEF Shown, Said
  <2>2. \A j \in 1 .. i - 1 : j \in DOMAIN Deferred
    BY <1>1, <2>1
  <2>3. /\ Wanted(Deferred[i]) /\ \A j \in 1 .. i - 1 : ~Wanted(Deferred[j])
    BY DEF Finds
  <2>4. /\ Abstract!Meant(Deferred[i]) /\ \A j \in 1 .. i - 1 : ~Abstract!Meant(Deferred[j])
    BY <1>1, <2>2, <2>3, Seen
  <2> QED BY <1>1, <2>4 DEF Abstract!IsFirst, Deferred
<1>4. Asked' = IF Asked.one /\ i = 1 THEN Abstract!NoRequest ELSE Asked
  <2>1. Asked.one = removal.one
    BY DEF Asked
  <2>2. CASE removal.one /\ i = 1
    BY <2>1, <2>2, AskedIs DEF Finds
  <2>3. CASE ~(removal.one /\ i = 1)
    <3>1. removal' = [removal EXCEPT !.count = @ + 1]
      BY <2>3 DEF Finds
    <3>2. PICK n : n = removal.count + 1
      OBVIOUS
    <3>3. removal' = [removal EXCEPT !.count = n]
      BY <3>1, <3>2
    <3> QED BY <2>1, <2>3, <3>3, AskedIs
  <2> QED BY <2>2, <2>3
<1>5. Ready' = IF Asked.kind = "purge" THEN Ready
               ELSE IF Asked.front THEN <<Deferred[i]>> \o Ready
               ELSE Append(Ready, Deferred[i])
  BY DEF Unlinks, Asked
<1>6. UNCHANGED <<Arrived, AtHand>>
  BY DEF Unlinks
<1> QED BY <1>1, <1>2, <1>3, <1>4, <1>5, <1>6
        DEF Abstract!Take, Arrived, Ready, AtHand, Deferred, Asked

LEMMA AbstractAsk ==
  ASSUME Inv, WalkedPast, NEW index \in Index \cup {-1}, NEW id \in Id \cup {-1},
         NEW front \in BOOLEAN, NEW one \in BOOLEAN,
         Purge(index, id) \/ Recall(index, id, front, one)
  PROVE  \E q \in Abstract!Request : Abstract!Ask(q)
<1>1. Stutters
  BY SimWalk
<1>2. pc = "user" /\ Asked = Abstract!NoRequest
  BY AskedIs DEF Purge, Recall, Goto
<1>3. AtHand # <<>>
  <2>1. Controller \in Thread
    BY DEF Thread
  <2>2. PICK e \in Element : hand[Controller] = {e}
    BY <1>2, <2>1 DEF Inv, Hands
  <2> QED BY <2>2, AtHandIs
<1>4. Asked' \in Abstract!Request
  BY DEF Asked, Abstract!Request, Purge, Recall, NoRemoval
<1>5. Abstract!Ask(Asked')
  BY <1>1, <1>2, <1>3, Seen
<1> QED BY <1>4, <1>5

LEMMA AbstractFinish ==
  ASSUME Inv, WalkedPast, NoHead \/ NoNext
  PROVE  Abstract!Finish
<1>1. Stutters
  BY SimWalk
<1>2. /\ removal.kind \in {"purge", "recall"} /\ removal' = NoRemoval
      /\ \A i \in DOMAIN Deferred : ~Wanted(Deferred[i])
  BY NoneLeft
<1>3. Asked # Abstract!NoRequest /\ Asked' = Abstract!NoRequest
  BY <1>2, AskedIs
<1>4. \A i \in DOMAIN Deferred : ~Abstract!Meant(Deferred[i])
  BY <1>2, Seen
<1> QED BY <1>1, <1>3, <1>4 DEF Stutters, Abstract!Finish, Arrived, Ready, AtHand, Deferred, Asked

LEMMA AbstractNext ==
  Inv /\ WalkedPast /\ [Next]_vars => [Abstract!Next]_(Abstract!vars)
<1> SUFFICES ASSUME Inv, WalkedPast, [Next]_vars PROVE [Abstract!Next]_(Abstract!vars)
  OBVIOUS
<1>1. Stutters /\ Asked' = Asked => UNCHANGED Abstract!vars
  BY DEF Stutters, Abstract!vars, Arrived, Ready, AtHand, Deferred, Asked
<1>2. ASSUME NEW t \in Remote, Allocate(t) \/ Deliver(t) PROVE [Abstract!Next]_(Abstract!vars)
  <2>1. Asked' = Asked
    BY <1>2, AskedIs DEF Allocate, Deliver
  <2>2. CASE Allocate(t)
    BY <1>1, <2>1, <2>2, SimAllocate
  <2>3. CASE Deliver(t)
    <3>1. PICK m \in Message : Delivered(m)
      BY <2>3, SimDeliver
    <3>2. Abstract!Deliver(m)
      BY <2>1, <3>1 DEF Delivered, Abstract!Deliver, Arrived, Ready, AtHand, Deferred, Asked
    <3> QED BY <3>2 DEF Abstract!Next
  <2> QED BY <1>2, <2>2, <2>3
<1>3. MoveOut \/ MoveIn \/ Inject \/ Defer \/ Return =>
        Asked = Abstract!NoRequest /\ Asked' = Asked
  <2>1. MoveOut \/ MoveIn \/ Inject \/ Defer \/ Return =>
          pc \in {"loop", "moved", "user"} /\ removal' = removal
    BY DEF MoveOut, MoveIn, Inject, Defer, Return, Goto
  <2> QED BY <2>1, AskedIs
<1>4. CASE MoveOut
  BY <1>1, <1>3, <1>4, SimMoveOut
<1>5. CASE MoveIn
  <2>1. CASE Moves
    <3>1. Abstract!Move
      BY <1>3, <1>5, <2>1 DEF Moves, Abstract!Move, Arrived, Ready, AtHand, Deferred, Asked
    <3> QED BY <3>1 DEF Abstract!Next
  <2> QED BY <1>1, <1>3, <1>5, <2>1, SimMoveIn
<1>6. CASE Inject
  <2>1. Abstract!Inject
    BY <1>3, <1>6, SimInject DEF Injects, Abstract!Inject, Arrived, Ready, AtHand, Deferred, Asked
  <2> QED BY <2>1 DEF Abstract!Next
<1>7. CASE Defer
  <2>1. Abstract!Defer
    BY <1>3, <1>7, SimDefer DEF Defers, Abstract!Defer, Arrived, Ready, AtHand, Deferred, Asked
  <2> QED BY <2>1 DEF Abstract!Next
<1>8. CASE Return
  <2>1. Abstract!Return
    BY <1>3, <1>8, SimReturn DEF Returns, Abstract!Return, Arrived, Ready, AtHand, Deferred, Asked
  <2> QED BY <2>1 DEF Abstract!Next
<1>9. ASSUME NEW index \in Index \cup {-1}, NEW id \in Id \cup {-1},
             Purge(index, id) \/ \E front, one \in BOOLEAN : Recall(index, id, front, one)
      PROVE  [Abstract!Next]_(Abstract!vars)
  <2>1. PICK front \in BOOLEAN, one \in BOOLEAN : Purge(index, id) \/ Recall(index, id, front, one)
    BY <1>9
  <2>2. \E q \in Abstract!Request : Abstract!Ask(q)
    BY <2>1, AbstractAsk
  <2> QED BY <2>2 DEF Abstract!Next
<1>10. CASE KeepHead \/ KeepNext
  <2>1. PICK e : removal' = [removal EXCEPT !.keeper = e]
    BY <1>10 DEF KeepHead, KeepNext
  <2>2. Asked' = Asked
    BY <2>1, AskedIs
  <2> QED BY <1>1, <1>10, <2>2, SimWalk
<1>11. CASE NoHead \/ NoNext
  BY <1>11, AbstractFinish DEF Abstract!Next
<1>12. CASE RemoveHead \/ RemoveNext
  <2>1. PICK i : Unlinks(i) /\ Finds(i)
    BY <1>12, SimRemoveHead, SimRemoveNext
  <2>2. i \in DOMAIN Deferred /\ Abstract!Take(i)
    BY <2>1, AbstractUnlink DEF Unlinks
  <2> QED BY <2>2 DEF Abstract!Next, Deferred
<1>13. CASE UNCHANGED vars
  <2>1. UNCHANGED <<next, allocated, body, poolHead, head, hand, moved, pc, removal>>
    BY <1>13 DEF vars
  <2>2. Lists' = Lists
    BY <2>1, SameLists
  <2>3. Inv'
    BY NextInv
  <2>4. Asked' = Asked
    BY <2>1, AskedIs
  <2> QED BY <1>1, <2>1, <2>2, <2>3, <2>4, SimStill
<1> QED BY <1>2, <1>4, <1>5, <1>6, <1>7, <1>8, <1>9, <1>10, <1>11, <1>12, <1>13 DEF Next, RemoveStep

\* The queues of pointers do what sequences of messages would, for any number of messages,
\* threads and instances: what enqueue, moveAll and dequeue do keeps the order of delivery, a
\* deferred message keeps its place, and remove takes the messages that the comparisons of the
\* port mean, all of them and no other, in their order, and puts them where recall says, though
\* senders work between its steps.
THEOREM IsDeferral == Spec => ImplementsDeferral
BY AbstractInit, AbstractNext, WalkAlways, PTL DEF Spec, ImplementsDeferral, Abstract!Spec
=============================================================================
