------------------------ MODULE SignalElementProofs ------------------------
(***************************************************************************)
(* Theorems about SignalElement, for any finite set of signals, any        *)
(* threads and elements, and any number of initializations.                *)
(***************************************************************************)
EXTENDS SignalElement, FiniteSetTheorems, TLAPS

\* The signals that refer to an element can be counted.
LEMMA ReferringFinite ==
  ASSUME NEW e \in Element
  PROVE  /\ IsFiniteSet(Referring(e)) /\ Cardinality(Referring(e)) \in Nat
         /\ Cardinality(Referring(e)) <= Cardinality(Signal)
         /\ Cardinality(Signal) \in Nat
<1>1. Referring(e) \subseteq Signal
  BY DEF Referring
<1> QED BY <1>1, FiniteAssumption, FS_Subset, FS_CardinalityType

\* A signal that a thread may use is no operand of an operator= of any thread.
LEMMA UsableIsNoOperand ==
  ASSUME OperandsOwn, TypeOK, NEW t \in Thread, NEW s \in Signal, MayUse(t, s)
  PROVE  \A u \in Thread : \A a \in assigning[u] : a[1] # s /\ a[2] # s
  BY DEF OperandsOwn, MayUse

\* What refers to an element has been counted, and the element is not in the pool.
LEMMA ReferredIsCounted ==
  ASSUME Inv, NEW e \in Element, NEW s \in Referring(e)
  PROVE  refCount[e] > 0 /\ allocated[e] /\ \A i \in DOMAIN pool : pool[i] # e
<1>1. Cardinality(Referring(e)) # 0
  BY ReferringFinite, FS_EmptySet
<1>2. refCount[e] > 0
  BY <1>1, ReferringFinite DEF Inv, RefsCounted
<1> QED BY <1>2 DEF Inv, PoolFree

\* One more signal refers to e, and e only: the counts follow.
LEMMA CountsGrow ==
  ASSUME Inv, NEW e \in Element, NEW s \in Signal, s \notin Referring(e),
         refCount' = [refCount EXCEPT ![e] = @ + 1],
         \A f \in Element : Referring(f)' = IF f = e THEN Referring(f) \cup {s} ELSE Referring(f)
  PROVE  RefsCounted' /\ refCount' \in [Element -> 0 .. Cardinality(Signal)]
<1>1. refCount \in [Element -> 0 .. Cardinality(Signal)] /\ RefsCounted
  BY DEF Inv, TypeOK
<1>2. \A f \in Element : Cardinality(Referring(f)') = IF f = e THEN Cardinality(Referring(f)) + 1
                                                      ELSE Cardinality(Referring(f))
  <2>1. Cardinality(Referring(e) \cup {s}) = Cardinality(Referring(e)) + 1
    BY ReferringFinite, FS_AddElement
  <2> QED BY <2>1
<1>3. ASSUME NEW f \in Element PROVE refCount'[f] = Cardinality(Referring(f)')
  BY <1>1, <1>2 DEF RefsCounted
<1>4. ASSUME NEW f \in Element PROVE Cardinality(Referring(f)') \in 0 .. Cardinality(Signal)
  <2>1. Referring(f)' \subseteq Signal
    BY DEF Referring
  <2> QED BY <2>1, FiniteAssumption, FS_Subset, FS_CardinalityType
<1> QED BY <1>1, <1>3, <1>4 DEF RefsCounted

\* One signal less refers to e.
LEMMA CountsShrink ==
  ASSUME Inv, NEW e \in Element, NEW s \in Referring(e),
         refCount' = [refCount EXCEPT ![e] = IF @ > 0 THEN @ - 1 ELSE 0],
         \A f \in Element : Referring(f)' = IF f = e THEN Referring(f) \ {s} ELSE Referring(f)
  PROVE  RefsCounted' /\ refCount' \in [Element -> 0 .. Cardinality(Signal)]
<1>1. refCount \in [Element -> 0 .. Cardinality(Signal)] /\ RefsCounted
  BY DEF Inv, TypeOK
<1>2. \A f \in Element : Cardinality(Referring(f)') = IF f = e THEN Cardinality(Referring(f)) - 1
                                                      ELSE Cardinality(Referring(f))
  <2>1. Cardinality(Referring(e) \ {s}) = Cardinality(Referring(e)) - 1
    BY ReferringFinite, FS_RemoveElement
  <2> QED BY <2>1
<1>3. refCount[e] > 0
  BY ReferredIsCounted
<1>4. ASSUME NEW f \in Element PROVE refCount'[f] = Cardinality(Referring(f)')
  BY <1>1, <1>2, <1>3 DEF RefsCounted
<1>5. ASSUME NEW f \in Element PROVE Cardinality(Referring(f)') \in 0 .. Cardinality(Signal)
  <2>1. Referring(f)' \subseteq Signal
    BY DEF Referring
  <2> QED BY <2>1, FiniteAssumption, FS_Subset, FS_CardinalityType
<1> QED BY <1>1, <1>4, <1>5 DEF RefsCounted

\* The pool that the runtime starts with holds every element once, and no signal refers to one.
LEMMA InitInv == Init => Inv
<1> SUFFICES ASSUME Init PROVE Inv
  OBVIOUS
<1>1. \A e \in Element : Referring(e) = {}
  BY NullAssumption DEF Init, Referring
<1>2. RefsCounted
  BY <1>1, FS_EmptySet DEF RefsCounted, Init
<1>3. pool \in Seq(Element) /\ \A i, j \in DOMAIN pool : i # j => pool[i] # pool[j]
  <2> DEFINE n == Cardinality(Element)
  <2>1. pool \in [1 .. n -> Element] /\ \A i, j \in 1 .. n : i # j => pool[i] # pool[j]
    BY DEF Init, SetToSeqs
  <2>2. n \in Nat
    BY FiniteAssumption, FS_CardinalityType
  <2> HIDE DEF n
  <2> QED BY <2>1, <2>2
<1>4. TypeOK
  <2>1. 0 \in 0 .. Cardinality(Signal) /\ 0 \in 0 .. MaxInit
    BY FiniteAssumption, FS_CardinalityType, BoundAssumption
  <2>2. /\ refCount \in [Element -> 0 .. Cardinality(Signal)] /\ inits \in 0 .. MaxInit
        /\ content \in [Element -> 0 .. MaxInit] /\ meant \in [Signal -> 0 .. MaxInit]
    BY <2>1 DEF Init
  <2> QED BY <1>3, <2>2 DEF Init, TypeOK
<1>5. PoolFree /\ OperandsOwn /\ MeantContent /\ NoLeak /\ OwnIsNonDefault
  BY <1>1, <1>3 DEF Init, PoolFree, OperandsOwn, MeantContent, NoLeak, OwnIsNonDefault
<1> QED BY <1>2, <1>4, <1>5 DEF Inv

-----------------------------------------------------------------------------
\* decrementRefCount, for a signal that refers to the element and is about to stop, leaves
\* counts, pool and buffers sound.
LEMMA DecrementSound ==
  ASSUME Inv, NEW s \in Signal, Decrement(element[s]),
         element[s] \in Element => s \in Referring(element[s]),
         \A f \in Element : Referring(f)' = Referring(f) \ {s}
  PROVE  /\ RefsCounted' /\ refCount' \in [Element -> 0 .. Cardinality(Signal)]
         /\ PoolFree' /\ NoLeak' /\ OwnIsNonDefault'
         /\ pool' \in Seq(Element) /\ allocated' \in [Element -> BOOLEAN]
         /\ payload' \in [Element -> {"default", "own"}] /\ nonDefault' \in [Element -> BOOLEAN]
         /\ live' \in [Element -> SUBSET {"default", "own"}] /\ fatal' \in BOOLEAN
<1> USE DEF Inv
<1>1. CASE element[s] = NULL
  <2>1. \A f \in Element : Referring(f)' = Referring(f)
    BY <1>1, NullAssumption DEF Referring
  <2>2. UNCHANGED <<elementVars, fatal>>
    BY <1>1 DEF Decrement
  <2> QED
    BY <2>1, <2>2 DEF elementVars, RefsCounted, PoolFree, NoLeak, OwnIsNonDefault, TypeOK
<1>2. CASE element[s] \in Element
  <2> DEFINE e == element[s]
  <2>1. s \in Referring(e) /\ e \in Element /\ e # NULL
    BY <1>2, NullAssumption
  <2>2. refCount' = [refCount EXCEPT ![e] = IF @ > 0 THEN @ - 1 ELSE 0]
    BY <2>1 DEF Decrement
  <2>3. \A f \in Element : Referring(f)' = IF f = e THEN Referring(f) \ {s} ELSE Referring(f)
    BY <2>1 DEF Referring
  <2>4. RefsCounted' /\ refCount' \in [Element -> 0 .. Cardinality(Signal)]
    <3> HIDE DEF e, Inv
    <3> QED BY <2>1, <2>2, <2>3, CountsShrink
  <2>5. refCount[e] > 0 /\ allocated[e] /\ \A i \in DOMAIN pool : pool[i] # e
    <3> HIDE DEF e, Inv
    <3> QED BY <2>1, ReferredIsCounted
  <2>6. refCount \in [Element -> Nat]
    BY FiniteAssumption, FS_CardinalityType DEF TypeOK
  <2> HIDE DEF e
  <2>7. CASE refCount[e] = 1
    <3>1. Dealloc(e)
      <4>1. refCount[e] # 0
        BY <2>7
      <4> QED BY <2>1, <2>7, <4>1 DEF Decrement, e
    <3>2. /\ allocated' = [allocated EXCEPT ![e] = FALSE] /\ pool' = <<e>> \o pool
          /\ live' = [live EXCEPT ![e] = @ \ {b \in {payload[e]} : nonDefault[e]}]
          /\ payload' = [payload EXCEPT ![e] = IF nonDefault[e] THEN "default" ELSE @]
          /\ nonDefault' = nonDefault /\ fatal' \in BOOLEAN
      BY <3>1 DEF Dealloc
    <3>3. pool' \in Seq(Element) /\ Len(pool') = Len(pool) + 1 /\ Len(pool) \in Nat
          /\ \A i \in DOMAIN pool' : pool'[i] = IF i = 1 THEN e ELSE pool[i - 1]
      BY <2>1, <3>2 DEF TypeOK
    <3>4. PoolFree'
      <4>1. \A i \in DOMAIN pool' : i = 1 \/ i - 1 \in DOMAIN pool
        BY <3>3 DEF TypeOK
      <4>2. \A i, j \in DOMAIN pool' : i # j => pool'[i] # pool'[j]
        <5> TAKE i, j \in DOMAIN pool'
        <5>1. pool \in Seq(Element) /\ DOMAIN pool' = 1 .. Len(pool')
          BY <3>3 DEF TypeOK
        <5>2. \A k, m \in DOMAIN pool : k # m => pool[k] # pool[m]
          BY DEF PoolFree
        <5> QED BY <2>5, <3>3, <4>1, <5>1, <5>2
      <4>3. \A i \in DOMAIN pool' : ~allocated'[pool'[i]]
        <5> TAKE i \in DOMAIN pool'
        <5>1. CASE i = 1
          BY <2>1, <3>2, <3>3, <5>1 DEF TypeOK
        <5>2. CASE i # 1
          <6>1. i - 1 \in DOMAIN pool /\ pool'[i] = pool[i - 1] /\ pool[i - 1] \in Element
            BY <3>3, <4>1, <5>2 DEF TypeOK
          <6>2. ~allocated[pool[i - 1]] /\ pool[i - 1] # e
            BY <2>5, <6>1 DEF PoolFree
          <6> QED BY <3>2, <6>1, <6>2 DEF TypeOK
        <5> QED BY <5>1, <5>2
      <4>4. \A f \in Element : allocated'[f] <=> refCount'[f] > 0
        BY <2>1, <2>2, <2>6, <2>7, <3>2 DEF PoolFree, TypeOK
      <4> QED BY <4>2, <4>3, <4>4 DEF PoolFree
    <3>5. NoLeak' /\ OwnIsNonDefault'
      BY <2>1, <3>2 DEF NoLeak, OwnIsNonDefault, TypeOK
    <3>6. /\ allocated' \in [Element -> BOOLEAN]
          /\ payload' \in [Element -> {"default", "own"}] /\ nonDefault' \in [Element -> BOOLEAN]
          /\ live' \in [Element -> SUBSET {"default", "own"}]
      BY <2>1, <3>2 DEF TypeOK
    <3> QED BY <2>4, <3>2, <3>3, <3>4, <3>5, <3>6
  <2>8. CASE refCount[e] # 1
    <3>1. UNCHANGED <<pool, allocated, payload, nonDefault, live, fatal>>
      BY <2>1, <2>5, <2>6, <2>8 DEF Decrement, e
    <3>2. \A f \in Element : refCount'[f] > 0 <=> refCount[f] > 0
      BY <2>1, <2>2, <2>5, <2>6, <2>8
    <3> QED BY <2>4, <3>1, <3>2 DEF PoolFree, NoLeak, OwnIsNonDefault, TypeOK
  <2> QED BY <2>7, <2>8
<1> QED BY <1>1, <1>2 DEF TypeOK

-----------------------------------------------------------------------------
\* initialize takes an element that nothing refers to, because its count is exact.
LEMMA InitializeInv ==
  ASSUME Inv, NEW t \in Thread, NEW s \in Signal, NEW size \in Size, Initialize(t, s, size)
  PROVE  Inv'
<1> DEFINE e == Head(pool)
<1>1. /\ pool \in Seq(Element) /\ pool # <<>> /\ e \in Element /\ e = pool[1] /\ 1 \in DOMAIN pool
      /\ MayUse(t, s) /\ element[s] = NULL /\ inits < MaxInit
  BY DEF Inv, TypeOK, Initialize
<1>2. IsFree(e)
  BY <1>1 DEF Inv, PoolFree, IsFree, TypeOK
<1>3. /\ GetElement(e, size) /\ pool' = Tail(pool) /\ UNCHANGED <<fatal, owner, assigning>>
      /\ element' = [element EXCEPT ![s] = e]
      /\ content' = [content EXCEPT ![e] = inits + 1] /\ meant' = [meant EXCEPT ![s] = inits + 1]
      /\ inits' = inits + 1
  BY <1>2 DEF Initialize
<1> HIDE DEF e
<1>4. \A u \in Thread : \A a \in assigning[u] : a[1] # s /\ a[2] # s
  BY <1>1, UsableIsNoOperand DEF Inv
<1>5. s \notin Referring(e) /\ Referring(e) = {}
  <2>1. Cardinality(Referring(e)) = 0
    BY <1>1, <1>2 DEF IsFree, Inv, RefsCounted
  <2> QED BY <1>1, <2>1, ReferringFinite, FS_EmptySet
<1>6. \A f \in Element : Referring(f)' = IF f = e THEN Referring(f) \cup {s} ELSE Referring(f)
  BY <1>1, <1>3, <1>4, NullAssumption DEF Referring, Inv, TypeOK
<1>7. RefsCounted' /\ refCount' \in [Element -> 0 .. Cardinality(Signal)]
  BY <1>1, <1>3, <1>5, <1>6, CountsGrow DEF GetElement
<1>8. /\ allocated' = [allocated EXCEPT ![e] = TRUE]
       /\ \/ UNCHANGED <<payload, nonDefault, live>>
          \/ /\ payload' = [payload EXCEPT ![e] = "own"]
             /\ nonDefault' = [nonDefault EXCEPT ![e] = TRUE]
             /\ live' = [live EXCEPT ![e] = @ \cup {"own"}]
  BY <1>3 DEF GetElement
<1>9. TypeOK'
  <2>1. /\ inits' \in 0 .. MaxInit /\ content' \in [Element -> 0 .. MaxInit]
        /\ meant' \in [Signal -> 0 .. MaxInit]
    BY <1>1, <1>3, BoundAssumption DEF Inv, TypeOK
  <2>2. /\ element' \in [Signal -> Element \cup {NULL}] /\ owner' \in [Signal -> Thread]
        /\ assigning' \in [Thread -> SUBSET (Signal \X Signal)] /\ fatal' \in BOOLEAN
    BY <1>1, <1>3 DEF Inv, TypeOK
  <2>3. pool' \in Seq(Element)
    BY <1>1, <1>3
  <2>4. /\ allocated' \in [Element -> BOOLEAN] /\ nonDefault' \in [Element -> BOOLEAN]
        /\ payload' \in [Element -> {"default", "own"}]
        /\ live' \in [Element -> SUBSET {"default", "own"}]
    <3>1. allocated' \in [Element -> BOOLEAN]
      BY <1>8 DEF Inv, TypeOK
    <3>2. CASE UNCHANGED <<payload, nonDefault, live>>
      BY <3>1, <3>2 DEF Inv, TypeOK
    <3>3. CASE /\ payload' = [payload EXCEPT ![e] = "own"]
               /\ nonDefault' = [nonDefault EXCEPT ![e] = TRUE]
               /\ live' = [live EXCEPT ![e] = @ \cup {"own"}]
      <4>1. payload' \in [Element -> {"default", "own"}] /\ nonDefault' \in [Element -> BOOLEAN]
        BY <3>3 DEF Inv, TypeOK
      <4>2. live' \in [Element -> SUBSET {"default", "own"}]
        BY <1>1, <3>3 DEF Inv, TypeOK
      <4> QED BY <3>1, <4>1, <4>2
    <3> QED BY <1>8, <3>2, <3>3
  <2> QED BY <1>7, <2>1, <2>2, <2>3, <2>4 DEF TypeOK
<1>10. OperandsOwn'
  BY <1>3 DEF OperandsOwn, Inv
<1>11. PoolFree'
  <2>1. /\ Len(pool) \in Nat /\ Len(pool') = Len(pool) - 1 /\ DOMAIN pool = 1 .. Len(pool)
        /\ DOMAIN pool' = 1 .. Len(pool') /\ \A i \in DOMAIN pool' : pool'[i] = pool[i + 1]
    BY <1>1, <1>3
  <2>2. \A i \in DOMAIN pool' : i + 1 \in DOMAIN pool /\ i + 1 # 1
    BY <2>1
  <2>3. \A i, j \in DOMAIN pool' : i # j => pool'[i] # pool'[j]
    <3> TAKE i, j \in DOMAIN pool'
    <3>1. i # j => i + 1 # j + 1
      BY <2>1
    <3> QED BY <2>1, <2>2, <3>1 DEF Inv, PoolFree
  <2>4. \A i \in DOMAIN pool' : ~allocated'[pool'[i]]
    <3> TAKE i \in DOMAIN pool'
    <3>1. ~allocated[pool[i + 1]] /\ pool[i + 1] # e
      BY <1>1, <2>2 DEF Inv, PoolFree
    <3>2. pool[i + 1] \in Element
      BY <1>1, <2>2
    <3> QED BY <1>3, <2>1, <3>1, <3>2 DEF GetElement, Inv, TypeOK
  <2>5. \A f \in Element : allocated'[f] <=> refCount'[f] > 0
    <3>1. refCount[e] = 0
      BY <1>2 DEF IsFree
    <3> QED BY <1>1, <1>3, <3>1 DEF GetElement, Inv, PoolFree, TypeOK
  <2> QED BY <2>3, <2>4, <2>5 DEF PoolFree
<1>12. MeantContent'
  <2> SUFFICES ASSUME NEW f \in Element, NEW g \in Referring(f)' PROVE content'[f] = meant'[g]
    BY DEF MeantContent
  <2>1. CASE f = e
    <3>1. g = s
      BY <1>5, <1>6, <2>1
    <3> QED BY <1>1, <1>3, <2>1, <3>1 DEF Inv, TypeOK
  <2>2. CASE f # e
    <3>1. g \in Referring(f) /\ g # s /\ g \in Signal
      BY <1>1, <1>6, <2>2, NullAssumption DEF Referring
    <3> QED BY <1>1, <1>3, <2>2, <3>1 DEF Inv, TypeOK, MeantContent
  <2> QED BY <2>1, <2>2
<1>13. NoLeak' /\ OwnIsNonDefault'
  <2>1. ~allocated[e]
    BY <1>2 DEF IsFree
  <2>2. CASE UNCHANGED <<payload, nonDefault, live>>
    BY <1>1, <1>8, <2>1, <2>2 DEF Inv, TypeOK, NoLeak, OwnIsNonDefault
  <2>3. CASE /\ payload' = [payload EXCEPT ![e] = "own"]
             /\ nonDefault' = [nonDefault EXCEPT ![e] = TRUE]
             /\ live' = [live EXCEPT ![e] = @ \cup {"own"}]
    BY <1>1, <1>8, <2>1, <2>3 DEF Inv, TypeOK, NoLeak, OwnIsNonDefault
  <2> QED BY <1>8, <2>2, <2>3
<1> QED BY <1>7, <1>9, <1>10, <1>11, <1>12, <1>13 DEF Inv

\* What a signal that takes hold of the element of s does to the counts and contents.
LEMMA IncrementSound ==
  ASSUME Inv, NEW d \in Signal, NEW s \in Signal, Increment(element[s]),
         \A f \in Element : d \notin Referring(f),
         element[s] \in Element => s \in Referring(element[s]),
         \A f \in Element : Referring(f)' = IF f = element[s] THEN Referring(f) \cup {d}
                                            ELSE Referring(f),
         meant' = [meant EXCEPT ![d] = meant[s]],
         UNCHANGED <<pool, allocated, content>>
  PROVE  /\ RefsCounted' /\ refCount' \in [Element -> 0 .. Cardinality(Signal)]
         /\ PoolFree' /\ MeantContent'
<1>1. CASE element[s] = NULL
  <2>1. UNCHANGED refCount /\ \A f \in Element : Referring(f)' = Referring(f)
    BY <1>1, NullAssumption DEF Increment
  <2>2. RefsCounted' /\ refCount' \in [Element -> 0 .. Cardinality(Signal)] /\ PoolFree'
    BY <2>1 DEF Inv, RefsCounted, TypeOK, PoolFree
  <2>3. MeantContent'
    <3>1. ASSUME NEW f \in Element, NEW g \in Referring(f) PROVE content'[f] = meant'[g]
      <4>1. g # d /\ g \in Signal /\ content[f] = meant[g]
        BY DEF Inv, MeantContent, Referring
      <4> QED BY <4>1 DEF Inv, TypeOK
    <3> QED BY <2>1, <3>1 DEF MeantContent
  <2> QED BY <2>2, <2>3
<1>2. CASE element[s] \in Element
  <2> DEFINE e == element[s]
  <2>1. e \in Element /\ s \in Referring(e) /\ refCount' = [refCount EXCEPT ![e] = @ + 1]
    BY <1>2, NullAssumption DEF Increment
  <2>2. \A f \in Element : Referring(f)' = IF f = e THEN Referring(f) \cup {d} ELSE Referring(f)
    OBVIOUS
  <2> HIDE DEF e
  <2>3. RefsCounted' /\ refCount' \in [Element -> 0 .. Cardinality(Signal)]
    BY <2>1, <2>2, CountsGrow
  <2>4. PoolFree'
    <3>1. refCount[e] > 0 /\ refCount \in [Element -> Nat]
      BY <2>1, ReferredIsCounted, FiniteAssumption, FS_CardinalityType DEF Inv, TypeOK
    <3> QED BY <2>1, <3>1 DEF PoolFree, Inv
  <2>5. MeantContent'
    <3> SUFFICES ASSUME NEW f \in Element, NEW g \in Referring(f)' PROVE content'[f] = meant'[g]
      BY DEF MeantContent
    <3>1. CASE g = d
      <4>1. f = e /\ meant'[g] = meant[s]
        BY <2>2, <3>1 DEF Inv, TypeOK
      <4> QED BY <2>1, <4>1 DEF Inv, MeantContent
    <3>2. CASE g # d
      <4>1. g \in Referring(f) /\ g \in Signal
        BY <2>2, <3>2 DEF Referring
      <4> QED BY <3>2, <4>1 DEF Inv, MeantContent, TypeOK
    <3> QED BY <3>1, <3>2
  <2> QED BY <2>3, <2>4, <2>5
<1> QED BY <1>1, <1>2 DEF Inv, TypeOK

\* The copy constructor.
LEMMA CopyInv ==
  ASSUME Inv, NEW t \in Thread, NEW s \in Signal, NEW d \in Signal, Copy(t, d, s)
  PROVE  Inv'
<1>1. /\ MayUse(t, s) /\ MayUse(t, d) /\ element[d] = NULL /\ element[s] # NULL
      /\ Increment(element[s]) /\ element' = [element EXCEPT ![d] = element[s]]
      /\ meant' = [meant EXCEPT ![d] = meant[s]]
      /\ UNCHANGED <<owner, assigning, pool, allocated, payload, nonDefault, live, content,
                     inits, fatal>>
  BY DEF Copy
<1>2. \A u \in Thread : \A a \in assigning[u] : a[1] # s /\ a[1] # d
  BY <1>1, UsableIsNoOperand DEF Inv
<1>3. element[s] \in Element /\ s \in Referring(element[s])
      /\ \A f \in Element : d \notin Referring(f)
  BY <1>1, <1>2, NullAssumption DEF Referring, Inv, TypeOK
<1>4. \A f \in Element : Referring(f)' = IF f = element[s] THEN Referring(f) \cup {d} ELSE Referring(f)
  BY <1>1, <1>2, <1>3, NullAssumption DEF Referring, Inv, TypeOK
<1>5. /\ RefsCounted' /\ refCount' \in [Element -> 0 .. Cardinality(Signal)]
      /\ PoolFree' /\ MeantContent'
  BY <1>1, <1>3, <1>4, IncrementSound
<1>6. TypeOK'
  BY <1>1, <1>5 DEF Inv, TypeOK
<1>7. OperandsOwn' /\ NoLeak' /\ OwnIsNonDefault'
  BY <1>1 DEF Inv, OperandsOwn, NoLeak, OwnIsNonDefault
<1> QED BY <1>5, <1>6, <1>7 DEF Inv

\* The destructor.
LEMMA DestroyInv ==
  ASSUME Inv, NEW t \in Thread, NEW s \in Signal, Destroy(t, s)
  PROVE  Inv'
<1>1. /\ MayUse(t, s) /\ element[s] # NULL /\ Decrement(element[s])
      /\ element' = [element EXCEPT ![s] = NULL]
      /\ UNCHANGED <<owner, assigning, content, meant, inits>>
  BY DEF Destroy, history
<1>2. \A u \in Thread : \A a \in assigning[u] : a[1] # s
  BY <1>1, UsableIsNoOperand DEF Inv
<1>3. s \in Referring(element[s])
  BY <1>2 DEF Referring
<1>4. \A f \in Element : Referring(f)' = Referring(f) \ {s}
  BY <1>1, NullAssumption DEF Referring, Inv, TypeOK
<1>5. /\ RefsCounted' /\ refCount' \in [Element -> 0 .. Cardinality(Signal)]
      /\ PoolFree' /\ NoLeak' /\ OwnIsNonDefault'
      /\ pool' \in Seq(Element) /\ allocated' \in [Element -> BOOLEAN]
      /\ payload' \in [Element -> {"default", "own"}] /\ nonDefault' \in [Element -> BOOLEAN]
      /\ live' \in [Element -> SUBSET {"default", "own"}] /\ fatal' \in BOOLEAN
  BY <1>1, <1>3, <1>4, DecrementSound
<1>6. TypeOK'
  BY <1>1, <1>5 DEF Inv, TypeOK
<1>7. OperandsOwn' /\ MeantContent'
  BY <1>1, <1>4 DEF Inv, OperandsOwn, MeantContent
<1> QED BY <1>5, <1>6, <1>7 DEF Inv

\* The first half of operator=: the old element is let go.
LEMMA ReleaseInv ==
  ASSUME Inv, NEW t \in Thread, NEW s \in Signal, NEW d \in Signal, Release(t, d, s)
  PROVE  Inv'
<1>1. /\ MayUse(t, s) /\ MayUse(t, d) /\ d # s /\ Decrement(element[d])
      /\ assigning' = [assigning EXCEPT ![t] = {<<d, s>>}]
      /\ UNCHANGED <<element, owner, content, meant, inits>>
  BY DEF Release, MayAssign, history
<1>2. \A u \in Thread : \A a \in assigning[u] : a[1] # d
  BY <1>1, UsableIsNoOperand DEF Inv
<1>3. element[d] \in Element => d \in Referring(element[d])
  BY <1>2 DEF Referring
<1>4. \A f \in Element : Referring(f)' = Referring(f) \ {d}
  <2>1. assigning[t] = {} /\ assigning \in [Thread -> SUBSET (Signal \X Signal)]
    BY <1>1 DEF MayUse, Inv, TypeOK
  <2>2. ASSUME NEW g \in Signal
        PROVE  (\A u \in Thread : \A a \in assigning'[u] : a[1] # g) <=>
                 (\A u \in Thread : \A a \in assigning[u] : a[1] # g) /\ g # d
    <3>1. \A u \in Thread : assigning'[u] = IF u = t THEN {<<d, s>>} ELSE assigning[u]
      BY <1>1, <2>1
    <3>2. \A a \in {<<d, s>>} : a[1] = d
      OBVIOUS
    <3> QED BY <2>1, <3>1, <3>2
  <2> QED BY <1>1, <2>2 DEF Referring
<1>5. /\ RefsCounted' /\ refCount' \in [Element -> 0 .. Cardinality(Signal)]
      /\ PoolFree' /\ NoLeak' /\ OwnIsNonDefault'
      /\ pool' \in Seq(Element) /\ allocated' \in [Element -> BOOLEAN]
      /\ payload' \in [Element -> {"default", "own"}] /\ nonDefault' \in [Element -> BOOLEAN]
      /\ live' \in [Element -> SUBSET {"default", "own"}] /\ fatal' \in BOOLEAN
  BY <1>1, <1>3, <1>4, DecrementSound
<1>6. TypeOK'
  BY <1>1, <1>5 DEF Inv, TypeOK
<1>7. OperandsOwn'
  <2>1. owner[d] = t /\ owner[s] = t
    BY <1>1 DEF MayUse
  <2>2. \A u \in Thread : assigning'[u] = IF u = t THEN {<<d, s>>} ELSE assigning[u]
    BY <1>1 DEF Inv, TypeOK
  <2>3. \A a \in {<<d, s>>} : a = <<d, s>> /\ a[1] = d /\ a[2] = s
    OBVIOUS
  <2> QED BY <1>1, <2>1, <2>2, <2>3 DEF Inv, OperandsOwn
<1>8. MeantContent'
  BY <1>1, <1>4 DEF Inv, MeantContent
<1> QED BY <1>5, <1>6, <1>7, <1>8 DEF Inv

\* The second half of operator=: the other signal, which its thread still owns, has kept its
\* element meanwhile.
LEMMA AssignInv ==
  ASSUME Inv, NEW t \in Thread, Assign(t)
  PROVE  Inv'
<1>1. PICK a \in assigning[t] : /\ Increment(element[a[2]])
                                /\ element' = [element EXCEPT ![a[1]] = element[a[2]]]
                                /\ meant' = [meant EXCEPT ![a[1]] = meant[a[2]]]
  BY DEF Assign
<1>2. /\ assigning' = [assigning EXCEPT ![t] = {}]
      /\ UNCHANGED <<owner, pool, allocated, payload, nonDefault, live, content, inits, fatal>>
  BY DEF Assign
<1> DEFINE d == a[1]
           s == a[2]
<1>3. /\ d \in Signal /\ s \in Signal /\ d # s /\ owner[d] = t /\ owner[s] = t
      /\ \A b \in assigning[t] : b = a
  BY DEF Inv, TypeOK, OperandsOwn
<1>4. \A u \in Thread : \A b \in assigning[u] : b[1] # s /\ (u # t => b[1] # d)
  BY <1>3 DEF Inv, OperandsOwn
<1>5. \A f \in Element : d \notin Referring(f)
  BY <1>1 DEF Referring
<1>6. element[s] \in Element => s \in Referring(element[s])
  BY <1>3, <1>4 DEF Referring
<1>7. \A f \in Element : Referring(f)' = IF f = element[s] THEN Referring(f) \cup {d} ELSE Referring(f)
  <2>1. \A u \in Thread : assigning'[u] = IF u = t THEN {} ELSE assigning[u]
    BY <1>2 DEF Inv, TypeOK
  <2>2. ASSUME NEW g \in Signal
        PROVE  (\A u \in Thread : \A b \in assigning'[u] : b[1] # g) <=>
                 g = d \/ (\A u \in Thread : \A b \in assigning[u] : b[1] # g)
    BY <1>3, <1>4, <2>1
  <2>3. \A g \in Signal : element'[g] = IF g = d THEN element[s] ELSE element[g]
    BY <1>1, <1>3 DEF Inv, TypeOK
  <2> HIDE DEF d, s
  <2>4. \A f \in Element : \A g \in Signal : g \in Referring(f)' <=>
          IF g = d THEN f = element[s] ELSE g \in Referring(f)
    BY <2>2, <2>3 DEF Referring
  <2>5. \A f \in Element : Referring(f) \subseteq Signal /\ Referring(f)' \subseteq Signal
    BY DEF Referring
  <2>6. d \in Signal
    BY <1>3
  <2> QED BY <1>5, <2>4, <2>5, <2>6
<1>8. Increment(element[s]) /\ meant' = [meant EXCEPT ![d] = meant[s]]
      /\ element' = [element EXCEPT ![d] = element[s]]
  BY <1>1
<1> HIDE DEF d, s
<1>9. /\ RefsCounted' /\ refCount' \in [Element -> 0 .. Cardinality(Signal)]
      /\ PoolFree' /\ MeantContent'
  BY <1>2, <1>3, <1>5, <1>6, <1>7, <1>8, IncrementSound
<1>10. TypeOK'
  BY <1>2, <1>3, <1>8, <1>9 DEF Inv, TypeOK
<1>11. OperandsOwn' /\ NoLeak' /\ OwnIsNonDefault'
  BY <1>2 DEF Inv, TypeOK, OperandsOwn, NoLeak, OwnIsNonDefault
<1> QED BY <1>9, <1>10, <1>11 DEF Inv

\* A signal changes hands only when no operator= uses it.
LEMMA HandOverInv ==
  ASSUME Inv, NEW t \in Thread, NEW s \in Signal, NEW u \in Thread, HandOver(t, s, u)
  PROVE  Inv'
<1>1. /\ MayUse(t, s) /\ owner' = [owner EXCEPT ![s] = u]
      /\ UNCHANGED <<element, assigning, pool, refCount, allocated, payload, nonDefault, live,
                     content, meant, inits, fatal>>
  BY DEF HandOver, elementVars, history
<1>2. \A v \in Thread : \A a \in assigning[v] : a[1] # s /\ a[2] # s
  BY <1>1, UsableIsNoOperand DEF Inv
<1>3. OperandsOwn'
  BY <1>1, <1>2 DEF Inv, OperandsOwn, TypeOK
<1>4. TypeOK'
  BY <1>1 DEF Inv, TypeOK
<1>5. \A f \in Element : Referring(f)' = Referring(f)
  BY <1>1 DEF Referring
<1>6. PoolFree' /\ RefsCounted' /\ MeantContent' /\ NoLeak' /\ OwnIsNonDefault'
  BY <1>1, <1>5 DEF Inv, PoolFree, RefsCounted, MeantContent, NoLeak, OwnIsNonDefault
<1> QED BY <1>3, <1>4, <1>6 DEF Inv

-----------------------------------------------------------------------------
\* Every step keeps the invariant.
LEMMA StepInv == Inv /\ [Next]_vars => Inv'
<1> SUFFICES ASSUME Inv, [Next]_vars PROVE Inv'
  OBVIOUS
<1>1. CASE Next
  BY <1>1, InitializeInv, CopyInv, ReleaseInv, DestroyInv, HandOverInv, AssignInv DEF Next
<1>2. CASE UNCHANGED vars
  <2>1. \A f \in Element : Referring(f)' = Referring(f)
    BY <1>2 DEF vars, Referring
  <2> QED
    BY <1>2, <2>1 DEF vars, Inv, TypeOK, OperandsOwn, PoolFree, RefsCounted, MeantContent,
                      NoLeak, OwnIsNonDefault
<1> QED BY <1>1, <1>2

\* The inductive invariant: exact counts, operands that belong to their thread, a pool of
\* what is free, and buffers whose flag is set.
THEOREM Invariance == Spec => []Inv
  BY InitInv, StepInv, PTL DEF Spec

\* Every variable keeps its type, for any number of signals and elements.
THEOREM Typing == Spec => []TypeOK
<1>1. Inv => TypeOK
  BY DEF Inv
<1> QED BY <1>1, Invariance, PTL

\* decrementRefCount, increment and the pool: counts are exact and buffers are freed,
\* however many threads copy, assign and destroy signals.
THEOREM NothingLeaks == Spec => []NoneLeaks
<1>1. Inv => NoneLeaks
  BY DEF Inv, NoneLeaks
<1> QED BY <1>1, Invariance, PTL

\* An element is not given out again while any signal of any thread refers to it.
THEOREM SignalsKeepElements == Spec => []SignalKeepsItsElement
<1>1. Inv => SignalKeepsItsElement
  <2> SUFFICES ASSUME Inv, NEW e \in Element, NEW s \in Referring(e)
               PROVE  allocated[e] /\ e \notin Range(pool) /\ content[e] = meant[s]
    BY DEF SignalKeepsItsElement
  <2>1. allocated[e] /\ \A i \in DOMAIN pool : pool[i] # e
    BY ReferredIsCounted
  <2>2. content[e] = meant[s]
    BY DEF Inv, MeantContent
  <2> QED BY <2>1, <2>2 DEF Range
<1> QED BY <1>1, Invariance, PTL
=============================================================================
