-------------------------- MODULE TcpServiceProofs --------------------------
(* Proofs about TcpService. *)
EXTENDS TcpService, Induction, FiniteSetTheorems

-----------------------------------------------------------------------------
(* The maps: arrays in the order of the ports. *)

Slot(X) == [key : Port, object : X]

Sound(m, X) == m \in Seq(Slot(X)) /\ Sorted(m)

LEMMA PortIsNumber == Port \subseteq Nat \ {0} /\ IsFiniteSet(Port)
BY PortAssumption

\* locate finds the place of a port.
LEMMA Located ==
  ASSUME NEW X, NEW m, Sound(m, X), NEW p \in Port
  PROVE  Place(m, p, Map!Locate(m, p) + 1) /\ Map!Locate(m, p) \in Nat
<1> DEFINE size == Len(m)
           order == [l \in 0 .. size - 1 |-> m[l + 1].key - p]
           Step(search) ==
             [range \in (0 .. size) \X (-1 .. size - 1) |->
                LET min == range[1]  max == range[2]  mid == (min + max) \div 2 IN
                CASE min > max /\ min < size - 1 /\ Order(m[min + 1].key, p) < 0 -> min + 1
                  [] min > max /\ ~(min < size - 1 /\ Order(m[min + 1].key, p) < 0) -> min
                  [] min <= max /\ Order(m[mid + 1].key, p) = 0 -> mid
                  [] min <= max /\ Order(m[mid + 1].key, p) < 0 ->
                       IF mid + 1 >= size THEN size ELSE search[<<mid + 1, max>>]
                  [] OTHER -> IF mid - 1 < 0 THEN 0 ELSE search[<<min, mid - 1>>]]
           search == CHOOSE f : f = Step(f)
<1>1. /\ size \in Nat /\ p \in Nat
      /\ \A i \in 1 .. size : m[i] \in Slot(X) /\ m[i].key \in Port /\ m[i].key \in Nat
  <2>1. size \in Nat /\ \A i \in 1 .. size : m[i] \in Slot(X)
    BY ElementOfSeq DEF Sound
  <2>2. \A s \in Slot(X) : s.key \in Port
    BY DEF Slot
  <2> HIDE DEF size
  <2> QED BY <2>1, <2>2, PortIsNumber
<1>2. order \in [0 .. size - 1 -> Int]
      /\ \A l \in 0 .. size - 1 : order[l] = Order(m[l + 1].key, p) /\ l + 1 \in 1 .. size
  BY <1>1 DEF Order
<1>3. Map!Locate(m, p) = search[<<0, size - 1>>]
  BY DEF Map!Locate
<1> HIDE DEF order, search
<1>4. ASSUME NEW f, NEW r \in Ranges(size)
      PROVE  Step(f)[r] = Halved(size, order, f, r)
  <2>1. PICK min \in 0 .. size, max \in -1 .. size - 1 : r = <<min, max>>
    BY DEF Ranges
  <2> DEFINE mid == (min + max) \div 2
  <2>2. r[1] = min /\ r[2] = max /\ r \in (0 .. size) \X (-1 .. size - 1)
    BY <2>1
  <2>3. CASE min > max
    <3>1. min < size - 1 => order[min] = Order(m[min + 1].key, p)
      BY <1>1, <1>2
    <3> QED BY <1>1, <2>2, <2>3, <3>1 DEF Halved
  <2>4. CASE min <= max
    <3>1. mid \in 0 .. size - 1
      BY <1>1, <2>4
    <3>2. order[mid] = Order(m[mid + 1].key, p)
      BY <1>2, <3>1
    <3> HIDE DEF mid
    <3>3. Step(f)[r] =
            CASE min > max /\ min < size - 1 /\ Order(m[min + 1].key, p) < 0 -> min + 1
              [] min > max /\ ~(min < size - 1 /\ Order(m[min + 1].key, p) < 0) -> min
              [] min <= max /\ Order(m[mid + 1].key, p) = 0 -> mid
              [] min <= max /\ Order(m[mid + 1].key, p) < 0 ->
                   IF mid + 1 >= size THEN size ELSE f[<<mid + 1, max>>]
              [] OTHER -> IF mid - 1 < 0 THEN 0 ELSE f[<<min, mid - 1>>]
      BY <2>2 DEF mid
    <3>4. Halved(size, order, f, r) =
            CASE min > max /\ min < size - 1 /\ order[min] < 0 -> min + 1
              [] min > max /\ ~(min < size - 1 /\ order[min] < 0) -> min
              [] min <= max /\ order[mid] = 0 -> mid
              [] min <= max /\ order[mid] < 0 ->
                   IF mid + 1 >= size THEN size ELSE f[<<mid + 1, max>>]
              [] OTHER -> IF mid - 1 < 0 THEN 0 ELSE f[<<min, mid - 1>>]
      BY <2>2 DEF Halved, mid
    <3> HIDE DEF Step
    <3> QED BY <2>4, <3>2, <3>3, <3>4
  <2> QED BY <1>1, <2>3, <2>4
<1>5. \A f : Step(f) = [r \in Ranges(size) |-> Halved(size, order, f, r)]
  <2> TAKE f
  <2>1. Step(f) = [r \in Ranges(size) |-> Step(f)[r]]
    BY DEF Ranges
  <2> HIDE DEF Step
  <2> QED BY <1>4, <2>1
<1>6. \E f : f = [r \in Ranges(size) |-> Halved(size, order, f, r)]
  BY <1>1, SearchExists DEF Searches
<1>7. search = Step(search)
  <2>1. \E f : f = Step(f)
    <3> HIDE DEF Step
    <3> QED BY <1>5, <1>6
  <2> HIDE DEF Step
  <2> QED BY <2>1 DEF search
<1>8. Searches(size, order, search)
  <2> HIDE DEF Step
  <2> QED BY <1>5, <1>7 DEF Searches
<1>9. \A i, j \in 0 .. size - 1 : i < j /\ order[j] <= 0 => order[i] < 0
  <2> SUFFICES ASSUME NEW i \in 0 .. size - 1, NEW j \in 0 .. size - 1, i < j, order[j] <= 0
               PROVE  order[i] < 0
    OBVIOUS
  <2>1. i + 1 \in 1 .. size /\ j + 1 \in 1 .. size /\ i + 1 < j + 1
    BY <1>1
  <2>2. m[i + 1].key < m[j + 1].key
    BY <2>1 DEF Sound, Sorted
  <2>3. order[i] = m[i + 1].key - p /\ order[j] = m[j + 1].key - p
    BY <1>2 DEF Order
  <2>4. m[i + 1].key \in Nat /\ m[j + 1].key \in Nat
    BY <1>1, <2>1
  <2> QED BY <1>1, <2>2, <2>3, <2>4
<1> DEFINE l == search[<<0, size - 1>>]
<1>10. l \in 0 .. size /\ \A i \in 0 .. size - 1 : (i < l <=> order[i] < 0)
  <2> HIDE DEF l, size, Step
  <2>1. l = search[<<0, size - 1>>]
    BY DEF l
  <2>2. size \in Nat /\ order \in [0 .. size - 1 -> Int]
    BY <1>1, <1>2
  <2>3. l \in 0 .. size
    BY <1>8, <1>9, <2>1, <2>2, SearchFinds
  <2>4. \A i \in 0 .. size - 1 : (i < l <=> order[i] < 0)
    BY <1>8, <1>9, <2>1, <2>2, SearchFinds
  <2> QED BY <2>3, <2>4
<1> HIDE DEF l
<1>11. l + 1 \in 1 .. Len(m) + 1
  BY <1>1, <1>10
<1>12. ASSUME NEW j \in 1 .. Len(m) PROVE j < l + 1 <=> m[j].key < p
  <2>1. j - 1 \in 0 .. size - 1 /\ j - 1 + 1 = j /\ m[j].key \in Nat
    BY <1>1
  <2>2. order[j - 1] = m[j].key - p
    BY <1>2, <2>1 DEF Order
  <2>3. j - 1 < l <=> order[j - 1] < 0
    BY <1>10, <2>1
  <2> QED BY <1>1, <1>10, <2>1, <2>2, <2>3
<1>13. Place(m, p, l + 1)
  BY <1>11, <1>12 DEF Place
<1> QED BY <1>1, <1>3, <1>10, <1>13 DEF l

LEMMA SlotsOf ==
  ASSUME NEW X, NEW m, Sound(m, X)
  PROVE  /\ Len(m) \in Nat /\ m \in Seq(Slot(X)) /\ Sorted(m) /\ \A d \in Slot(X) : d.key \in Int
         /\ \A i \in 1 .. Len(m) : m[i] \in Slot(X) /\ m[i].key \in Port /\ m[i].key \in Nat
                                   /\ m[i].object \in X
         /\ \A d \in Entries(m) : d \in Slot(X) /\ d.key \in Port /\ d.object \in X
<1>1. m \in Seq(Slot(X)) /\ Sorted(m)
  BY DEF Sound
<1>2. Len(m) \in Nat /\ \A i \in 1 .. Len(m) : m[i] \in Slot(X)
  BY <1>1, ElementOfSeq
<1>3. \A d \in Slot(X) : d.key \in Port /\ d.object \in X /\ d.key \in Nat /\ d.key \in Int
  <2>1. \A d \in Slot(X) : d.key \in Port /\ d.object \in X
    BY DEF Slot
  <2>2. \A p \in Port : p \in Nat /\ p \in Int
    BY PortIsNumber
  <2> QED BY <2>1, <2>2
<1>4. \A d \in Entries(m) : d \in Slot(X)
  BY <1>2 DEF Entries
<1> QED BY <1>1, <1>2, <1>3, <1>4

LEMMA KeysAre ==
  ASSUME NEW X, NEW m, Sound(m, X)
  PROVE  /\ Map!Keys(m) = {d.key : d \in Entries(m)}
         /\ Map!Keys(m) \subseteq Port
         /\ \A d, e \in Entries(m) : d.key = e.key => d = e
<1>1. Map!Keys(m) = {d.key : d \in Entries(m)}
  BY DEF Map!Keys, Entries
<1>2. Map!Keys(m) \subseteq Port
  BY <1>1, SlotsOf
<1>3. ASSUME NEW d \in Entries(m), NEW e \in Entries(m), d.key = e.key PROVE d = e
  <2>1. PICK i \in 1 .. Len(m) : d = m[i]
    BY DEF Entries
  <2>2. PICK j \in 1 .. Len(m) : e = m[j]
    BY DEF Entries
  <2>3. m[i].key \in Nat /\ m[j].key \in Nat /\ Len(m) \in Nat
    BY SlotsOf
  <2>4. (i < j => m[i].key < m[j].key) /\ (j < i => m[j].key < m[i].key)
    BY DEF Sound, Sorted
  <2>5. i = j
    BY <1>3, <2>1, <2>2, <2>3, <2>4
  <2> QED BY <2>1, <2>2, <2>5
<1> QED BY <1>1, <1>2, <1>3

\* getEntry finds the entry of a port, if there is one.
LEMMA FoundIs ==
  ASSUME NEW X, NEW m, Sound(m, X), NEW p \in Port
  PROVE  /\ Map!Found(m, p) <=> p \in Map!Keys(m)
         /\ Map!Found(m, p) => /\ Map!Locate(m, p) + 1 \in 1 .. Len(m)
                               /\ m[Map!Locate(m, p) + 1].key = p
<1> DEFINE i == Map!Locate(m, p) + 1
           l == Map!Locate(m, p)
<1>1. Place(m, p, i) /\ l \in Nat
  BY Located
<1> HIDE DEF i
<1>2. Len(m) \in Nat /\ p \in Nat /\ \A j \in 1 .. Len(m) : m[j].key \in Nat
  BY SlotsOf, PortIsNumber
<1>3. i \in 1 .. Len(m) + 1 /\ \A j \in 1 .. Len(m) : j < i <=> m[j].key < p
  BY <1>1 DEF Place
<1>4. Map!Found(m, p) <=> i - 1 < Len(m) /\ m[i].key - p = 0
  <2>1. Map!Found(m, p) <=> l < Len(m) /\ m[l + 1].key - p = 0
    BY DEF Map!Found, Order
  <2> HIDE DEF l
  <2>2. i = l + 1
    BY DEF i, l
  <2> QED BY <1>1, <2>1, <2>2
<1>5. Map!Found(m, p) => i \in 1 .. Len(m) /\ m[i].key = p
  BY <1>2, <1>3, <1>4
<1>6. ASSUME NEW j \in 1 .. Len(m), m[j].key = p PROVE Map!Found(m, p)
  <2>1. ~ (j < i)
    BY <1>2, <1>3, <1>6
  <2>2. i \in 1 .. Len(m) /\ ~ (i < i)
    BY <1>2, <1>3, <2>1
  <2>3. ~ (m[i].key < p)
    BY <1>3, <2>2
  <2>4. ~ (i < j)
    <3> SUFFICES ASSUME i < j PROVE FALSE
      OBVIOUS
    <3>1. m[i].key < m[j].key
      BY <2>2 DEF Sound, Sorted
    <3> QED BY <1>2, <1>6, <2>2, <2>3, <3>1
  <2>5. i = j
    BY <1>2, <2>1, <2>2, <2>4
  <2> QED BY <1>2, <1>4, <1>6, <2>2, <2>5
<1>7. Map!Found(m, p) <=> p \in Map!Keys(m)
  BY <1>5, <1>6 DEF Map!Keys
<1> QED BY <1>5, <1>7 DEF i

LEMMA GetIs ==
  ASSUME NEW X, NEW m, Sound(m, X), NEW p \in Port
  PROVE  /\ \A d \in Entries(m) : d.key = p => Map!GetObject(m, p) = d.object
         /\ p \in Map!Keys(m) => Map!GetObject(m, p) \in X
         /\ p \notin Map!Keys(m) => Map!GetObject(m, p) = NoFd
<1>1. ASSUME NEW d \in Entries(m), d.key = p PROVE Map!GetObject(m, p) = d.object
  <2> DEFINE i == Map!Locate(m, p) + 1
  <2>1. p \in Map!Keys(m)
    BY <1>1, KeysAre
  <2>2. Map!Found(m, p) /\ i \in 1 .. Len(m) /\ m[i].key = p
    BY <2>1, FoundIs
  <2>3. m[i] \in Entries(m)
    BY <2>2 DEF Entries
  <2>4. m[i] = d
    BY <1>1, <2>2, <2>3, KeysAre
  <2> QED BY <2>2, <2>4 DEF Map!GetObject
<1>2. ASSUME p \in Map!Keys(m) PROVE Map!GetObject(m, p) \in X
  <2>1. PICK d \in Entries(m) : d.key = p
    BY <1>2, KeysAre
  <2>2. Map!GetObject(m, p) = d.object
    BY <1>1, <2>1
  <2> QED BY <2>2, SlotsOf
<1>3. ASSUME p \notin Map!Keys(m) PROVE Map!GetObject(m, p) = NoFd
  <2>1. ~ Map!Found(m, p)
    BY <1>3, FoundIs
  <2> QED BY <2>1 DEF Map!GetObject
<1> QED BY <1>1, <1>2, <1>3

\* Maps with the same entries but for one key give the same objects for the other keys.
LEMMA SameObjects ==
  ASSUME NEW X, NEW m, Sound(m, X), NEW w, Sound(w, X), NEW p, NEW q \in Port, q # p,
         Others(w, p) = Others(m, p)
  PROVE  /\ q \in Map!Keys(w) <=> q \in Map!Keys(m)
         /\ Map!GetObject(w, q) = Map!GetObject(m, q)
<1>1. \A d : d.key = q => (d \in Entries(w) <=> d \in Entries(m))
  BY DEF Others
<1>2. q \in Map!Keys(w) <=> q \in Map!Keys(m)
  BY <1>1, KeysAre
<1>3. CASE q \in Map!Keys(m)
  <2>1. PICK d \in Entries(m) : d.key = q
    BY <1>3, KeysAre
  <2>2. d \in Entries(w)
    BY <1>1, <2>1
  <2> QED BY <1>2, <2>1, <2>2, GetIs
<1>4. CASE q \notin Map!Keys(m)
  BY <1>2, <1>4, GetIs
<1> QED BY <1>2, <1>3, <1>4

\* insert: the port has the new object, and the others have theirs.
LEMMA InsertIs ==
  ASSUME NEW X, NEW m, Sound(m, X), NEW p \in Port, NEW object \in X
  PROVE  /\ Sound(Map!Insert(m, p, object), X)
         /\ Entries(Map!Insert(m, p, object)) = Others(m, p) \cup {Map!Entry(p, object)}
         /\ Map!Keys(Map!Insert(m, p, object)) = Map!Keys(m) \cup {p}
         /\ Map!GetObject(Map!Insert(m, p, object), p) = object
         /\ \A q \in Port : q # p =>
              Map!GetObject(Map!Insert(m, p, object), q) = Map!GetObject(m, q)
<1> DEFINE i == Map!Locate(m, p) + 1
           e == Map!Entry(p, object)
           w == Map!Insert(m, p, object)
<1>1. e \in Slot(X) /\ e.key = p /\ e.object = object
  BY DEF Map!Entry, Slot
<1>2. /\ Len(m) \in Nat /\ m \in Seq(Slot(X)) /\ Sorted(m) /\ \A d \in Slot(X) : d.key \in Int
      /\ \A j \in 1 .. Len(m) : m[j] \in Slot(X)
  BY SlotsOf
<1> HIDE DEF e
<1>3. w \in Seq(Slot(X)) /\ Sorted(w) /\ Entries(w) = Others(m, p) \cup {e}
  <2>1. CASE Map!Found(m, p)
    <3>1. i \in 1 .. Len(m) /\ m[i].key = p
      BY <2>1, FoundIs
    <3>2. w = [m EXCEPT ![i].object = object]
      BY <2>1 DEF Map!Insert
    <3>3. [m[i] EXCEPT !.object = object] = e
      <4>1. m[i] \in Slot(X)
        BY <1>2, <3>1
      <4> QED BY <3>1, <4>1 DEF Slot, e, Map!Entry
    <3>4. w = [m EXCEPT ![i] = e]
      BY <1>2, <3>1, <3>2, <3>3
    <3> HIDE DEF i, w
    <3>5. [m EXCEPT ![i] = e] \in Seq(Slot(X))
      BY <1>1, <1>2, <3>1, ReplacedInOrder
    <3>6. Sorted([m EXCEPT ![i] = e])
      BY <1>1, <1>2, <3>1, ReplacedInOrder
    <3>7. Entries([m EXCEPT ![i] = e]) = Others(m, e.key) \cup {e}
      BY <1>1, <1>2, <3>1, ReplacedInOrder
    <3> QED BY <1>1, <3>4, <3>5, <3>6, <3>7
  <2>2. CASE ~ Map!Found(m, p)
    <3>1. Place(m, p, i)
      BY Located
    <3>2. i \in 1 .. Len(m) + 1
      BY <3>1 DEF Place
    <3>3. \A d \in Entries(m) : d.key # e.key
      BY <1>1, <2>2, FoundIs, KeysAre
    <3>4. w = InsertAt(m, i, e)
      BY <2>2 DEF Map!Insert, Map!Ext!InsertAt, InsertAt, e
    <3> HIDE DEF i, w
    <3>5. InsertAt(m, i, e) \in Seq(Slot(X))
      BY <1>1, <1>2, <3>1, <3>2, <3>3, InsertedInOrder
    <3>6. Sorted(InsertAt(m, i, e))
      BY <1>1, <1>2, <3>1, <3>2, <3>3, InsertedInOrder
    <3>7. Entries(InsertAt(m, i, e)) = Others(m, e.key) \cup {e}
      BY <1>1, <1>2, <3>1, <3>2, <3>3, InsertedInOrder
    <3> QED BY <1>1, <3>4, <3>5, <3>6, <3>7
  <2> QED BY <2>1, <2>2
<1> HIDE DEF w
<1>4. Sound(w, X)
  BY <1>3 DEF Sound
<1>5. Map!Keys(w) = Map!Keys(m) \cup {p}
  BY <1>1, <1>3, <1>4, KeysAre DEF Others
<1>6. Map!GetObject(w, p) = object
  BY <1>1, <1>3, <1>4, GetIs
<1>7. ASSUME NEW q \in Port, q # p PROVE Map!GetObject(w, q) = Map!GetObject(m, q)
  <2>1. Others(w, p) = Others(m, p)
    BY <1>1, <1>3 DEF Others
  <2> QED BY <1>4, <1>7, <2>1, SameObjects
<1> QED BY <1>3, <1>4, <1>5, <1>6, <1>7 DEF w, e

\* remove: the port has no object any more, and the others have theirs.
LEMMA RemoveIs ==
  ASSUME NEW X, NEW m, Sound(m, X), NEW p \in Port
  PROVE  /\ Sound(Map!Remove(m, p), X)
         /\ Entries(Map!Remove(m, p)) = Others(m, p)
         /\ Map!Keys(Map!Remove(m, p)) = Map!Keys(m) \ {p}
         /\ Map!GetObject(Map!Remove(m, p), p) = NoFd
         /\ \A q \in Port : q # p => Map!GetObject(Map!Remove(m, p), q) = Map!GetObject(m, q)
<1> DEFINE i == Map!Locate(m, p) + 1
           w == Map!Remove(m, p)
<1>1. /\ Len(m) \in Nat /\ m \in Seq(Slot(X)) /\ Sorted(m) /\ \A d \in Slot(X) : d.key \in Int
  BY SlotsOf
<1>2. w \in Seq(Slot(X)) /\ Sorted(w) /\ Entries(w) = Others(m, p)
  <2>1. CASE Map!Found(m, p)
    <3>1. i \in 1 .. Len(m) /\ m[i].key = p
      BY <2>1, FoundIs
    <3>2. w = RemoveAt(m, i)
      BY <2>1 DEF Map!Remove, Map!Ext!RemoveAt, RemoveAt
    <3> HIDE DEF i, w
    <3>3. RemoveAt(m, i) \in Seq(Slot(X))
      BY <1>1, <3>1, RemovedInOrder
    <3>4. Sorted(RemoveAt(m, i))
      BY <1>1, <3>1, RemovedInOrder
    <3>5. Entries(RemoveAt(m, i)) = Others(m, m[i].key)
      BY <1>1, <3>1, RemovedInOrder
    <3> QED BY <3>1, <3>2, <3>3, <3>4, <3>5
  <2>2. CASE ~ Map!Found(m, p)
    <3>1. w = m
      BY <2>2 DEF Map!Remove
    <3>2. Entries(m) = Others(m, p)
      BY <2>2, FoundIs, KeysAre DEF Others
    <3> QED BY <1>1, <3>1, <3>2
  <2> QED BY <2>1, <2>2
<1> HIDE DEF w
<1>3. Sound(w, X)
  BY <1>2 DEF Sound
<1>4. Map!Keys(w) = Map!Keys(m) \ {p}
  BY <1>2, <1>3, KeysAre DEF Others
<1>5. Map!GetObject(w, p) = NoFd
  BY <1>3, <1>4, GetIs
<1>6. ASSUME NEW q \in Port, q # p PROVE Map!GetObject(w, q) = Map!GetObject(m, q)
  <2>1. Others(w, p) = Others(m, p)
    BY <1>2 DEF Others
  <2> QED BY <1>3, <1>6, <2>1, SameObjects
<1> QED BY <1>2, <1>3, <1>4, <1>5, <1>6 DEF w

LEMMA EmptyIs ==
  ASSUME NEW X
  PROVE  Sound(Map!Empty, X) /\ Map!Keys(Map!Empty) = {}
<1>1. Map!Empty = <<>> /\ Len(Map!Empty) = 0 /\ Map!Empty \in Seq(Slot(X))
  BY DEF Map!Empty
<1> QED BY <1>1 DEF Sound, Sorted, Map!Keys

-----------------------------------------------------------------------------
(* The maps of the service. *)

Twins == {Map!Entry(p, p) : p \in Port}

LEMMA TwinsAre == Twins \subseteq Slot(Port) /\ \A d \in Twins : d.object = d.key
BY DEF Twins, Slot, Map!Entry

LEMMA InOrderIs ==
  ASSUME NEW X, NEW m \in Seq(Slot(X))
  PROVE  Map!InOrder(m) <=> Sorted(m)
<1> DEFINE n == Len(m)
           f == [i \in 1 .. n |-> m[i].key]
<1>1. n \in Nat /\ \A i \in 1 .. n : m[i].key \in Int /\ f[i] = m[i].key
  <2>1. \A d \in Slot(X) : d.key \in Int
    <3>1. \A d \in Slot(X) : d.key \in Port
      BY DEF Slot
    <3>2. \A p \in Port : p \in Nat /\ p \in Int
      BY PortIsNumber
    <3> QED BY <3>1, <3>2
  <2>2. n \in Nat /\ \A i \in 1 .. n : m[i] \in Slot(X)
    BY ElementOfSeq
  <2> QED BY <2>1, <2>2
<1> HIDE DEF f
<1>2. Map!InOrder(m) <=> \A i \in 1 .. n - 1 : f[i] < f[i + 1]
  <2>1. \A i \in 1 .. n - 1 : i \in 1 .. n /\ i + 1 \in 1 .. n
    BY <1>1
  <2>2. \A i \in 1 .. n - 1 : Order(m[i].key, m[i + 1].key) < 0 <=> f[i] < f[i + 1]
    BY <1>1, <2>1 DEF Order
  <2> QED BY <2>2 DEF Map!InOrder
<1>3. Sorted(m) <=> \A i, j \in 1 .. n : i < j => f[i] < f[j]
  BY <1>1 DEF Sorted
<1> HIDE DEF n
<1>4. (\A i \in 1 .. n - 1 : f[i] < f[i + 1]) => \A i, j \in 1 .. n : i < j => f[i] < f[j]
  <2> SUFFICES ASSUME \A i \in 1 .. n - 1 : f[i] < f[i + 1]
               PROVE  \A i, j \in 1 .. n : i < j => f[i] < f[j]
    OBVIOUS
  <2>1. \A i \in 1 .. n : f[i] \in Int
    BY <1>1
  <2> QED BY <1>1, <2>1, Increases
<1>5. (\A i, j \in 1 .. n : i < j => f[i] < f[j]) => \A i \in 1 .. n - 1 : f[i] < f[i + 1]
  <2> SUFFICES ASSUME \A i, j \in 1 .. n : i < j => f[i] < f[j], NEW i \in 1 .. n - 1
               PROVE  f[i] < f[i + 1]
    OBVIOUS
  <2>1. i \in 1 .. n /\ i + 1 \in 1 .. n /\ i < i + 1
    BY <1>1
  <2> QED BY <2>1
<1> QED BY <1>2, <1>3, <1>4, <1>5

MapsTyped ==
  /\ \A map \in {portSocketMap, portIdMap, slotIdMap} : Map!InOrder(map)
  /\ portSocketMap \in Seq([key : Port, object : Fd])
  /\ {portIdMap, slotIdMap} \subseteq Seq({Map!Entry(p, p) : p \in Port})

\* A sequence of pairs of a port with itself, in their order.
Paired(m) == Sound(m, Port) /\ \A d \in Entries(m) : d \in Twins

LEMMA PairedIs ==
  ASSUME NEW m
  PROVE  Paired(m) <=> m \in Seq(Twins) /\ Map!InOrder(m)
<1>1. ASSUME Paired(m) PROVE m \in Seq(Twins) /\ Map!InOrder(m)
  <2>1. m \in Seq(Slot(Port)) /\ Sorted(m)
    BY <1>1 DEF Paired, Sound
  <2>2. \A i \in 1 .. Len(m) : m[i] \in Twins
    BY <1>1 DEF Paired, Entries
  <2>3. m \in Seq(Twins)
    BY <2>1, <2>2, ElementOfSeq
  <2> QED BY <2>1, <2>3, InOrderIs
<1>2. ASSUME m \in Seq(Twins), Map!InOrder(m) PROVE Paired(m)
  <2>1. m \in Seq(Slot(Port))
    BY <1>2, TwinsAre
  <2>2. Sorted(m)
    BY <1>2, <2>1, InOrderIs
  <2>3. \A d \in Entries(m) : d \in Twins
    BY <1>2, ElementOfSeq DEF Entries
  <2> QED BY <2>1, <2>2, <2>3 DEF Paired, Sound
<1> QED BY <1>1, <1>2

LEMMA MapsSound ==
  MapsTyped <=> Sound(portSocketMap, Fd) /\ Paired(portIdMap) /\ Paired(slotIdMap)
<1>1. MapsTyped <=> /\ Map!InOrder(portSocketMap) /\ Map!InOrder(portIdMap) /\ Map!InOrder(slotIdMap)
                    /\ portSocketMap \in Seq(Slot(Fd))
                    /\ portIdMap \in Seq(Twins) /\ slotIdMap \in Seq(Twins)
  <2>1. Slot(Fd) = [key : Port, object : Fd]
    BY DEF Slot
  <2>2. Twins = {Map!Entry(p, p) : p \in Port}
    BY DEF Twins
  <2> HIDE DEF Twins, Slot
  <2> QED BY <2>1, <2>2 DEF MapsTyped
<1>2. Sound(portSocketMap, Fd) <=> portSocketMap \in Seq(Slot(Fd)) /\ Map!InOrder(portSocketMap)
  BY InOrderIs DEF Sound
<1> QED BY <1>1, <1>2, PairedIs

LEMMA MapsSoundThen ==
  ASSUME Sound(portSocketMap', Fd), Paired(portIdMap'), Paired(slotIdMap')
  PROVE  MapsTyped'
<1>1. (MapsTyped <=> Sound(portSocketMap, Fd) /\ Paired(portIdMap) /\ Paired(slotIdMap))'
  BY MapsSound, PTL
<1> QED BY <1>1 DEF Sound, Paired

\* What the insertion of a port, and its removal, do to a map of ports to themselves.
LEMMA PairedInsert ==
  ASSUME NEW m, Paired(m), NEW p \in Port
  PROVE  Paired(Map!Insert(m, p, p)) /\ Map!Keys(Map!Insert(m, p, p)) = Map!Keys(m) \cup {p}
<1>1. Sound(m, Port)
  BY DEF Paired
<1>2. Entries(Map!Insert(m, p, p)) = Others(m, p) \cup {Map!Entry(p, p)}
  BY <1>1, InsertIs
<1>3. Others(m, p) \subseteq Entries(m)
  BY DEF Others
<1>4. Map!Entry(p, p) \in Twins
  BY DEF Twins
<1>5. \A d \in Entries(Map!Insert(m, p, p)) : d \in Twins
  BY <1>2, <1>3, <1>4 DEF Paired
<1>6. Sound(Map!Insert(m, p, p), Port)
  BY <1>1, InsertIs
<1>7. Map!Keys(Map!Insert(m, p, p)) = Map!Keys(m) \cup {p}
  BY <1>1, InsertIs
<1> QED BY <1>5, <1>6, <1>7 DEF Paired

LEMMA PairedRemove ==
  ASSUME NEW m, Paired(m), NEW p \in Port
  PROVE  Paired(Map!Remove(m, p)) /\ Map!Keys(Map!Remove(m, p)) = Map!Keys(m) \ {p}
<1>1. Sound(m, Port)
  BY DEF Paired
<1>2. Entries(Map!Remove(m, p)) = Others(m, p)
  BY <1>1, RemoveIs
<1>3. \A d \in Entries(Map!Remove(m, p)) : d \in Twins
  BY <1>2 DEF Paired, Others
<1>4. Sound(Map!Remove(m, p), Port)
  BY <1>1, RemoveIs
<1>5. Map!Keys(Map!Remove(m, p)) = Map!Keys(m) \ {p}
  BY <1>1, RemoveIs
<1> QED BY <1>3, <1>4, <1>5 DEF Paired

-----------------------------------------------------------------------------
(* Types *)

SignalSet == [kind : {"connected", "received", "disconnected"}, conn : Conn \cup {None}, n : Nat]

Label == {"idle", "putSocket", "putId", "putSlot", "close", "removeSocket", "removeId",
          "removeSlot", "send", "write", "visit", "getSocket", "recv", "drop"}

AtSet == [port : Port \cup {None}, fd : Fd \cup {NoFd}, conn : Conn \cup {None}, n : Nat]

FileSet == [kind : {"free", "raw", "listen", "conn"}, conn : Conn \cup {None}]

ConnSet == [state : {"none", "waiting", "open", "closed"}, fd : Fd \cup {NoFd},
            sent : Nat, read : Nat, owner : Port \cup {None}]

MessageSet == [port : Port, n : Nat]
RequestSet == [port : Listener, fd : Fd]
WrittenSet == [n : Nat, conn : Conn]

QueuesTyped ==
  outQueue \in Seq(MessageSet) /\ acceptRequests \in Seq(RequestSet) /\ toDisconnect \in Seq(Port)

SignalsTyped == signals \in [Port -> Seq(SignalSet)] /\ coming \in [Port -> Seq(SignalSet)]

ThreadsTyped == pc \in [Thread -> Label] /\ at \in [Thread -> AtSet]

FilesTyped == file \in [Fd -> FileSet] /\ conn \in [Conn -> ConnSet]

HistoryTyped ==
  /\ written \in [Port -> Seq(WrittenSet)]
  /\ calls \in Nat /\ asked \in [Port -> Nat] /\ left \subseteq Leaver /\ alive \subseteq Port

LoopTyped == slotLocked \in BOOLEAN /\ index \in 0 .. Cardinality(Port) + 1

LEMMA TypesAre ==
  TypeOK <=> /\ MapsTyped /\ QueuesTyped /\ SignalsTyped /\ ThreadsTyped /\ FilesTyped
             /\ HistoryTyped /\ LoopTyped
<1>1. SignalsTyped <=>
        {signals, coming} \subseteq
          [Port -> Seq([kind : {"connected", "received", "disconnected"},
                        conn : Conn \cup {None}, n : Nat])]
  BY DEF SignalsTyped, SignalSet
<1>2. ThreadsTyped <=>
        /\ pc \in [Thread -> {"idle", "putSocket", "putId", "putSlot", "close", "removeSocket",
                              "removeId", "removeSlot", "send", "write", "visit", "getSocket",
                              "recv", "drop"}]
        /\ at \in [Thread -> [port : Port \cup {None}, fd : Fd \cup {NoFd},
                              conn : Conn \cup {None}, n : Nat]]
  BY DEF ThreadsTyped, Label, AtSet
<1>3. FilesTyped <=>
        /\ file \in [Fd -> [kind : {"free", "raw", "listen", "conn"}, conn : Conn \cup {None}]]
        /\ conn \in [Conn -> [state : {"none", "waiting", "open", "closed"}, fd : Fd \cup {NoFd},
                              sent : Nat, read : Nat, owner : Port \cup {None}]]
  BY DEF FilesTyped, FileSet, ConnSet
<1>4. QueuesTyped <=> /\ outQueue \in Seq([port : Port, n : Nat])
                      /\ acceptRequests \in Seq([port : Listener, fd : Fd])
                      /\ toDisconnect \in Seq(Port)
  BY DEF QueuesTyped, MessageSet, RequestSet
<1>5. HistoryTyped <=>
        /\ written \in [Port -> Seq([n : Nat, conn : Conn])]
        /\ calls \in Nat /\ asked \in [Port -> Nat] /\ left \subseteq Leaver /\ alive \subseteq Port
  BY DEF HistoryTyped, WrittenSet
<1> QED BY <1>1, <1>2, <1>3, <1>4, <1>5, Zenon DEF TypeOK, MapsTyped, LoopTyped

\* The constants.
LEMMA Numbers ==
  /\ Listener \subseteq Port /\ Leaver \subseteq Port /\ None \notin Port /\ NoFd \notin Fd
  /\ None \notin Conn /\ Conn \subseteq Nat /\ Fd \subseteq Nat /\ IsFiniteSet(Fd)
  /\ None = 0 /\ NoFd = -1 /\ Conn = 1 .. MaxConn
BY PortAssumption, FdAssumption, TcpBoundAssumption DEF None, NoFd, Conn

LEMMA SocketIs ==
  ASSUME MapsTyped, NEW p \in Port
  PROVE  /\ p \in Sockets <=> GetSocket(p) # NoFd
         /\ p \in Sockets => GetSocket(p) \in Fd
<1>1. Sound(portSocketMap, Fd)
  BY MapsSound
<1>2. /\ p \in Map!Keys(portSocketMap) => Map!GetObject(portSocketMap, p) \in Fd
      /\ p \notin Map!Keys(portSocketMap) => Map!GetObject(portSocketMap, p) = NoFd
  BY <1>1, GetIs
<1> QED BY <1>2, Numbers DEF Sockets, GetSocket

LEMMA SocketsAre ==
  MapsTyped => \A q \in Port : /\ q \in Sockets <=> GetSocket(q) # NoFd
                               /\ q \in Sockets => GetSocket(q) \in Fd
BY SocketIs

LEMMA SocketIsThen ==
  ASSUME MapsTyped', NEW p \in Port
  PROVE  /\ p \in Sockets' <=> GetSocket(p)' # NoFd
         /\ p \in Sockets' => GetSocket(p)' \in Fd
<1>1. (MapsTyped => \A q \in Port : /\ q \in Sockets <=> GetSocket(q) # NoFd
                                    /\ q \in Sockets => GetSocket(q) \in Fd)'
  BY SocketsAre, PTL
<1> QED BY <1>1

LEMMA KeysInPort == ASSUME MapsTyped PROVE Sockets \cup Ids \cup Slots \subseteq Port
<1>1. Sound(portSocketMap, Fd) /\ Sound(portIdMap, Port) /\ Sound(slotIdMap, Port)
  BY MapsSound DEF Paired
<1> QED BY <1>1, KeysAre DEF Sockets, Ids, Slots

-----------------------------------------------------------------------------
(* Steps of the threads from place to place. *)

LEMMA UserGoes ==
  ASSUME ThreadsTyped, NEW label \in Label, Goto("user", label)
  PROVE  pc' \in [Thread -> Label] /\ pc'["user"] = label /\ pc'["service"] = pc["service"]
BY DEF ThreadsTyped, Goto, Thread

LEMMA ServiceGoes ==
  ASSUME ThreadsTyped, NEW label \in Label, Goto("service", label)
  PROVE  pc' \in [Thread -> Label] /\ pc'["service"] = label /\ pc'["user"] = pc["user"]
BY DEF ThreadsTyped, Goto, Thread

LEMMA UserEnters ==
  ASSUME ThreadsTyped, NEW label \in Label, NEW p \in Port \cup {None}, NEW fd \in Fd \cup {NoFd},
         NEW c \in Conn \cup {None}, Enter(label, p, fd, c)
  PROVE  /\ ThreadsTyped'
         /\ pc'["user"] = label /\ pc'["service"] = pc["service"] /\ at'["service"] = at["service"]
         /\ at'["user"].port = p /\ at'["user"].fd = fd /\ at'["user"].conn = c
<1>1. pc' \in [Thread -> Label] /\ pc'["user"] = label /\ pc'["service"] = pc["service"]
  BY UserGoes DEF Enter
<1> DEFINE new == [port |-> p, fd |-> fd, conn |-> c, n |-> 0]
<1>2. new \in AtSet /\ new.port = p /\ new.fd = fd /\ new.conn = c
  BY DEF AtSet
<1>3. at' = [at EXCEPT !["user"] = new]
  BY DEF Enter
<1> HIDE DEF new
<1>4. at' \in [Thread -> AtSet] /\ at'["user"] = new /\ at'["service"] = at["service"]
  BY <1>2, <1>3 DEF ThreadsTyped, Thread
<1> QED BY <1>1, <1>2, <1>4 DEF ThreadsTyped

LEMMA ServiceUses ==
  ASSUME ThreadsTyped, NEW p \in Port \cup {None}, NEW fd \in Fd \cup {NoFd}, Using(p, fd)
  PROVE  /\ at' \in [Thread -> AtSet] /\ at'["user"] = at["user"]
         /\ at'["service"].port = p /\ at'["service"].fd = fd /\ at'["service"].conn = None
<1> DEFINE new == [port |-> p, fd |-> fd, conn |-> None, n |-> 0]
<1>2. new \in AtSet /\ new.port = p /\ new.fd = fd /\ new.conn = None
  BY Numbers DEF AtSet
<1>3. at' = [at EXCEPT !["service"] = new]
  BY DEF Using
<1> HIDE DEF new
<1>4. at' \in [Thread -> AtSet] /\ at'["service"] = new /\ at'["user"] = at["user"]
  BY <1>2, <1>3 DEF ThreadsTyped, Thread
<1> QED BY <1>2, <1>4

-----------------------------------------------------------------------------
(* What the steps do. *)

Typed == /\ MapsTyped /\ QueuesTyped /\ SignalsTyped /\ ThreadsTyped /\ FilesTyped
         /\ HistoryTyped /\ LoopTyped

LEMMA TypedIs == TypeOK <=> Typed
BY TypesAre DEF Typed

LEMMA NextFdIs ==
  ASSUME FreeFds # {}
  PROVE  NextFd \in Fd /\ file[NextFd] = Free
<1>1. FreeFds \subseteq Nat /\ FreeFds \subseteq Fd
  BY Numbers DEF FreeFds
<1>2. NextFd \in FreeFds
  BY <1>1, MinIs DEF NextFd
<1> QED BY <1>1, <1>2 DEF FreeFds

LEMMA FreeIs == Free.kind = "free" /\ Free.conn = None /\ Free \in FileSet
BY DEF Free, FileSet

LEMMA NoConnIs ==
  /\ NoConn.state = "none" /\ NoConn.fd = NoFd /\ NoConn.sent = 0 /\ NoConn.read = 0
  /\ NoConn.owner = None /\ NoConn \in ConnSet
BY Numbers DEF NoConn, ConnSet

\* All descriptors but one refer to what they did, and this one to something else.
FileBecomes(fd, kind, c) ==
  /\ file'[fd].kind = kind /\ file'[fd].conn = c
  /\ \A f \in Fd : f # fd => file'[f] = file[f]

\* All connections but one are what they were.
OthersStay(c) == \A d \in Conn : d # c => conn'[d] = conn[d]

LEMMA FileStep ==
  ASSUME FilesTyped, NEW fd \in Fd, NEW kind \in {"free", "raw", "listen", "conn"},
         NEW c \in Conn \cup {None}, file' = [file EXCEPT ![fd] = [kind |-> kind, conn |-> c]]
  PROVE  file' \in [Fd -> FileSet] /\ FileBecomes(fd, kind, c)
<1> DEFINE new == [kind |-> kind, conn |-> c]
<1>1. new \in FileSet /\ new.kind = kind /\ new.conn = c
  BY DEF FileSet
<1>2. file' = [file EXCEPT ![fd] = new]
  OBVIOUS
<1> HIDE DEF new
<1> QED BY <1>1, <1>2 DEF FilesTyped, FileBecomes

LEMMA ConnStep ==
  ASSUME FilesTyped, NEW c \in Conn, NEW new \in ConnSet, conn' = [conn EXCEPT ![c] = new]
  PROVE  conn' \in [Conn -> ConnSet] /\ OthersStay(c) /\ conn'[c] = new
BY DEF FilesTyped, OthersStay

\* What the capsule of p knows when it connects again.
Waited(p) ==
  Patient => \A c \in Conn : conn[c].owner = p =>
                Signal("disconnected", c, 0) \in Range(signals[p])

MayBegin(p) ==
  pc["user"] = "idle" /\ p \in alive /\ p \notin left /\ p \notin Sockets /\ Waited(p)

LEMMA UnconnectedIs ==
  ASSUME MapsTyped, NEW p \in Port, Unconnected(p)
  PROVE  MayBegin(p)
BY SocketIs DEF Unconnected, MayCall, Waited, MayBegin

LEMMA HasSocketIs ==
  ASSUME MapsTyped, NEW p \in Port, HasSocket(p)
  PROVE  pc["user"] = "idle" /\ p \in alive /\ p \in Sockets /\ GetSocket(p) \in Fd
BY SocketIs DEF HasSocket, MayCall

\* The capsules' thread begins to put a port into the maps.
Begins(p, fd, c) ==
  /\ MayBegin(p)
  /\ ThreadsTyped'
  /\ pc'["user"] = "putSocket" /\ pc'["service"] = pc["service"]
  /\ at'["user"].port = p /\ at'["user"].fd = fd /\ at'["user"].conn = c
  /\ at'["service"] = at["service"]
  /\ UNCHANGED <<maps, queues, loop, inbox, calls, alive, history, ended>>

LEMMA ConnectDoes ==
  ASSUME MapsTyped, ThreadsTyped, FilesTyped, NEW p \in Port, Connect(p)
  PROVE  \E fd \in Fd, c \in Conn :
           /\ Begins(p, fd, c) /\ p \notin Listener
           /\ file[fd] = Free /\ conn[c] = NoConn
           /\ FilesTyped' /\ FileBecomes(fd, "conn", c) /\ OthersStay(c)
           /\ conn'[c].state = "open" /\ conn'[c].owner = p /\ conn'[c].fd = NoFd
           /\ conn'[c].sent = 0 /\ conn'[c].read = 0
<1>1. PICK c \in NextConn :
        /\ file' = [file EXCEPT ![NextFd] = [kind |-> "conn", conn |-> c]]
        /\ conn' = [conn EXCEPT ![c] = [NoConn EXCEPT !.state = "open", !.owner = p]]
        /\ Enter("putSocket", p, NextFd, c)
  BY DEF Connect
<1>2. c \in Conn /\ conn[c] = NoConn
  BY DEF NextConn
<1>3. NextFd \in Fd /\ file[NextFd] = Free
  BY NextFdIs DEF Connect
<1>4. file' \in [Fd -> FileSet] /\ FileBecomes(NextFd, "conn", c)
  <2> DEFINE fd == NextFd
  <2>1. fd \in Fd /\ file' = [file EXCEPT ![fd] = [kind |-> "conn", conn |-> c]]
    BY <1>1, <1>3
  <2> HIDE DEF fd
  <2>2. file' \in [Fd -> FileSet] /\ FileBecomes(fd, "conn", c)
    BY <1>2, <2>1, FileStep
  <2> QED BY <2>2 DEF fd
<1> DEFINE new == [NoConn EXCEPT !.state = "open", !.owner = p]
<1>5. /\ new \in ConnSet /\ new.state = "open" /\ new.owner = p /\ new.fd = NoFd
      /\ new.sent = 0 /\ new.read = 0
  BY NoConnIs DEF NoConn, ConnSet
<1>6. conn' = [conn EXCEPT ![c] = new]
  BY <1>1
<1> HIDE DEF new
<1>7. conn' \in [Conn -> ConnSet] /\ OthersStay(c) /\ conn'[c] = new
  BY <1>2, <1>5, <1>6, ConnStep
<1>8. Begins(p, NextFd, c)
  <2>1. MayBegin(p)
    BY UnconnectedIs DEF Connect
  <2>2. "putSocket" \in Label /\ p \in Port \cup {None} /\ NextFd \in Fd \cup {NoFd}
        /\ c \in Conn \cup {None}
    BY <1>2, <1>3 DEF Label
  <2>3. Enter("putSocket", p, NextFd, c)
    BY <1>1
  <2>4. /\ ThreadsTyped'
        /\ pc'["user"] = "putSocket" /\ pc'["service"] = pc["service"]
        /\ at'["service"] = at["service"]
        /\ at'["user"].port = p /\ at'["user"].fd = NextFd /\ at'["user"].conn = c
    BY <2>2, <2>3, UserEnters
  <2>5. UNCHANGED <<maps, queues, loop, inbox, calls, alive, history, ended>>
    BY DEF Connect
  <2> QED BY <2>1, <2>4, <2>5 DEF Begins
<1>9. p \notin Listener
  BY DEF Connect
<1>10. FilesTyped'
  BY <1>4, <1>7 DEF FilesTyped
<1> HIDE DEF Begins, FileBecomes, OthersStay
<1> QED BY <1>2, <1>3, <1>4, <1>5, <1>7, <1>8, <1>9, <1>10

LEMMA ListenDoes ==
  ASSUME MapsTyped, ThreadsTyped, FilesTyped, NEW p \in Port, Listen(p)
  PROVE  \E fd \in Fd :
           /\ Begins(p, fd, None) /\ p \in Listener
           /\ file[fd] = Free
           /\ FilesTyped' /\ FileBecomes(fd, "listen", None) /\ conn' = conn
<1> DEFINE fd == NextFd
<1>1. fd \in Fd /\ file[fd] = Free
  BY NextFdIs DEF Listen
<1>2. file' = [file EXCEPT ![fd] = [Free EXCEPT !.kind = "listen"]]
  BY DEF Listen
<1>3. Enter("putSocket", p, fd, None)
  BY DEF Listen
<1> HIDE DEF fd
<1>4. [Free EXCEPT !.kind = "listen"] = [kind |-> "listen", conn |-> None]
  BY DEF Free
<1>5. file' \in [Fd -> FileSet] /\ FileBecomes(fd, "listen", None)
  <2>1. None \in Conn \cup {None}
    OBVIOUS
  <2>2. file' = [file EXCEPT ![fd] = [kind |-> "listen", conn |-> None]]
    BY <1>2, <1>4
  <2> QED BY <1>1, <2>1, <2>2, FileStep
<1>6. Begins(p, fd, None)
  <2>1. MayBegin(p)
    BY UnconnectedIs DEF Listen
  <2>2. "putSocket" \in Label /\ p \in Port \cup {None} /\ fd \in Fd \cup {NoFd}
        /\ None \in Conn \cup {None}
    BY <1>1 DEF Label
  <2>3. /\ ThreadsTyped'
        /\ pc'["user"] = "putSocket" /\ pc'["service"] = pc["service"]
        /\ at'["service"] = at["service"]
        /\ at'["user"].port = p /\ at'["user"].fd = fd /\ at'["user"].conn = None
    BY <1>3, <2>2, UserEnters
  <2>4. UNCHANGED <<maps, queues, loop, inbox, calls, alive, history, ended>>
    BY DEF Listen
  <2> QED BY <2>1, <2>3, <2>4 DEF Begins
<1>7. p \in Listener /\ conn' = conn
  BY DEF Listen
<1>8. FilesTyped'
  BY <1>5, <1>7 DEF FilesTyped
<1> HIDE DEF Begins, FileBecomes
<1> QED BY <1>1, <1>5, <1>6, <1>7, <1>8

LEMMA FailDoes ==
  ASSUME FilesTyped, HistoryTyped, NEW p \in Port, Fail(p)
  PROVE  /\ FilesTyped' /\ HistoryTyped'
         /\ \A f \in Fd : \/ file'[f] = file[f]
                          \/ file[f] = Free /\ file'[f].kind = "raw" /\ file'[f].conn = None
         /\ calls' = calls + 1
         /\ UNCHANGED <<maps, queues, conn, loop, inbox, alive, pc, at, history, ended>>
<1> DEFINE raw == [Free EXCEPT !.kind = "raw"]
<1>1. raw \in FileSet /\ raw.kind = "raw" /\ raw.conn = None
  BY DEF Free, FileSet
<1>2. file' = [fd \in Fd |-> IF fd = NextFd THEN raw ELSE file[fd]]
  BY DEF Fail
<1> HIDE DEF raw
<1>3. \A fd \in Fd : fd = NextFd => file[fd] = Free
  <2>1. CASE FreeFds = {}
    BY <2>1, Numbers DEF NextFd
  <2>2. CASE FreeFds # {}
    BY <2>2, NextFdIs
  <2> QED BY <2>1, <2>2
<1>4. file' \in [Fd -> FileSet]
  BY <1>1, <1>2 DEF FilesTyped
<1>5. \A f \in Fd : \/ file'[f] = file[f]
                    \/ file[f] = Free /\ file'[f].kind = "raw" /\ file'[f].conn = None
  BY <1>1, <1>2, <1>3
<1>6. UNCHANGED <<maps, queues, conn, loop, inbox, alive, pc, at, history, ended>> /\ calls' = calls + 1
  BY DEF Fail, Count
<1>7. FilesTyped'
  BY <1>4, <1>6 DEF FilesTyped
<1>8. HistoryTyped'
  BY <1>6 DEF HistoryTyped, history
<1> QED BY <1>5, <1>6, <1>7, <1>8

LEMMA AttachDoes ==
  ASSUME MapsTyped, ThreadsTyped, FilesTyped, NEW p \in Port, NEW fd \in Fd, Attach(p, fd)
  PROVE  \E c \in Conn :
           /\ Begins(p, fd, None) /\ p \notin Listener
           /\ ConnOf(fd) = c /\ conn[c].owner = None
           /\ FilesTyped' /\ file' = file /\ OthersStay(c)
           /\ conn'[c].state = conn[c].state /\ conn'[c].owner = p /\ conn'[c].fd = conn[c].fd
           /\ conn'[c].sent = conn[c].sent /\ conn'[c].read = conn[c].read
<1>1. PICK c \in Conn : /\ ConnOf(fd) = c /\ conn[c].owner = None
                        /\ conn' = [conn EXCEPT ![c].owner = p]
  BY DEF Attach
<1> DEFINE new == [conn[c] EXCEPT !.owner = p]
<1>2. conn[c] \in ConnSet
  BY DEF FilesTyped
<1>3. /\ new \in ConnSet /\ new.owner = p /\ new.state = conn[c].state /\ new.fd = conn[c].fd
      /\ new.sent = conn[c].sent /\ new.read = conn[c].read
  BY <1>2 DEF ConnSet
<1>4. conn' = [conn EXCEPT ![c] = new]
  BY <1>1 DEF FilesTyped
<1> HIDE DEF new
<1>5. conn' \in [Conn -> ConnSet] /\ OthersStay(c) /\ conn'[c] = new
  BY <1>3, <1>4, ConnStep
<1>6. Begins(p, fd, None)
  <2>1. MayBegin(p)
    BY UnconnectedIs DEF Attach
  <2>2. "putSocket" \in Label /\ p \in Port \cup {None} /\ fd \in Fd \cup {NoFd}
        /\ None \in Conn \cup {None}
    BY DEF Label
  <2>3. Enter("putSocket", p, fd, None)
    BY DEF Attach
  <2>4. /\ ThreadsTyped'
        /\ pc'["user"] = "putSocket" /\ pc'["service"] = pc["service"]
        /\ at'["service"] = at["service"]
        /\ at'["user"].port = p /\ at'["user"].fd = fd /\ at'["user"].conn = None
    BY <2>2, <2>3, UserEnters
  <2>5. UNCHANGED <<maps, queues, loop, inbox, calls, alive, history, ended>>
    BY DEF Attach
  <2> QED BY <2>1, <2>4, <2>5 DEF Begins
<1>7. p \notin Listener /\ file' = file
  BY DEF Attach
<1>8. FilesTyped'
  BY <1>5, <1>7 DEF FilesTyped
<1> HIDE DEF Begins, OthersStay
<1> QED BY <1>1, <1>3, <1>5, <1>6, <1>7, <1>8

\* A map of the service is unchanged.
LEMMA MapsKept ==
  ASSUME UNCHANGED maps
  PROVE  /\ MapsTyped' <=> MapsTyped
         /\ Sockets' = Sockets /\ Ids' = Ids /\ Slots' = Slots
         /\ \A p : GetSocket(p)' = GetSocket(p)
BY DEF maps, MapsTyped, Sockets, Ids, Slots, GetSocket

LEMMA PutSocketDoes ==
  ASSUME MapsTyped, ThreadsTyped, Places, PutSocket, NEW p, p = at["user"].port
  PROVE  /\ pc["user"] = "putSocket" /\ p \in Port
         /\ ThreadsTyped' /\ pc'["user"] = "putId" /\ pc'["service"] = pc["service"] /\ at' = at
         /\ MapsTyped' /\ Sockets' = Sockets \cup {p} /\ Ids' = Ids /\ Slots' = Slots
         /\ GetSocket(p)' = at["user"].fd
         /\ \A q \in Port : q # p => GetSocket(q)' = GetSocket(q)
         /\ slotIdMap' = slotIdMap
         /\ UNCHANGED <<queues, network, loop, inbox, calls, alive, history, ended>>
<1>1. pc["user"] = "putSocket" /\ p \in Port /\ at["user"].fd \in Fd
  BY DEF PutSocket, Places, Thread
<1>2. pc' \in [Thread -> Label] /\ pc'["user"] = "putId" /\ pc'["service"] = pc["service"]
  <2>1. "putId" \in Label /\ Goto("user", "putId")
    BY DEF Label, PutSocket
  <2> QED BY <2>1, UserGoes
<1>3. at' = at
  BY DEF PutSocket
<1>4. ThreadsTyped'
  BY <1>2, <1>3 DEF ThreadsTyped
<1> DEFINE fd == at["user"].fd
<1>5. portSocketMap' = Map!Insert(portSocketMap, p, fd)
  BY DEF PutSocket, Put
<1>6. Sound(portSocketMap, Fd) /\ fd \in Fd
  BY <1>1, MapsSound
<1> HIDE DEF fd
<1>7. /\ Sound(portSocketMap', Fd)
      /\ Map!Keys(portSocketMap') = Map!Keys(portSocketMap) \cup {p}
      /\ Map!GetObject(portSocketMap', p) = fd
      /\ \A q \in Port : q # p => Map!GetObject(portSocketMap', q) = Map!GetObject(portSocketMap, q)
  BY <1>1, <1>5, <1>6, InsertIs
<1>8. portIdMap' = portIdMap /\ slotIdMap' = slotIdMap
  BY DEF PutSocket
<1>9. MapsTyped'
  <2>1. Paired(portIdMap) /\ Paired(slotIdMap)
    BY MapsSound
  <2>2. Paired(portIdMap') /\ Paired(slotIdMap')
    BY <1>8, <2>1
  <2> QED BY <1>7, <2>2, MapsSoundThen
<1>10. Sockets' = Sockets \cup {p} /\ Ids' = Ids /\ Slots' = Slots
  BY <1>7, <1>8 DEF Sockets, Ids, Slots
<1>11. GetSocket(p)' = fd /\ \A q \in Port : q # p => GetSocket(q)' = GetSocket(q)
  BY <1>7 DEF GetSocket
<1>12. UNCHANGED <<queues, network, loop, inbox, calls, alive, history, ended>>
  BY DEF PutSocket
<1> QED BY <1>1, <1>2, <1>3, <1>4, <1>8, <1>9, <1>10, <1>11, <1>12 DEF fd

\* A thread goes to another place, and the other one stays where it is.
LEMMA Goes ==
  ASSUME ThreadsTyped, NEW t \in Thread, NEW label \in Label, Goto(t, label)
  PROVE  /\ pc' \in [Thread -> Label] /\ pc'[t] = label
         /\ \A u \in Thread : u # t => pc'[u] = pc[u]
BY DEF ThreadsTyped, Goto

LEMMA PutIdDoes ==
  ASSUME MapsTyped, ThreadsTyped, Places, PutId, NEW p, p = at["user"].port
  PROVE  /\ pc["user"] = "putId" /\ p \in Port
         /\ ThreadsTyped' /\ pc'["user"] = "putSlot" /\ pc'["service"] = pc["service"] /\ at' = at
         /\ MapsTyped' /\ Sockets' = Sockets /\ Ids' = Ids \cup {p} /\ Slots' = Slots
         /\ portSocketMap' = portSocketMap /\ slotIdMap' = slotIdMap
         /\ UNCHANGED <<queues, network, loop, inbox, calls, alive, history, ended>>
<1>1. pc["user"] = "putId" /\ p \in Port
  BY DEF PutId, Places, Thread
<1>2. pc' \in [Thread -> Label] /\ pc'["user"] = "putSlot" /\ pc'["service"] = pc["service"]
  <2>1. "putSlot" \in Label /\ Goto("user", "putSlot")
    BY DEF Label, PutId
  <2> QED BY <2>1, UserGoes
<1>3. at' = at
  BY DEF PutId
<1>4. ThreadsTyped'
  BY <1>2, <1>3 DEF ThreadsTyped
<1>5. portIdMap' = Map!Insert(portIdMap, p, p)
  BY DEF PutId, Put
<1>6. Sound(portSocketMap, Fd) /\ Paired(portIdMap) /\ Paired(slotIdMap)
  BY MapsSound
<1>7. Paired(portIdMap') /\ Map!Keys(portIdMap') = Map!Keys(portIdMap) \cup {p}
  BY <1>1, <1>5, <1>6, PairedInsert
<1>8. portSocketMap' = portSocketMap /\ slotIdMap' = slotIdMap
  BY DEF PutId
<1>9. MapsTyped'
  <2>1. Sound(portSocketMap', Fd) /\ Paired(slotIdMap')
    BY <1>6, <1>8
  <2> QED BY <1>7, <2>1, MapsSoundThen
<1>10. Sockets' = Sockets /\ Ids' = Ids \cup {p} /\ Slots' = Slots
  BY <1>7, <1>8 DEF Sockets, Ids, Slots
<1>11. UNCHANGED <<queues, network, loop, inbox, calls, alive, history, ended>>
  BY DEF PutId
<1> QED BY <1>1, <1>2, <1>3, <1>4, <1>8, <1>9, <1>10, <1>11

\* A signal that the capsules' thread delivers is in the queue of the capsule at once;
\* one of the service's thread is in the incoming queue.
Tells(p, signal) ==
  /\ signals'[p] = Append(signals[p], signal) /\ coming' = coming
  /\ \A q \in Port : q # p => signals'[q] = signals[q]

Sends(p, log) ==
  /\ coming'[p] = coming[p] \o log /\ signals' = signals
  /\ \A q \in Port : q # p => coming'[q] = coming[q]

LEMMA DeliverDoes ==
  ASSUME SignalsTyped, NEW t \in Thread, NEW p \in Port, NEW signal \in SignalSet,
         Deliver(t, p, signal)
  PROVE  /\ SignalsTyped'
         /\ t = "user" => Tells(p, signal)
         /\ t = "service" => Sends(p, <<signal>>)
<1>1. CASE t = "user"
  <2>1. signals' = [signals EXCEPT ![p] = Append(@, signal)] /\ coming' = coming
    BY <1>1 DEF Deliver
  <2>2. Append(signals[p], signal) \in Seq(SignalSet)
    BY DEF SignalsTyped
  <2> QED BY <1>1, <2>1, <2>2 DEF SignalsTyped, Tells
<1>2. CASE t = "service"
  <2>1. coming' = [coming EXCEPT ![p] = Append(@, signal)] /\ signals' = signals
    BY <1>2 DEF Deliver
  <2>2. coming[p] \in Seq(SignalSet)
    BY DEF SignalsTyped
  <2>3. Append(coming[p], signal) \in Seq(SignalSet)
    BY <2>2
  <2>4. Append(coming[p], signal) = coming[p] \o <<signal>>
    BY <2>2, AppendIsConcat
  <2>5. SignalsTyped'
    BY <2>1, <2>3 DEF SignalsTyped
  <2>6. Sends(p, <<signal>>)
    BY <2>1, <2>4 DEF SignalsTyped, Sends
  <2> QED BY <1>2, <2>5, <2>6
<1> QED BY <1>1, <1>2 DEF Thread

LEMMA PutSlotDoes ==
  ASSUME MapsTyped, ThreadsTyped, SignalsTyped, Places, PutSlot, NEW p, p = at["user"].port
  PROVE  /\ pc["user"] = "putSlot" /\ p \in Port /\ ~slotLocked
         /\ ThreadsTyped' /\ pc'["user"] = "idle" /\ pc'["service"] = pc["service"]
         /\ at'["service"] = at["service"]
         /\ MapsTyped' /\ Sockets' = Sockets /\ Ids' = Ids /\ Slots' = Slots \cup {p}
         /\ portSocketMap' = portSocketMap
         /\ SignalsTyped'
         /\ at["user"].conn = None => UNCHANGED inbox
         /\ at["user"].conn # None => Tells(p, Signal("connected", at["user"].conn, 0))
         /\ UNCHANGED <<queues, network, loop, calls, alive, history, ended>>
<1>1. pc["user"] = "putSlot" /\ p \in Port /\ ~slotLocked
  BY DEF PutSlot, Places, Thread
<1>2. /\ ThreadsTyped' /\ pc'["user"] = "idle" /\ pc'["service"] = pc["service"]
      /\ at'["service"] = at["service"]
  <2>1. "idle" \in Label /\ None \in Port \cup {None} /\ NoFd \in Fd \cup {NoFd}
        /\ None \in Conn \cup {None} /\ Enter("idle", None, NoFd, None)
    BY DEF Label, PutSlot, Return
  <2> QED BY <2>1, UserEnters
<1>3. slotIdMap' = Map!Insert(slotIdMap, p, p)
  BY DEF PutSlot, Put
<1>4. Sound(portSocketMap, Fd) /\ Paired(portIdMap) /\ Paired(slotIdMap)
  BY MapsSound
<1>5. Paired(slotIdMap') /\ Map!Keys(slotIdMap') = Map!Keys(slotIdMap) \cup {p}
  BY <1>1, <1>3, <1>4, PairedInsert
<1>6. portSocketMap' = portSocketMap /\ portIdMap' = portIdMap
  BY DEF PutSlot
<1>7. MapsTyped'
  <2>1. Sound(portSocketMap', Fd) /\ Paired(portIdMap')
    BY <1>4, <1>6
  <2> QED BY <1>5, <2>1, MapsSoundThen
<1>8. Sockets' = Sockets /\ Ids' = Ids /\ Slots' = Slots \cup {p}
  BY <1>5, <1>6 DEF Sockets, Ids, Slots
<1>9. UNCHANGED <<queues, network, loop, calls, alive, history, ended>>
  BY DEF PutSlot
<1> DEFINE c == at["user"].conn
<1>10. c \in Conn \cup {None}
  BY DEF ThreadsTyped, Thread, AtSet
<1>11. /\ c = None => UNCHANGED inbox
       /\ c # None => Deliver("user", p, Signal("connected", c, 0))
  BY DEF PutSlot
<1> HIDE DEF c
<1>12. /\ SignalsTyped' /\ (c = None => UNCHANGED inbox)
       /\ c # None => Tells(p, Signal("connected", c, 0))
  <2>1. CASE c = None
    BY <1>11, <2>1 DEF inbox, SignalsTyped
  <2>2. CASE c # None
    <3>1. Signal("connected", c, 0) \in SignalSet /\ "user" \in Thread
      BY <1>10 DEF Signal, SignalSet, Thread
    <3> QED BY <1>1, <1>11, <2>2, <3>1, DeliverDoes
  <2> QED BY <2>1, <2>2
<1> QED BY <1>1, <1>2, <1>6, <1>7, <1>8, <1>9, <1>12 DEF c

\* The operating system closes a descriptor; clients that wait at it are turned away.
LEMMA CloseSocketDoes ==
  ASSUME ThreadsTyped, FilesTyped, Places, NEW t \in Thread, CloseSocket(t),
         NEW p, p = at[t].port, NEW fd, fd = at[t].fd
  PROVE  /\ pc[t] = "close" /\ p \in Port /\ fd \in Fd
         /\ ThreadsTyped' /\ pc'[t] = "removeSocket"
         /\ at'[t].port = p /\ at'[t].fd = fd /\ at'[t].conn = file[fd].conn
         /\ \A u \in Thread : u # t => pc'[u] = pc[u] /\ at'[u] = at[u]
         /\ FilesTyped' /\ FileBecomes(fd, "free", None)
         /\ \A c \in Conn :
              /\ conn'[c].fd = conn[c].fd /\ conn'[c].sent = conn[c].sent
              /\ conn'[c].read = conn[c].read /\ conn'[c].owner = conn[c].owner
              /\ \/ conn'[c] = conn[c]
                 \/ conn[c].state = "waiting" /\ conn[c].fd = fd /\ conn'[c].state = "closed"
         /\ UNCHANGED <<maps, queues, loop, inbox, calls, alive, history, ended>>
<1>1. pc[t] = "close" /\ p \in Port /\ fd \in Fd
  BY DEF CloseSocket, Places
<1>2. pc' \in [Thread -> Label] /\ pc'[t] = "removeSocket" /\ \A u \in Thread : u # t => pc'[u] = pc[u]
  <2>1. "removeSocket" \in Label /\ Goto(t, "removeSocket")
    BY DEF Label, CloseSocket
  <2> QED BY <2>1, Goes
<1> DEFINE new == [at[t] EXCEPT !.conn = ConnOf(fd)]
<1>3. ConnOf(fd) = file[fd].conn /\ file[fd].conn \in Conn \cup {None}
  BY <1>1 DEF ConnOf, FilesTyped, FileSet
<1>4. new \in AtSet /\ new.port = p /\ new.fd = fd /\ new.conn = file[fd].conn
  <2>1. at[t] \in AtSet
    BY DEF ThreadsTyped
  <2> QED BY <1>3, <2>1 DEF AtSet
<1>5. at' = [at EXCEPT ![t] = new]
  BY DEF CloseSocket, ThreadsTyped
<1> HIDE DEF new
<1>6. at' \in [Thread -> AtSet] /\ at'[t] = new /\ \A u \in Thread : u # t => at'[u] = at[u]
  BY <1>4, <1>5 DEF ThreadsTyped
<1>7. ThreadsTyped'
  BY <1>2, <1>6 DEF ThreadsTyped
<1>8. Close(fd)
  BY DEF CloseSocket
<1>9. file' = [file EXCEPT ![fd] = Free]
  BY <1>1, <1>8 DEF Close
<1>10. file' \in [Fd -> FileSet] /\ FileBecomes(fd, "free", None)
  BY <1>1, <1>9, FreeIs DEF FilesTyped, FileBecomes
<1>11. conn' = [c \in Conn |-> IF c \in Waiting(fd)
                                 THEN [conn[c] EXCEPT !.state = "closed"] ELSE conn[c]]
  BY <1>1, <1>8 DEF Close
<1>12. ASSUME NEW c \in Conn
       PROVE  /\ conn'[c] \in ConnSet
              /\ conn'[c].fd = conn[c].fd /\ conn'[c].sent = conn[c].sent
              /\ conn'[c].read = conn[c].read /\ conn'[c].owner = conn[c].owner
              /\ \/ conn'[c] = conn[c]
                 \/ conn[c].state = "waiting" /\ conn[c].fd = fd /\ conn'[c].state = "closed"
  <2>1. conn[c] \in ConnSet
    BY DEF FilesTyped
  <2>2. CASE c \in Waiting(fd)
    <3>1. conn'[c] = [conn[c] EXCEPT !.state = "closed"]
      BY <1>11, <2>2
    <3>2. conn[c].state = "waiting" /\ conn[c].fd = fd
      BY <2>2 DEF Waiting
    <3> QED BY <2>1, <3>1, <3>2 DEF ConnSet
  <2>3. CASE c \notin Waiting(fd)
    BY <1>11, <2>1, <2>3
  <2> QED BY <2>2, <2>3
<1>13. conn' \in [Conn -> ConnSet]
  <2>1. conn' = [c \in Conn |-> conn'[c]]
    BY <1>11
  <2> QED BY <1>12, <2>1
<1>14. FilesTyped'
  BY <1>10, <1>13 DEF FilesTyped
<1>15. UNCHANGED <<maps, queues, loop, inbox, calls, alive, history, ended>>
  BY DEF CloseSocket
<1> HIDE DEF FileBecomes
<1> QED BY <1>1, <1>2, <1>4, <1>6, <1>7, <1>10, <1>12, <1>14, <1>15

LEMMA RemoveSocketDoes ==
  ASSUME MapsTyped, ThreadsTyped, Places, NEW t \in Thread, RemoveSocket(t),
         NEW p, p = at[t].port
  PROVE  /\ pc[t] = "removeSocket" /\ p \in Port
         /\ ThreadsTyped' /\ pc'[t] = "removeId" /\ at' = at
         /\ \A u \in Thread : u # t => pc'[u] = pc[u]
         /\ MapsTyped' /\ Sockets' = Sockets \ {p} /\ Ids' = Ids /\ Slots' = Slots
         /\ \A q \in Port : q # p => GetSocket(q)' = GetSocket(q)
         /\ slotIdMap' = slotIdMap
         /\ UNCHANGED <<queues, network, loop, inbox, calls, alive, history, ended>>
<1>1. pc[t] = "removeSocket" /\ p \in Port
  BY DEF RemoveSocket, Places
<1>2. pc' \in [Thread -> Label] /\ pc'[t] = "removeId" /\ \A u \in Thread : u # t => pc'[u] = pc[u]
  <2>1. "removeId" \in Label /\ Goto(t, "removeId")
    BY DEF Label, RemoveSocket
  <2> QED BY <2>1, Goes
<1>3. at' = at
  BY DEF RemoveSocket
<1>4. ThreadsTyped'
  BY <1>2, <1>3 DEF ThreadsTyped
<1>5. portSocketMap' = Map!Remove(portSocketMap, p)
  BY DEF RemoveSocket, Forget
<1>6. Sound(portSocketMap, Fd) /\ Paired(portIdMap) /\ Paired(slotIdMap)
  BY MapsSound
<1>7. /\ Sound(portSocketMap', Fd)
      /\ Map!Keys(portSocketMap') = Map!Keys(portSocketMap) \ {p}
      /\ \A q \in Port : q # p => Map!GetObject(portSocketMap', q) = Map!GetObject(portSocketMap, q)
  BY <1>1, <1>5, <1>6, RemoveIs
<1>8. portIdMap' = portIdMap /\ slotIdMap' = slotIdMap
  BY DEF RemoveSocket
<1>9. MapsTyped'
  <2>1. Paired(portIdMap') /\ Paired(slotIdMap')
    BY <1>6, <1>8
  <2> QED BY <1>7, <2>1, MapsSoundThen
<1>10. Sockets' = Sockets \ {p} /\ Ids' = Ids /\ Slots' = Slots
  BY <1>7, <1>8 DEF Sockets, Ids, Slots
<1>11. \A q \in Port : q # p => GetSocket(q)' = GetSocket(q)
  BY <1>7 DEF GetSocket
<1>12. UNCHANGED <<queues, network, loop, inbox, calls, alive, history, ended>>
  BY DEF RemoveSocket
<1> QED BY <1>1, <1>2, <1>3, <1>4, <1>8, <1>9, <1>10, <1>11, <1>12

LEMMA RemoveIdDoes ==
  ASSUME MapsTyped, ThreadsTyped, Places, NEW t \in Thread, RemoveId(t), NEW p, p = at[t].port
  PROVE  /\ pc[t] = "removeId" /\ p \in Port
         /\ ThreadsTyped' /\ pc'[t] = "removeSlot" /\ at' = at
         /\ \A u \in Thread : u # t => pc'[u] = pc[u]
         /\ MapsTyped' /\ Sockets' = Sockets /\ Ids' = Ids \ {p} /\ Slots' = Slots
         /\ portSocketMap' = portSocketMap /\ slotIdMap' = slotIdMap
         /\ UNCHANGED <<queues, network, loop, inbox, calls, alive, history, ended>>
<1>1. pc[t] = "removeId" /\ p \in Port
  BY DEF RemoveId, Places
<1>2. pc' \in [Thread -> Label] /\ pc'[t] = "removeSlot" /\ \A u \in Thread : u # t => pc'[u] = pc[u]
  <2>1. "removeSlot" \in Label /\ Goto(t, "removeSlot")
    BY DEF Label, RemoveId
  <2> QED BY <2>1, Goes
<1>3. at' = at
  BY DEF RemoveId
<1>4. ThreadsTyped'
  BY <1>2, <1>3 DEF ThreadsTyped
<1>5. portIdMap' = Map!Remove(portIdMap, p)
  BY DEF RemoveId, Forget
<1>6. Sound(portSocketMap, Fd) /\ Paired(portIdMap) /\ Paired(slotIdMap)
  BY MapsSound
<1>7. Paired(portIdMap') /\ Map!Keys(portIdMap') = Map!Keys(portIdMap) \ {p}
  BY <1>1, <1>5, <1>6, PairedRemove
<1>8. portSocketMap' = portSocketMap /\ slotIdMap' = slotIdMap
  BY DEF RemoveId
<1>9. MapsTyped'
  <2>1. Sound(portSocketMap', Fd) /\ Paired(slotIdMap')
    BY <1>6, <1>8
  <2> QED BY <1>7, <2>1, MapsSoundThen
<1>10. Sockets' = Sockets /\ Ids' = Ids \ {p} /\ Slots' = Slots
  BY <1>7, <1>8 DEF Sockets, Ids, Slots
<1>11. UNCHANGED <<queues, network, loop, inbox, calls, alive, history, ended>>
  BY DEF RemoveId
<1> QED BY <1>1, <1>2, <1>3, <1>4, <1>8, <1>9, <1>10, <1>11

LEMMA RemoveSlotDoes ==
  ASSUME MapsTyped, ThreadsTyped, SignalsTyped, Places, NEW t \in Thread, RemoveSlot(t),
         NEW p, p = at[t].port, NEW c, c = at[t].conn
  PROVE  /\ pc[t] = "removeSlot" /\ p \in Port /\ ~slotLocked
         /\ ThreadsTyped' /\ pc'[t] = (IF t = "user" THEN "idle" ELSE "drop")
         /\ at'[t].conn = None
         /\ \A u \in Thread : u # t => pc'[u] = pc[u] /\ at'[u] = at[u]
         /\ MapsTyped' /\ Sockets' = Sockets /\ Ids' = Ids /\ Slots' = Slots \ {p}
         /\ portSocketMap' = portSocketMap
         /\ SignalsTyped'
         /\ p \notin alive => UNCHANGED inbox
         /\ p \in alive /\ t = "user" => Tells(p, Signal("disconnected", c, 0))
         /\ p \in alive /\ t = "service" => Sends(p, <<Signal("disconnected", c, 0)>>)
         /\ UNCHANGED <<queues, network, loop, calls, alive, history, ended>>
<1>1. pc[t] = "removeSlot" /\ p \in Port /\ ~slotLocked
  BY DEF RemoveSlot, Places
<1> DEFINE label == IF t = "user" THEN "idle" ELSE "drop"
<1>2. pc' \in [Thread -> Label] /\ pc'[t] = label /\ \A u \in Thread : u # t => pc'[u] = pc[u]
  <2>1. label \in Label /\ Goto(t, label)
    BY DEF Label, RemoveSlot
  <2> HIDE DEF label
  <2> QED BY <2>1, Goes
<1>3. Idle \in AtSet /\ Idle.conn = None
  BY DEF Idle, AtSet
<1>4. at' = [at EXCEPT ![t] = Idle]
  BY DEF RemoveSlot
<1>5. ThreadsTyped' /\ at'[t].conn = None /\ \A u \in Thread : u # t => at'[u] = at[u]
  BY <1>2, <1>3, <1>4 DEF ThreadsTyped
<1>6. slotIdMap' = Map!Remove(slotIdMap, p)
  BY DEF RemoveSlot, Forget
<1>7. Sound(portSocketMap, Fd) /\ Paired(portIdMap) /\ Paired(slotIdMap)
  BY MapsSound
<1>8. Paired(slotIdMap') /\ Map!Keys(slotIdMap') = Map!Keys(slotIdMap) \ {p}
  BY <1>1, <1>6, <1>7, PairedRemove
<1>9. portSocketMap' = portSocketMap /\ portIdMap' = portIdMap
  BY DEF RemoveSlot
<1>10. MapsTyped'
  <2>1. Sound(portSocketMap', Fd) /\ Paired(portIdMap')
    BY <1>7, <1>9
  <2> QED BY <1>8, <2>1, MapsSoundThen
<1>11. Sockets' = Sockets /\ Ids' = Ids /\ Slots' = Slots \ {p}
  BY <1>8, <1>9 DEF Sockets, Ids, Slots
<1>12. UNCHANGED <<queues, network, loop, calls, alive, history, ended>>
  BY DEF RemoveSlot
<1>13. /\ p \notin alive => UNCHANGED inbox
       /\ p \in alive => Deliver(t, p, Signal("disconnected", c, 0))
  BY DEF RemoveSlot
<1>14. Signal("disconnected", c, 0) \in SignalSet
  <2>1. c \in Conn \cup {None}
    BY DEF ThreadsTyped, AtSet
  <2> QED BY <2>1 DEF Signal, SignalSet
<1>15. /\ SignalsTyped'
       /\ p \notin alive => UNCHANGED inbox
       /\ p \in alive /\ t = "user" => Tells(p, Signal("disconnected", c, 0))
       /\ p \in alive /\ t = "service" => Sends(p, <<Signal("disconnected", c, 0)>>)
  <2>1. CASE p \notin alive
    BY <1>13, <2>1 DEF inbox, SignalsTyped
  <2>2. CASE p \in alive
    BY <1>1, <1>13, <1>14, <2>2, DeliverDoes
  <2> QED BY <2>1, <2>2
<1> QED BY <1>1, <1>2, <1>5, <1>9, <1>10, <1>11, <1>12, <1>15

-----------------------------------------------------------------------------
(* Calls that leave the maps alone. *)

LEMMA SendDoes ==
  ASSUME MapsTyped, QueuesTyped, HistoryTyped, NEW p \in Port, Send(p)
  PROVE  /\ pc["user"] = "idle" /\ p \in alive /\ p \in Sockets /\ p \notin Listener
         /\ QueuesTyped' /\ HistoryTyped' /\ calls' = calls + 1
         /\ Len(outQueue') = Len(outQueue) + 1
         /\ \A i \in 1 .. Len(outQueue) : outQueue'[i] = outQueue[i]
         /\ outQueue'[Len(outQueue) + 1].port = p /\ outQueue'[Len(outQueue) + 1].n = calls + 1
         /\ UNCHANGED <<maps, acceptRequests, toDisconnect, network, loop, inbox, alive, pc, at,
                        history, ended>>
<1> DEFINE message == [port |-> p, n |-> calls']
<1>1. calls' = calls + 1 /\ calls' \in Nat
  BY DEF Send, Count, HistoryTyped
<1>2. message \in MessageSet /\ message.port = p /\ message.n = calls + 1
  BY <1>1 DEF MessageSet
<1>3. outQueue' = Append(outQueue, message)
  BY DEF Send
<1> HIDE DEF message
<1>4. /\ outQueue' \in Seq(MessageSet) /\ Len(outQueue') = Len(outQueue) + 1
      /\ \A i \in 1 .. Len(outQueue) : outQueue'[i] = outQueue[i]
      /\ outQueue'[Len(outQueue) + 1] = message
  BY <1>2, <1>3, AppendProperties DEF QueuesTyped
<1>5. pc["user"] = "idle" /\ p \in alive /\ p \in Sockets /\ p \notin Listener
  BY HasSocketIs DEF Send
<1>6. UNCHANGED <<maps, acceptRequests, toDisconnect, network, loop, inbox, alive, pc, at,
                  history, ended>>
  BY DEF Send
<1>7. QueuesTyped' /\ HistoryTyped'
  BY <1>1, <1>4, <1>6 DEF QueuesTyped, HistoryTyped, history
<1> QED BY <1>1, <1>2, <1>4, <1>5, <1>6, <1>7

LEMMA AcceptCallDoes ==
  ASSUME MapsTyped, QueuesTyped, HistoryTyped, NEW p \in Port, AcceptCall(p)
  PROVE  /\ QueuesTyped' /\ HistoryTyped' /\ calls' = calls + 1
         /\ UNCHANGED <<maps, outQueue, toDisconnect, network, loop, inbox, alive, pc, at,
                        written, left, ended>>
<1> DEFINE request == [port |-> p, fd |-> GetSocket(p)]
<1>1. GetSocket(p) \in Fd /\ p \in Listener
  BY HasSocketIs DEF AcceptCall
<1>2. request \in RequestSet
  BY <1>1 DEF RequestSet
<1>3. acceptRequests' = Append(acceptRequests, request)
  BY DEF AcceptCall
<1> HIDE DEF request
<1>4. acceptRequests' \in Seq(RequestSet)
  BY <1>2, <1>3 DEF QueuesTyped
<1>5. calls' = calls + 1 /\ asked' = [asked EXCEPT ![p] = @ + 1]
  BY DEF AcceptCall, Count
<1>6. UNCHANGED <<maps, outQueue, toDisconnect, network, loop, inbox, alive, pc, at,
                  written, left, ended>>
  BY DEF AcceptCall
<1>7. asked' \in [Port -> Nat] /\ calls' \in Nat
  BY <1>5 DEF HistoryTyped
<1>8. QueuesTyped' /\ HistoryTyped'
  BY <1>4, <1>6, <1>7 DEF QueuesTyped, HistoryTyped
<1> QED BY <1>5, <1>6, <1>8

LEMMA DisconnectCallDoes ==
  ASSUME MapsTyped, ThreadsTyped, HistoryTyped, NEW p \in Port, DisconnectCall(p)
  PROVE  /\ pc["user"] = "idle" /\ p \in alive /\ p \in Sockets
         /\ HistoryTyped' /\ calls' = calls + 1 /\ left' = left \cup {p}
         /\ ThreadsTyped' /\ pc'["user"] = "close" /\ pc'["service"] = pc["service"]
         /\ at'["user"].port = p /\ at'["user"].fd = GetSocket(p) /\ GetSocket(p) \in Fd
         /\ at'["service"] = at["service"]
         /\ UNCHANGED <<maps, queues, network, loop, inbox, alive, written, asked, ended>>
<1>1. pc["user"] = "idle" /\ p \in alive /\ p \in Sockets /\ GetSocket(p) \in Fd
  BY HasSocketIs DEF DisconnectCall
<1>2. calls' = calls + 1 /\ left' = left \cup {p} /\ p \in Leaver
  BY DEF DisconnectCall, Count
<1> DEFINE fd == GetSocket(p)
<1>3. /\ ThreadsTyped' /\ pc'["user"] = "close" /\ pc'["service"] = pc["service"]
      /\ at'["service"] = at["service"]
      /\ at'["user"].port = p /\ at'["user"].fd = fd
  <2>1. "close" \in Label /\ p \in Port \cup {None} /\ fd \in Fd \cup {NoFd}
        /\ None \in Conn \cup {None} /\ Enter("close", p, fd, None)
    BY <1>1 DEF Label, DisconnectCall
  <2> HIDE DEF fd
  <2> QED BY <2>1, UserEnters
<1>4. UNCHANGED <<maps, queues, network, loop, inbox, alive, written, asked, ended>>
  BY DEF DisconnectCall
<1>5. HistoryTyped'
  BY <1>2, <1>4 DEF HistoryTyped
<1> QED BY <1>1, <1>2, <1>3, <1>4, <1>5

LEMMA DestroyDoes ==
  ASSUME SignalsTyped, HistoryTyped, NEW p \in Port, Destroy(p)
  PROVE  /\ pc["user"] = "idle" /\ p \in alive
         /\ SignalsTyped' /\ HistoryTyped' /\ calls' = calls + 1
         /\ alive' = alive \ {p} /\ coming'[p] = <<>>
         /\ \A q \in Port : q # p => coming'[q] = coming[q]
         /\ UNCHANGED <<maps, queues, network, loop, signals, pc, at, history, ended>>
<1>1. pc["user"] = "idle" /\ p \in alive /\ calls' = calls + 1 /\ alive' = alive \ {p}
  BY DEF Destroy, MayCall, Count
<1>2. coming' = [coming EXCEPT ![p] = <<>>]
  BY DEF Destroy
<1>3. /\ coming' \in [Port -> Seq(SignalSet)] /\ coming'[p] = <<>>
      /\ \A q \in Port : q # p => coming'[q] = coming[q]
  BY <1>2 DEF SignalsTyped
<1>4. UNCHANGED <<maps, queues, network, loop, signals, pc, at, history, ended>>
  BY DEF Destroy
<1>5. SignalsTyped' /\ HistoryTyped'
  BY <1>1, <1>3, <1>4 DEF SignalsTyped, HistoryTyped, history
<1> QED BY <1>1, <1>3, <1>4, <1>5

LEMMA CollectDoes ==
  ASSUME SignalsTyped, Collect
  PROVE  /\ pc["user"] = "idle" /\ SignalsTyped'
         /\ \A p \in Port : signals'[p] = signals[p] \o coming[p] /\ coming'[p] = <<>>
         /\ UNCHANGED <<maps, queues, network, loop, calls, alive, pc, at, history, ended>>
<1>1. signals' = [p \in Port |-> signals[p] \o coming[p]] /\ coming' = [p \in Port |-> <<>>]
  BY DEF Collect
<1>2. \A p \in Port : signals[p] \o coming[p] \in Seq(SignalSet)
  <2> TAKE p \in Port
  <2>1. signals[p] \in Seq(SignalSet) /\ coming[p] \in Seq(SignalSet)
    BY DEF SignalsTyped
  <2> QED BY <2>1, ConcatProperties
<1>3. <<>> \in Seq(SignalSet)
  OBVIOUS
<1>4. SignalsTyped'
  BY <1>1, <1>2, <1>3 DEF SignalsTyped
<1> QED BY <1>1, <1>4 DEF Collect

-----------------------------------------------------------------------------
(* The service. *)

LEMMA TailIs ==
  ASSUME NEW S, NEW s \in Seq(S), s # <<>>
  PROVE  /\ Len(s) \in Nat \ {0} /\ Head(s) = s[1] /\ Head(s) \in S
         /\ Tail(s) \in Seq(S) /\ Len(Tail(s)) = Len(s) - 1
         /\ \A i \in 1 .. Len(s) - 1 : Tail(s)[i] = s[i + 1]
<1>1. Len(s) \in Nat \ {0}
  BY EmptySeq
<1>2. Head(s) = s[1] /\ s[1] \in S
  BY <1>1
<1>3. Tail(s) \in Seq(S) /\ Len(Tail(s)) = Len(s) - 1 /\ \A i \in 1 .. Len(s) - 1 : Tail(s)[i] = s[i + 1]
  BY <1>1, HeadTailProperties
<1> QED BY <1>1, <1>2, <1>3

LEMMA TakeMessageDoes ==
  ASSUME MapsTyped, QueuesTyped, ThreadsTyped, TakeMessage
  PROVE  /\ pc["service"] = "send" /\ Len(outQueue) \in Nat \ {0} /\ QueuesTyped'
         /\ outQueue[1] \in MessageSet
         /\ Len(outQueue') = Len(outQueue) - 1
         /\ \A i \in 1 .. Len(outQueue) - 1 : outQueue'[i] = outQueue[i + 1]
         /\ ThreadsTyped'
         /\ \/ UNCHANGED <<pc, at, ended>> /\ outQueue[1].port \notin alive
            \/ UNCHANGED <<pc, at>> /\ outQueue[1].port \in alive \ Sockets
               /\ ended'.why = "no socket to write" /\ ended'.port = outQueue[1].port
            \/ /\ outQueue[1].port \in alive \cap Sockets
               /\ pc'["service"] = "write" /\ pc'["user"] = pc["user"]
               /\ at'["service"].port = outQueue[1].port
               /\ at'["service"].fd = GetSocket(outQueue[1].port)
               /\ at'["service"].conn = None /\ at'["service"].n = outQueue[1].n
               /\ at'["user"] = at["user"]
               /\ ended' = ended
         /\ UNCHANGED <<maps, acceptRequests, toDisconnect, network, loop, inbox, calls, alive,
                        history>>
<1>1. pc["service"] = "send" /\ outQueue # <<>> /\ outQueue' = Tail(outQueue)
  BY DEF TakeMessage, Serve
<1>2. /\ Len(outQueue) \in Nat \ {0} /\ Head(outQueue) = outQueue[1] /\ outQueue[1] \in MessageSet
      /\ outQueue' \in Seq(MessageSet) /\ Len(outQueue') = Len(outQueue) - 1
      /\ \A i \in 1 .. Len(outQueue) - 1 : outQueue'[i] = outQueue[i + 1]
  BY <1>1, TailIs DEF QueuesTyped
<1>3. UNCHANGED <<maps, acceptRequests, toDisconnect, network, loop, inbox, calls, alive, history>>
  BY DEF TakeMessage
<1>4. QueuesTyped'
  BY <1>2, <1>3 DEF QueuesTyped
<1> DEFINE p == outQueue[1].port
           n == outQueue[1].n
           fd == GetSocket(p)
<1>5. p \in Port /\ n \in Nat
  BY <1>2 DEF MessageSet
<1>6. (p \in Sockets <=> fd # NoFd) /\ (p \in Sockets => fd \in Fd)
  BY <1>5, SocketIs
<1>7. \/ p \notin alive /\ UNCHANGED <<pc, at, ended>>
      \/ p \in alive /\ fd = NoFd /\ End("no socket to write", p) /\ UNCHANGED <<pc, at>>
      \/ /\ p \in alive /\ fd # NoFd /\ ended' = ended
         /\ at' = [at EXCEPT !["service"] = [port |-> p, fd |-> fd, conn |-> None, n |-> n]]
         /\ Goto("service", "write")
  BY <1>2 DEF TakeMessage
<1> HIDE DEF p, n, fd
<1>8. CASE p \notin alive /\ UNCHANGED <<pc, at, ended>>
  <2>1. ThreadsTyped'
    BY <1>8 DEF ThreadsTyped
  <2> QED BY <1>1, <1>2, <1>3, <1>4, <1>8, <2>1 DEF p
<1>9. CASE p \in alive /\ fd = NoFd /\ End("no socket to write", p) /\ UNCHANGED <<pc, at>>
  <2>1. ThreadsTyped'
    BY <1>9 DEF ThreadsTyped
  <2>2. ended'.why = "no socket to write" /\ ended'.port = p
    BY <1>9 DEF End
  <2> QED BY <1>1, <1>2, <1>3, <1>4, <1>6, <1>9, <2>1, <2>2 DEF p
<1>10. CASE /\ p \in alive /\ fd # NoFd /\ ended' = ended
            /\ at' = [at EXCEPT !["service"] = [port |-> p, fd |-> fd, conn |-> None, n |-> n]]
            /\ Goto("service", "write")
  <2> DEFINE new == [port |-> p, fd |-> fd, conn |-> None, n |-> n]
  <2>1. new \in AtSet /\ new.port = p /\ new.fd = fd /\ new.conn = None /\ new.n = n
    BY <1>5, <1>6, <1>10 DEF AtSet
  <2>2. at' = [at EXCEPT !["service"] = new]
    BY <1>10
  <2> HIDE DEF new
  <2>3. at' \in [Thread -> AtSet] /\ at'["service"] = new /\ at'["user"] = at["user"]
    BY <2>1, <2>2 DEF ThreadsTyped, Thread
  <2>4. pc' \in [Thread -> Label] /\ pc'["service"] = "write" /\ pc'["user"] = pc["user"]
    <3>1. "write" \in Label /\ Goto("service", "write")
      BY <1>10 DEF Label
    <3> QED BY <3>1, ServiceGoes
  <2>5. ThreadsTyped'
    BY <2>3, <2>4 DEF ThreadsTyped
  <2> QED BY <1>1, <1>2, <1>3, <1>4, <1>6, <1>10, <2>1, <2>3, <2>4, <2>5 DEF p, fd, n
<1> QED BY <1>7, <1>8, <1>9, <1>10

\* The service's thread goes on, with no port in hand.
Rests(label) ==
  /\ ThreadsTyped'
  /\ pc'["service"] = label /\ pc'["user"] = pc["user"]
  /\ at'["service"].port = None /\ at'["service"].conn = None
  /\ at'["user"] = at["user"]

LEMMA RestsIs ==
  ASSUME ThreadsTyped, NEW label \in Label, Goto("service", label), Using(None, NoFd)
  PROVE  Rests(label)
<1>1. None \in Port \cup {None} /\ NoFd \in Fd \cup {NoFd}
  OBVIOUS
<1>2. /\ at' \in [Thread -> AtSet] /\ at'["user"] = at["user"]
      /\ at'["service"].port = None /\ at'["service"].conn = None
  BY <1>1, ServiceUses
<1> QED BY <1>2, ServiceGoes DEF Rests, ThreadsTyped

LEMMA WriteDoes ==
  ASSUME ThreadsTyped, FilesTyped, HistoryTyped, Places, Write,
         NEW p, p = at["service"].port, NEW fd, fd = at["service"].fd, NEW c, c = file[fd].conn
  PROVE  /\ pc["service"] = "write" /\ p \in Port /\ fd \in Fd /\ c \in Conn \cup {None}
         /\ Rests("send") /\ HistoryTyped'
         /\ \/ /\ c # None /\ ended' = ended
               /\ written'[p] = Append(written[p], [n |-> at["service"].n, conn |-> c])
               /\ \A q \in Port : q # p => written'[q] = written[q]
               /\ UNCHANGED <<asked, left>>
            \/ UNCHANGED <<history, ended>>
            \/ /\ UNCHANGED history
               /\ ended'.why = "SIGPIPE" /\ ended'.port = p
               /\ file[fd].kind = "listen" \/ (c # None /\ conn[c].state = "closed")
         /\ UNCHANGED <<maps, queues, network, loop, inbox, calls, alive>>
<1>1. pc["service"] = "write" /\ p \in Port /\ fd \in Fd
  BY DEF Write, Serve, Places, Thread
<1>2. c = ConnOf(fd) /\ c \in Conn \cup {None}
  BY <1>1 DEF ConnOf, FilesTyped, FileSet
<1>3. Rests("send")
  <2>1. "send" \in Label /\ Goto("service", "send") /\ Using(None, NoFd)
    BY DEF Label, Write
  <2> QED BY <2>1, RestsIs
<1>4. UNCHANGED <<maps, queues, network, loop, inbox, calls, alive>>
  BY DEF Write
<1> DEFINE new == [n |-> at["service"].n, conn |-> c]
<1>5. \/ /\ c # None
         /\ written' = [written EXCEPT ![p] = Append(@, new)]
         /\ UNCHANGED <<asked, left, ended>>
      \/ UNCHANGED <<history, ended>>
      \/ /\ Listening(fd) \/ PeerClosed(c)
         /\ End("SIGPIPE", p) /\ UNCHANGED history
  BY <1>2 DEF Write
<1>6. c # None => new \in WrittenSet
  <2>1. at["service"] \in AtSet
    BY DEF ThreadsTyped, Thread
  <2> QED BY <1>2, <2>1 DEF AtSet, WrittenSet
<1> HIDE DEF new
<1>7. CASE /\ c # None
           /\ written' = [written EXCEPT ![p] = Append(@, new)]
           /\ UNCHANGED <<asked, left, ended>>
  <2>1. Append(written[p], new) \in Seq(WrittenSet)
    BY <1>1, <1>6, <1>7 DEF HistoryTyped
  <2>2. /\ written' \in [Port -> Seq(WrittenSet)] /\ written'[p] = Append(written[p], new)
        /\ \A q \in Port : q # p => written'[q] = written[q]
    BY <1>1, <1>7, <2>1 DEF HistoryTyped
  <2>3. HistoryTyped'
    BY <1>4, <1>7, <2>2 DEF HistoryTyped
  <2> QED BY <1>1, <1>2, <1>3, <1>4, <1>7, <2>2, <2>3 DEF new
<1>8. CASE UNCHANGED <<history, ended>>
  <2>1. HistoryTyped'
    BY <1>4, <1>8 DEF HistoryTyped, history
  <2> QED BY <1>1, <1>2, <1>3, <1>4, <1>8, <2>1
<1>9. CASE /\ Listening(fd) \/ PeerClosed(c)
           /\ End("SIGPIPE", p) /\ UNCHANGED history
  <2>1. HistoryTyped'
    BY <1>4, <1>9 DEF HistoryTyped, history
  <2>2. ended'.why = "SIGPIPE" /\ ended'.port = p
    BY <1>9 DEF End
  <2>3. file[fd].kind = "listen" \/ (c # None /\ conn[c].state = "closed")
    BY <1>9, Numbers DEF Listening, PeerClosed
  <2> QED BY <1>1, <1>2, <1>3, <1>4, <1>9, <2>1, <2>2, <2>3
<1> QED BY <1>5, <1>7, <1>8, <1>9

LEMMA LockDoes ==
  ASSUME ThreadsTyped, Lock
  PROVE  /\ pc["service"] = "send"
         /\ ThreadsTyped' /\ pc'["service"] = "visit" /\ pc'["user"] = pc["user"] /\ at' = at
         /\ slotLocked' = TRUE /\ index' = 1
         /\ UNCHANGED <<maps, queues, network, inbox, calls, alive, history, ended>>
<1>1. pc' \in [Thread -> Label] /\ pc'["service"] = "visit" /\ pc'["user"] = pc["user"]
  <2>1. "visit" \in Label /\ Goto("service", "visit")
    BY DEF Label, Lock
  <2> QED BY <2>1, ServiceGoes
<1>2. ThreadsTyped'
  BY <1>1 DEF ThreadsTyped, Lock
<1> QED BY <1>1, <1>2 DEF Lock, Serve

LEMMA UnlockDoes ==
  ASSUME ThreadsTyped, Unlock
  PROVE  /\ pc["service"] = "visit" /\ index > Len(slotIdMap)
         /\ ThreadsTyped' /\ pc'["service"] = "drop" /\ pc'["user"] = pc["user"] /\ at' = at
         /\ slotLocked' = FALSE /\ index' = 0
         /\ UNCHANGED <<maps, queues, network, inbox, calls, alive, history, ended>>
<1>1. pc' \in [Thread -> Label] /\ pc'["service"] = "drop" /\ pc'["user"] = pc["user"]
  <2>1. "drop" \in Label /\ Goto("service", "drop")
    BY DEF Label, Unlock
  <2> QED BY <2>1, ServiceGoes
<1>2. ThreadsTyped'
  BY <1>1 DEF ThreadsTyped, Unlock
<1> QED BY <1>1, <1>2 DEF Unlock, Serve

\* The slot at the iterator.
LEMMA SlotAt ==
  ASSUME MapsTyped, NEW i \in 1 .. Len(slotIdMap)
  PROVE  /\ slotIdMap[i].key \in Port /\ slotIdMap[i].key \in Slots
         /\ \A j \in 1 .. Len(slotIdMap) :
              /\ slotIdMap[j].key \in Nat
              /\ j < i => slotIdMap[j].key < slotIdMap[i].key
              /\ i < j => slotIdMap[i].key < slotIdMap[j].key
<1>1. Sound(slotIdMap, Port)
  BY MapsSound DEF Paired
<1>2. \A j \in 1 .. Len(slotIdMap) : slotIdMap[j].key \in Port /\ slotIdMap[j].key \in Nat
  BY <1>1, SlotsOf
<1>3. Sorted(slotIdMap)
  BY <1>1 DEF Sound
<1>4. slotIdMap[i].key \in Slots
  BY DEF Slots, Map!Keys
<1> QED BY <1>2, <1>3, <1>4 DEF Sorted

\* The descriptors and objects of the entries: only a slot without its capsule loses them.
LEMMA VisitDoes ==
  ASSUME MapsTyped, ThreadsTyped, Iterates, Visit, NEW p, p = slotIdMap[index].key
  PROVE  /\ pc["service"] = "visit" /\ index \in 1 .. Len(slotIdMap) /\ p \in Port /\ slotLocked
         /\ ThreadsTyped' /\ MapsTyped' /\ slotIdMap' = slotIdMap /\ Slots' = Slots
         /\ p \in alive => portSocketMap' = portSocketMap /\ Sockets' = Sockets /\ Ids' = Ids
         /\ p \notin alive => Sockets' = Sockets \ {p} /\ Ids' = Ids \ {p}
         /\ \A q \in Port : q # p => GetSocket(q)' = GetSocket(q)
         /\ \/ /\ p \in alive /\ p \in Ids
               /\ pc'["service"] = "getSocket" /\ pc'["user"] = pc["user"]
               /\ at'["service"].port = p /\ at'["service"].conn = None
               /\ at'["user"] = at["user"] /\ index' = index
            \/ index' = index + 1 /\ UNCHANGED <<pc, at>>
         /\ UNCHANGED <<queues, network, slotLocked, inbox, calls, alive, history, ended>>
<1>1. pc["service"] = "visit" /\ index <= Len(slotIdMap)
  BY DEF Visit, Serve
<1>2. index \in 1 .. Len(slotIdMap) /\ slotLocked
  BY <1>1 DEF Iterates
<1>3. p \in Port
  BY <1>2, SlotAt
<1>4. Sound(portSocketMap, Fd) /\ Paired(portIdMap) /\ Paired(slotIdMap)
  BY MapsSound
<1>5. UNCHANGED <<slotIdMap, queues, network, slotLocked, inbox, calls, alive, history, ended>>
  BY DEF Visit
<1>6. CleanUp(p) /\ IF Map!Found(portIdMap', p)
                      THEN Goto("service", "getSocket") /\ Using(p, NoFd) /\ UNCHANGED index
                      ELSE index' = index + 1 /\ UNCHANGED <<pc, at>>
  BY DEF Visit
<1>7. /\ Sound(portSocketMap', Fd) /\ Paired(portIdMap')
      /\ p \in alive => /\ portSocketMap' = portSocketMap
                        /\ Map!Keys(portIdMap') = Map!Keys(portIdMap)
      /\ p \notin alive => /\ Map!Keys(portSocketMap') = Map!Keys(portSocketMap) \ {p}
                           /\ Map!Keys(portIdMap') = Map!Keys(portIdMap) \ {p}
      /\ \A q \in Port : q # p => Map!GetObject(portSocketMap', q) = Map!GetObject(portSocketMap, q)
  <2>1. CASE p \in alive
    <3>1. portSocketMap' = portSocketMap /\ portIdMap' = portIdMap
      BY <1>6, <2>1 DEF CleanUp
    <3> QED BY <1>4, <2>1, <3>1
  <2>2. CASE p \notin alive
    <3>1. portSocketMap' = Map!Remove(portSocketMap, p) /\ portIdMap' = Map!Remove(portIdMap, p)
      BY <1>6, <2>2 DEF CleanUp
    <3>2. Paired(portIdMap') /\ Map!Keys(portIdMap') = Map!Keys(portIdMap) \ {p}
      BY <1>3, <1>4, <3>1, PairedRemove
    <3>3. /\ Sound(portSocketMap', Fd)
          /\ Map!Keys(portSocketMap') = Map!Keys(portSocketMap) \ {p}
          /\ \A q \in Port : q # p => Map!GetObject(portSocketMap', q) = Map!GetObject(portSocketMap, q)
      BY <1>3, <1>4, <3>1, RemoveIs
    <3> QED BY <2>2, <3>2, <3>3
  <2> QED BY <2>1, <2>2
<1>8. MapsTyped'
  <2>1. Paired(slotIdMap')
    BY <1>4, <1>5
  <2> QED BY <1>7, <2>1, MapsSoundThen
<1>9. /\ Slots' = Slots
      /\ p \in alive => Sockets' = Sockets /\ Ids' = Ids
      /\ p \notin alive => Sockets' = Sockets \ {p} /\ Ids' = Ids \ {p}
      /\ \A q \in Port : q # p => GetSocket(q)' = GetSocket(q)
  BY <1>5, <1>7 DEF Sockets, Ids, Slots, GetSocket
<1>10. Map!Found(portIdMap', p) <=> p \in Ids'
  <2>1. Sound(portIdMap', Port)
    BY <1>7 DEF Paired
  <2>2. Map!Found(portIdMap', p) <=> p \in Map!Keys(portIdMap')
    BY <1>3, <2>1, FoundIs
  <2> QED BY <2>2 DEF Ids
<1>11. CASE p \in Ids'
  <2>1. Goto("service", "getSocket") /\ Using(p, NoFd) /\ index' = index
    BY <1>6, <1>10, <1>11
  <2>2. p \in alive /\ p \in Ids
    BY <1>9, <1>11
  <2>3. pc' \in [Thread -> Label] /\ pc'["service"] = "getSocket" /\ pc'["user"] = pc["user"]
    <3>1. "getSocket" \in Label
      BY DEF Label
    <3> QED BY <2>1, <3>1, ServiceGoes
  <2>4. /\ at' \in [Thread -> AtSet] /\ at'["user"] = at["user"]
        /\ at'["service"].port = p /\ at'["service"].conn = None
    <3>1. p \in Port \cup {None} /\ NoFd \in Fd \cup {NoFd}
      BY <1>3
    <3> QED BY <2>1, <3>1, ServiceUses
  <2>5. ThreadsTyped'
    BY <2>3, <2>4 DEF ThreadsTyped
  <2> QED BY <1>1, <1>2, <1>3, <1>5, <1>7, <1>8, <1>9, <2>1, <2>2, <2>3, <2>4, <2>5
<1>12. CASE p \notin Ids'
  <2>1. index' = index + 1 /\ UNCHANGED <<pc, at>>
    BY <1>6, <1>10, <1>12
  <2>2. ThreadsTyped'
    BY <2>1 DEF ThreadsTyped
  <2> QED BY <1>1, <1>2, <1>3, <1>5, <1>7, <1>8, <1>9, <2>1, <2>2
<1> QED BY <1>11, <1>12

LEMMA FindSocketDoes ==
  ASSUME MapsTyped, ThreadsTyped, Places, FindSocket, NEW p, p = at["service"].port
  PROVE  /\ pc["service"] = "getSocket" /\ p \in Port /\ ThreadsTyped'
         /\ \/ p \notin Sockets /\ UNCHANGED <<pc, at>>
               /\ ended'.why = "no socket to read" /\ ended'.port = p
            \/ /\ p \in Sockets /\ GetSocket(p) \in Fd /\ ended' = ended
               /\ pc'["service"] = "recv" /\ pc'["user"] = pc["user"]
               /\ at'["service"].port = p /\ at'["service"].fd = GetSocket(p)
               /\ at'["service"].conn = None /\ at'["user"] = at["user"]
         /\ UNCHANGED <<maps, queues, network, loop, inbox, calls, alive, history>>
<1>1. pc["service"] = "getSocket" /\ p \in Port
  BY DEF FindSocket, Serve, Places, Thread
<1> DEFINE fd == GetSocket(p)
<1>2. (p \in Sockets <=> fd # NoFd) /\ (p \in Sockets => fd \in Fd)
  BY <1>1, SocketIs
<1>3. UNCHANGED <<maps, queues, network, loop, inbox, calls, alive, history>>
  BY DEF FindSocket
<1>4. IF fd = NoFd THEN End("no socket to read", p) /\ UNCHANGED <<pc, at>>
      ELSE Using(p, fd) /\ Goto("service", "recv") /\ UNCHANGED ended
  BY DEF FindSocket
<1> HIDE DEF fd
<1>5. CASE fd = NoFd
  <2>1. ThreadsTyped'
    BY <1>4, <1>5 DEF ThreadsTyped
  <2>2. ended'.why = "no socket to read" /\ ended'.port = p
    <3>1. End("no socket to read", p)
      BY <1>4, <1>5
    <3> QED BY <3>1 DEF End
  <2> QED BY <1>1, <1>2, <1>3, <1>4, <1>5, <2>1, <2>2
<1>6. CASE fd # NoFd
  <2>1. /\ at' \in [Thread -> AtSet] /\ at'["user"] = at["user"]
        /\ at'["service"].port = p /\ at'["service"].fd = fd /\ at'["service"].conn = None
    <3>1. p \in Port \cup {None} /\ fd \in Fd \cup {NoFd} /\ Using(p, fd)
      BY <1>1, <1>2, <1>4, <1>6
    <3> QED BY <3>1, ServiceUses
  <2>2. pc' \in [Thread -> Label] /\ pc'["service"] = "recv" /\ pc'["user"] = pc["user"]
    <3>1. "recv" \in Label /\ Goto("service", "recv")
      BY <1>4, <1>6 DEF Label
    <3> QED BY <3>1, ServiceGoes
  <2>3. ThreadsTyped'
    BY <2>1, <2>2 DEF ThreadsTyped
  <2> QED BY <1>1, <1>2, <1>3, <1>4, <1>6, <2>1, <2>2, <2>3 DEF fd
<1> QED BY <1>5, <1>6

LEMMA LinesAre ==
  ASSUME FilesTyped, NEW c \in Conn
  PROVE  /\ Lines(c) \in Seq(SignalSet)
         /\ conn[c].read <= conn[c].sent =>
              /\ Len(Lines(c)) = conn[c].sent - conn[c].read
              /\ \A i \in 1 .. Len(Lines(c)) :
                   Lines(c)[i] = Signal("received", c, conn[c].read + i)
         /\ Lines(c) = <<>> <=> conn[c].sent <= conn[c].read
<1> DEFINE n == conn[c].sent - conn[c].read
           f == Lines(c)
<1>1. conn[c].sent \in Nat /\ conn[c].read \in Nat /\ n \in Int
  BY DEF FilesTyped, ConnSet
<1>2. f = [i \in 1 .. n |-> Signal("received", c, conn[c].read + i)]
  BY DEF Lines
<1>3. \A i \in 1 .. n : Signal("received", c, conn[c].read + i) \in SignalSet
  BY <1>1 DEF Signal, SignalSet
<1>4. CASE n >= 0
  <2>1. n \in Nat
    BY <1>1, <1>4
  <2> HIDE DEF n
  <2>2. f \in Seq(SignalSet) /\ Len(f) = n
    BY <1>2, <1>3, <2>1
  <2>3. f = <<>> <=> n = 0
    BY <2>1, <2>2, EmptySeq
  <2>4. \A i \in 1 .. Len(f) : f[i] = Signal("received", c, conn[c].read + i)
    BY <1>2, <2>2
  <2> QED BY <1>1, <2>1, <2>2, <2>3, <2>4 DEF n
<1>5. CASE n < 0
  <2>1. 1 .. n = {} /\ ~ conn[c].read <= conn[c].sent /\ conn[c].sent <= conn[c].read
    BY <1>1, <1>5
  <2>2. f = <<>>
    <3> HIDE DEF n, f
    <3> QED BY <1>2, <2>1
  <2> QED BY <2>1, <2>2
<1> QED BY <1>1, <1>4, <1>5

\* recv() returns what has arrived of the connection of the descriptor.
Got(c) == IF c = None THEN <<>> ELSE Lines(c)

LEMMA RecvDoes ==
  ASSUME QueuesTyped, ThreadsTyped, SignalsTyped, FilesTyped, Places, Recv,
         NEW p, p = at["service"].port, NEW fd, fd = at["service"].fd, NEW c, c = file[fd].conn
  PROVE  /\ pc["service"] = "recv" /\ p \in Port /\ fd \in Fd /\ c \in Conn \cup {None}
         /\ Rests("visit") /\ index' = index + 1
         /\ SignalsTyped' /\ QueuesTyped' /\ FilesTyped' /\ Got(c) \in Seq(SignalSet)
         /\ p \in alive => Sends(p, Got(c))
         /\ p \notin alive => UNCHANGED inbox
         /\ c = None => conn' = conn
         /\ \A d \in Conn :
              /\ d # c => conn'[d] = conn[d]
              /\ conn'[d].state = conn[d].state /\ conn'[d].owner = conn[d].owner
              /\ conn'[d].fd = conn[d].fd /\ conn'[d].sent = conn[d].sent
              /\ d = c => conn'[d].read = conn[d].sent
         /\ \/ toDisconnect' = toDisconnect
            \/ /\ c # None /\ conn[c].state = "closed" /\ conn[c].sent <= conn[c].read
               /\ toDisconnect' = Append(toDisconnect, p)
         /\ UNCHANGED <<maps, outQueue, acceptRequests, file, slotLocked, signals, calls, alive,
                        history, ended>>
<1>1. pc["service"] = "recv" /\ p \in Port /\ fd \in Fd
  BY DEF Recv, Serve, Places, Thread
<1>2. c = ConnOf(fd) /\ c \in Conn \cup {None}
  BY <1>1 DEF ConnOf, FilesTyped, FileSet
<1>3. Rests("visit")
  <2>1. "visit" \in Label /\ Goto("service", "visit") /\ Using(None, NoFd)
    BY DEF Label, Recv
  <2> QED BY <2>1, RestsIs
<1>4. UNCHANGED <<maps, outQueue, acceptRequests, file, slotLocked, signals, calls, alive,
                  history, ended>> /\ index' = index + 1
  BY DEF Recv
<1>5. Got(c) \in Seq(SignalSet)
  <2>1. CASE c = None
    BY <2>1 DEF Got
  <2>2. CASE c # None
    BY <1>2, <2>2, LinesAre DEF Got
  <2> QED BY <2>1, <2>2
<1>6. coming' = [coming EXCEPT ![p] = IF p \in alive THEN @ \o Got(c) ELSE @]
  BY <1>2 DEF Recv, Got
<1>7. conn' = IF c = None THEN conn ELSE [conn EXCEPT ![c].read = conn[c].sent]
  BY <1>2 DEF Recv
<1>8. toDisconnect' = IF AtEnd(c) THEN Append(toDisconnect, p) ELSE toDisconnect
  BY <1>2 DEF Recv
<1>9. /\ SignalsTyped'
      /\ p \in alive => Sends(p, Got(c))
      /\ p \notin alive => UNCHANGED inbox
  <2> DEFINE got == Got(c)
  <2>1. coming[p] \in Seq(SignalSet) /\ got \in Seq(SignalSet)
    BY <1>1, <1>5 DEF SignalsTyped
  <2>2. coming' = [coming EXCEPT ![p] = IF p \in alive THEN @ \o got ELSE @]
    BY <1>6
  <2> HIDE DEF got
  <2>3. coming[p] \o got \in Seq(SignalSet)
    BY <2>1, ConcatProperties
  <2>4. CASE p \in alive
    <3>1. coming' = [coming EXCEPT ![p] = coming[p] \o got]
      BY <2>2, <2>4
    <3>2. coming' \in [Port -> Seq(SignalSet)]
      BY <2>3, <3>1 DEF SignalsTyped
    <3>3. coming'[p] = coming[p] \o got /\ \A q \in Port : q # p => coming'[q] = coming[q]
      BY <1>1, <3>1 DEF SignalsTyped
    <3> QED BY <1>4, <2>4, <3>2, <3>3 DEF SignalsTyped, Sends, got
  <2>5. CASE p \notin alive
    <3>1. coming' = coming
      BY <2>2, <2>5 DEF SignalsTyped
    <3> QED BY <1>4, <2>5, <3>1 DEF SignalsTyped, inbox
  <2> QED BY <2>4, <2>5
<1>10. /\ conn' \in [Conn -> ConnSet]
       /\ c = None => conn' = conn
       /\ \A d \in Conn :
            /\ d # c => conn'[d] = conn[d]
            /\ conn'[d].state = conn[d].state /\ conn'[d].owner = conn[d].owner
            /\ conn'[d].fd = conn[d].fd /\ conn'[d].sent = conn[d].sent
            /\ d = c => conn'[d].read = conn[d].sent
  <2>1. CASE c = None
    BY <1>7, <2>1, Numbers DEF FilesTyped
  <2>2. CASE c # None
    <3>1. c \in Conn /\ conn[c] \in ConnSet
      BY <1>2, <2>2 DEF FilesTyped
    <3> DEFINE new == [conn[c] EXCEPT !.read = conn[c].sent]
    <3>2. /\ new \in ConnSet /\ new.state = conn[c].state /\ new.owner = conn[c].owner
          /\ new.fd = conn[c].fd /\ new.sent = conn[c].sent /\ new.read = conn[c].sent
      BY <3>1 DEF ConnSet
    <3>3. conn' = [conn EXCEPT ![c] = new]
      BY <1>7, <2>2 DEF FilesTyped
    <3> HIDE DEF new
    <3>4. conn' \in [Conn -> ConnSet] /\ OthersStay(c) /\ conn'[c] = new
      BY <3>1, <3>2, <3>3, ConnStep
    <3> QED BY <2>2, <3>2, <3>4 DEF OthersStay
  <2> QED BY <2>1, <2>2
<1>11. FilesTyped'
  BY <1>4, <1>10 DEF FilesTyped
<1>12. \/ toDisconnect' = toDisconnect
       \/ /\ c # None /\ conn[c].state = "closed" /\ conn[c].sent <= conn[c].read
          /\ toDisconnect' = Append(toDisconnect, p)
  <2>1. AtEnd(c) => c \in Conn /\ conn[c].state = "closed" /\ Lines(c) = <<>>
    BY DEF AtEnd, PeerClosed
  <2>2. AtEnd(c) => conn[c].sent <= conn[c].read
    BY <2>1, LinesAre
  <2> QED BY <1>8, <2>1, <2>2, Numbers
<1>13. QueuesTyped'
  <2>1. toDisconnect' \in Seq(Port)
    BY <1>1, <1>12 DEF QueuesTyped
  <2> QED BY <1>4, <2>1 DEF QueuesTyped
<1> QED BY <1>1, <1>2, <1>3, <1>4, <1>5, <1>9, <1>10, <1>11, <1>12, <1>13

LEMMA DropDoes ==
  ASSUME MapsTyped, QueuesTyped, ThreadsTyped, Drop, NEW p, p = toDisconnect[1]
  PROVE  /\ pc["service"] = "drop" /\ Len(toDisconnect) \in Nat \ {0} /\ p \in Port /\ QueuesTyped'
         /\ Len(toDisconnect') = Len(toDisconnect) - 1
         /\ \A i \in 1 .. Len(toDisconnect) - 1 : toDisconnect'[i] = toDisconnect[i + 1]
         /\ ThreadsTyped'
         /\ \/ p \notin Sockets /\ UNCHANGED <<pc, at>>
            \/ /\ p \in Sockets /\ GetSocket(p) \in Fd
               /\ pc'["service"] = "close" /\ pc'["user"] = pc["user"]
               /\ at'["service"].port = p /\ at'["service"].fd = GetSocket(p)
               /\ at'["service"].conn = None /\ at'["user"] = at["user"]
         /\ UNCHANGED <<maps, outQueue, acceptRequests, network, loop, inbox, calls, alive, history,
                        ended>>
<1>1. pc["service"] = "drop" /\ toDisconnect # <<>> /\ toDisconnect' = Tail(toDisconnect)
  BY DEF Drop, Serve
<1>2. /\ Len(toDisconnect) \in Nat \ {0} /\ Head(toDisconnect) = p /\ p \in Port
      /\ toDisconnect' \in Seq(Port) /\ Len(toDisconnect') = Len(toDisconnect) - 1
      /\ \A i \in 1 .. Len(toDisconnect) - 1 : toDisconnect'[i] = toDisconnect[i + 1]
  BY <1>1, TailIs DEF QueuesTyped
<1>3. UNCHANGED <<maps, outQueue, acceptRequests, network, loop, inbox, calls, alive, history,
                  ended>>
  BY DEF Drop
<1>4. QueuesTyped'
  BY <1>2, <1>3 DEF QueuesTyped
<1> DEFINE fd == GetSocket(p)
<1>5. (p \in Sockets <=> fd # NoFd) /\ (p \in Sockets => fd \in Fd)
  BY <1>2, SocketIs
<1>6. IF fd = NoFd THEN UNCHANGED <<pc, at>> ELSE Using(p, fd) /\ Goto("service", "close")
  BY <1>2 DEF Drop
<1> HIDE DEF fd
<1>7. CASE fd = NoFd
  <2>1. ThreadsTyped'
    BY <1>6, <1>7 DEF ThreadsTyped
  <2> QED BY <1>1, <1>2, <1>3, <1>4, <1>5, <1>6, <1>7, <2>1
<1>8. CASE fd # NoFd
  <2>1. /\ at' \in [Thread -> AtSet] /\ at'["user"] = at["user"]
        /\ at'["service"].port = p /\ at'["service"].fd = fd /\ at'["service"].conn = None
    <3>1. p \in Port \cup {None} /\ fd \in Fd \cup {NoFd} /\ Using(p, fd)
      BY <1>2, <1>5, <1>6, <1>8
    <3> QED BY <3>1, ServiceUses
  <2>2. pc' \in [Thread -> Label] /\ pc'["service"] = "close" /\ pc'["user"] = pc["user"]
    <3>1. "close" \in Label /\ Goto("service", "close")
      BY <1>6, <1>8 DEF Label
    <3> QED BY <3>1, ServiceGoes
  <2>3. ThreadsTyped'
    BY <2>1, <2>2 DEF ThreadsTyped
  <2> QED BY <1>1, <1>2, <1>3, <1>4, <1>5, <1>8, <2>1, <2>2, <2>3 DEF fd
<1> QED BY <1>7, <1>8

\* One request is dropped, served with the first client that waits at its socket, or put back.
LEMMA AcceptDoes ==
  ASSUME QueuesTyped, ThreadsTyped, SignalsTyped, FilesTyped, Accept
  PROVE  /\ pc["service"] = "drop" /\ toDisconnect = <<>> /\ QueuesTyped'
         /\ ThreadsTyped' /\ pc'["service"] = "send" /\ pc'["user"] = pc["user"] /\ at' = at
         /\ \/ UNCHANGED <<network, inbox>>
            \/ \E fd \in Fd, c \in Conn, p \in Listener :
                 /\ file[fd] = Free /\ conn[c].state = "waiting"
                 /\ FilesTyped' /\ FileBecomes(fd, "conn", c) /\ OthersStay(c)
                 /\ conn'[c].state = "open" /\ conn'[c].owner = conn[c].owner
                 /\ conn'[c].fd = conn[c].fd /\ conn'[c].sent = conn[c].sent
                 /\ conn'[c].read = conn[c].read
                 /\ SignalsTyped' /\ Sends(p, <<Signal("connected", c, 0)>>)
         /\ UNCHANGED <<maps, outQueue, toDisconnect, loop, calls, alive, history, ended>>
<1>1. pc["service"] = "drop" /\ toDisconnect = <<>>
  BY DEF Accept, Serve
<1>2. pc' \in [Thread -> Label] /\ pc'["service"] = "send" /\ pc'["user"] = pc["user"] /\ at' = at
  <2>1. "send" \in Label /\ Goto("service", "send")
    BY DEF Label, Accept
  <2> QED BY <2>1, ServiceGoes DEF Accept
<1>3. ThreadsTyped'
  BY <1>2 DEF ThreadsTyped
<1>4. UNCHANGED <<maps, outQueue, toDisconnect, loop, calls, alive, history, ended>>
  BY DEF Accept
<1> DEFINE request == Head(acceptRequests)
           p == request.port
           client == Waiting(request.fd)
<1>5. acceptRequests # <<>> =>
        /\ request \in RequestSet /\ p \in Listener
        /\ Tail(acceptRequests) \in Seq(RequestSet)
        /\ Append(Tail(acceptRequests), request) \in Seq(RequestSet)
  <2> SUFFICES ASSUME acceptRequests # <<>>
               PROVE  /\ request \in RequestSet /\ p \in Listener
                      /\ Tail(acceptRequests) \in Seq(RequestSet)
                      /\ Append(Tail(acceptRequests), request) \in Seq(RequestSet)
    OBVIOUS
  <2>1. request \in RequestSet /\ Tail(acceptRequests) \in Seq(RequestSet)
    BY TailIs DEF QueuesTyped
  <2>2. p \in Listener
    BY <2>1 DEF RequestSet
  <2> HIDE DEF request, p
  <2> QED BY <2>1, <2>2
<1>6. \/ /\ acceptRequests' = IF acceptRequests = <<>> THEN <<>> ELSE Tail(acceptRequests)
         /\ UNCHANGED <<network, inbox>>
      \/ /\ acceptRequests # <<>> /\ client # {} /\ FreeFds # {}
         /\ acceptRequests' = Tail(acceptRequests)
         /\ file' = [file EXCEPT ![NextFd] = [kind |-> "conn", conn |-> Min(client)]]
         /\ conn' = [conn EXCEPT ![Min(client)].state = "open"]
         /\ Deliver("service", p, Signal("connected", Min(client), 0))
      \/ /\ acceptRequests # <<>>
         /\ acceptRequests' = Append(Tail(acceptRequests), request)
         /\ UNCHANGED <<network, inbox>>
  BY DEF Accept, Retry
<1>7. acceptRequests' \in Seq(RequestSet)
  <2>1. <<>> \in Seq(RequestSet)
    OBVIOUS
  <2>2. \/ acceptRequests = <<>> /\ acceptRequests' = <<>>
        \/ acceptRequests # <<>> /\ acceptRequests' = Tail(acceptRequests)
        \/ acceptRequests # <<>> /\ acceptRequests' = Append(Tail(acceptRequests), request)
    BY <1>6
  <2> HIDE DEF request, client, p
  <2> QED BY <1>5, <2>1, <2>2
<1>8. QueuesTyped'
  BY <1>4, <1>7 DEF QueuesTyped
<1>9. ASSUME acceptRequests # <<>>, client # {}, FreeFds # {},
             file' = [file EXCEPT ![NextFd] = [kind |-> "conn", conn |-> Min(client)]],
             conn' = [conn EXCEPT ![Min(client)].state = "open"],
             Deliver("service", p, Signal("connected", Min(client), 0))
      PROVE  \E fd \in Fd, c \in Conn, q \in Listener :
               /\ file[fd] = Free /\ conn[c].state = "waiting"
               /\ FilesTyped' /\ FileBecomes(fd, "conn", c) /\ OthersStay(c)
               /\ conn'[c].state = "open" /\ conn'[c].owner = conn[c].owner
               /\ conn'[c].fd = conn[c].fd /\ conn'[c].sent = conn[c].sent
               /\ conn'[c].read = conn[c].read
               /\ SignalsTyped' /\ Sends(q, <<Signal("connected", c, 0)>>)
  <2> DEFINE c == Min(client)
             fd == NextFd
  <2>1. fd \in Fd /\ file[fd] = Free
    BY <1>9, NextFdIs
  <2>2. c \in Conn /\ conn[c].state = "waiting"
    <3>1. client \subseteq Conn /\ client \subseteq Nat
      BY Numbers DEF Waiting
    <3> HIDE DEF client
    <3>2. c \in client
      BY <1>9, <3>1, MinIs
    <3> USE DEF client
    <3> QED BY <3>2 DEF Waiting
  <2>3. /\ file' = [file EXCEPT ![fd] = [kind |-> "conn", conn |-> c]]
        /\ conn' = [conn EXCEPT ![c].state = "open"]
        /\ Deliver("service", p, Signal("connected", c, 0))
    BY <1>9
  <2> HIDE DEF c, fd, client
  <2>4. file' \in [Fd -> FileSet] /\ FileBecomes(fd, "conn", c)
    BY <2>1, <2>2, <2>3, FileStep
  <2> DEFINE new == [conn[c] EXCEPT !.state = "open"]
  <2>5. /\ new \in ConnSet /\ new.state = "open" /\ new.owner = conn[c].owner
        /\ new.fd = conn[c].fd /\ new.sent = conn[c].sent /\ new.read = conn[c].read
    <3>1. conn[c] \in ConnSet
      BY <2>2 DEF FilesTyped
    <3> QED BY <3>1 DEF ConnSet
  <2>6. conn' = [conn EXCEPT ![c] = new]
    BY <2>2, <2>3 DEF FilesTyped
  <2> HIDE DEF new
  <2>7. conn' \in [Conn -> ConnSet] /\ OthersStay(c) /\ conn'[c] = new
    BY <2>2, <2>5, <2>6, ConnStep
  <2>8. FilesTyped'
    BY <2>4, <2>7 DEF FilesTyped
  <2>9. SignalsTyped' /\ Sends(p, <<Signal("connected", c, 0)>>) /\ p \in Listener
    <3>1. p \in Listener
      BY <1>5, <1>9
    <3> HIDE DEF p
    <3>2. p \in Port /\ "service" \in Thread
      BY <3>1, Numbers DEF Thread
    <3>3. Signal("connected", c, 0) \in SignalSet
      BY <2>2 DEF Signal, SignalSet
    <3> QED BY <2>3, <3>1, <3>2, <3>3, DeliverDoes
  <2> HIDE DEF p, FileBecomes, OthersStay
  <2> QED BY <2>1, <2>2, <2>4, <2>5, <2>7, <2>8, <2>9
<1> HIDE DEF request, client, p
<1> QED BY <1>1, <1>2, <1>3, <1>4, <1>6, <1>8, <1>9

-----------------------------------------------------------------------------
(* The environment. *)

\* The peer of an open connection that has a descriptor sends a line, or closes.
LEMMA PeerDoes ==
  ASSUME FilesTyped, NEW c \in Conn, Peer(c)
  PROVE  /\ conn[c].state = "open" /\ \E fd \in Fd : file[fd].conn = c
         /\ FilesTyped' /\ file' = file /\ OthersStay(c)
         /\ conn'[c].fd = conn[c].fd /\ conn'[c].read = conn[c].read
         /\ conn'[c].owner = conn[c].owner
         /\ \/ conn'[c].state = conn[c].state /\ conn'[c].sent = conn[c].sent + 1
            \/ conn'[c].state = "closed" /\ conn'[c].sent = conn[c].sent
         /\ UNCHANGED <<maps, queues, loop, inbox, calls, alive, pc, at, history, ended>>
<1>1. conn[c] \in ConnSet
  BY DEF FilesTyped
<1>2. \E fd \in Fd : file[fd].conn = c
  BY DEF Peer, ConnOf
<1>3. \E new \in ConnSet :
        /\ conn' = [conn EXCEPT ![c] = new]
        /\ new.fd = conn[c].fd /\ new.read = conn[c].read /\ new.owner = conn[c].owner
        /\ \/ new.state = conn[c].state /\ new.sent = conn[c].sent + 1
           \/ new.state = "closed" /\ new.sent = conn[c].sent
  <2>1. \/ conn' = [conn EXCEPT ![c].sent = @ + 1]
        \/ conn' = [conn EXCEPT ![c].state = "closed"]
    BY DEF Peer
  <2>2. CASE conn' = [conn EXCEPT ![c].sent = @ + 1]
    <3> DEFINE new == [conn[c] EXCEPT !.sent = @ + 1]
    <3>1. /\ new \in ConnSet /\ new.fd = conn[c].fd /\ new.read = conn[c].read
          /\ new.owner = conn[c].owner /\ new.state = conn[c].state
          /\ new.sent = conn[c].sent + 1
      BY <1>1 DEF ConnSet
    <3>2. conn' = [conn EXCEPT ![c] = new]
      BY <2>2 DEF FilesTyped
    <3> HIDE DEF new
    <3> QED BY <3>1, <3>2
  <2>3. CASE conn' = [conn EXCEPT ![c].state = "closed"]
    <3> DEFINE new == [conn[c] EXCEPT !.state = "closed"]
    <3>1. /\ new \in ConnSet /\ new.fd = conn[c].fd /\ new.read = conn[c].read
          /\ new.owner = conn[c].owner /\ new.state = "closed"
          /\ new.sent = conn[c].sent
      BY <1>1 DEF ConnSet
    <3>2. conn' = [conn EXCEPT ![c] = new]
      BY <2>3 DEF FilesTyped
    <3> HIDE DEF new
    <3> QED BY <3>1, <3>2
  <2> QED BY <2>1, <2>2, <2>3
<1>4. PICK new \in ConnSet :
        /\ conn' = [conn EXCEPT ![c] = new]
        /\ new.fd = conn[c].fd /\ new.read = conn[c].read /\ new.owner = conn[c].owner
        /\ \/ new.state = conn[c].state /\ new.sent = conn[c].sent + 1
           \/ new.state = "closed" /\ new.sent = conn[c].sent
  BY <1>3
<1>5. conn' \in [Conn -> ConnSet] /\ OthersStay(c) /\ conn'[c] = new
  BY <1>4, ConnStep
<1>6. UNCHANGED <<maps, queues, file, loop, inbox, calls, alive, pc, at, history, ended>>
      /\ conn[c].state = "open"
  BY DEF Peer
<1>7. FilesTyped'
  BY <1>5, <1>6 DEF FilesTyped
<1> HIDE DEF OthersStay
<1> QED BY <1>2, <1>4, <1>5, <1>6, <1>7

LEMMA ClientArrivesDoes ==
  ASSUME FilesTyped, NEW fd \in Fd, ClientArrives(fd)
  PROVE  \E c \in Conn :
           /\ conn[c] = NoConn /\ file[fd].kind = "listen"
           /\ FilesTyped' /\ file' = file /\ OthersStay(c)
           /\ conn'[c].state = "waiting" /\ conn'[c].fd = fd /\ conn'[c].owner = None
           /\ conn'[c].sent = 0 /\ conn'[c].read = 0
           /\ UNCHANGED <<maps, queues, loop, inbox, calls, alive, pc, at, history, ended>>
<1>1. PICK c \in NextConn :
        conn' = [conn EXCEPT ![c] = [NoConn EXCEPT !.state = "waiting", !.fd = fd]]
  BY DEF ClientArrives
<1>2. c \in Conn /\ conn[c] = NoConn
  BY DEF NextConn
<1> DEFINE new == [NoConn EXCEPT !.state = "waiting", !.fd = fd]
<1>3. /\ new \in ConnSet /\ new.state = "waiting" /\ new.fd = fd /\ new.owner = None
      /\ new.sent = 0 /\ new.read = 0
  BY NoConnIs DEF NoConn, ConnSet
<1>4. conn' = [conn EXCEPT ![c] = new]
  BY <1>1
<1> HIDE DEF new
<1>5. conn' \in [Conn -> ConnSet] /\ OthersStay(c) /\ conn'[c] = new
  BY <1>2, <1>3, <1>4, ConnStep
<1>6. UNCHANGED <<maps, queues, file, loop, inbox, calls, alive, pc, at, history, ended>>
      /\ file[fd].kind = "listen"
  BY DEF ClientArrives, Listening
<1>7. FilesTyped'
  BY <1>5, <1>6 DEF FilesTyped
<1> HIDE DEF OthersStay
<1> QED BY <1>2, <1>3, <1>5, <1>6, <1>7

-----------------------------------------------------------------------------
(* The steps of the capsules' thread, of the service's thread, and of the rest. *)

UserMoves ==
  \/ Collect \/ PutSocket \/ PutId \/ PutSlot
  \/ CloseSocket("user") \/ RemoveSocket("user") \/ RemoveId("user") \/ RemoveSlot("user")
  \/ \E p \in Port : \/ Connect(p) \/ Listen(p) \/ Fail(p) \/ Send(p) \/ AcceptCall(p)
                     \/ DisconnectCall(p) \/ Destroy(p)
  \/ \E p \in Port, fd \in Fd : Attach(p, fd)
  \/ \E c \in Conn : Peer(c)
  \/ \E fd \in Fd : ClientArrives(fd)

ServiceMoves ==
  \/ TakeMessage \/ Write \/ Lock \/ Visit \/ FindSocket \/ Recv \/ Unlock \/ Drop \/ Accept
  \/ CloseSocket("service") \/ RemoveSocket("service") \/ RemoveId("service")
  \/ RemoveSlot("service")

LEMMA Moves == Next => UserMoves \/ ServiceMoves
BY DEF Next, UserStep, Call, ConnectFails, ListenFails, ServiceStep, Environment, Disconnecting,
       UserMoves, ServiceMoves

\* A part of the state that stays keeps its types.
LEMMA TypesKept ==
  /\ UNCHANGED maps => (MapsTyped => MapsTyped')
  /\ UNCHANGED queues => (QueuesTyped => QueuesTyped')
  /\ UNCHANGED inbox => (SignalsTyped => SignalsTyped')
  /\ UNCHANGED <<pc, at>> => (ThreadsTyped => ThreadsTyped')
  /\ UNCHANGED network => (FilesTyped => FilesTyped')
  /\ UNCHANGED <<history, calls, alive>> => (HistoryTyped => HistoryTyped')
  /\ UNCHANGED loop => (LoopTyped => LoopTyped')
BY DEF maps, queues, inbox, network, history, loop, MapsTyped, QueuesTyped, SignalsTyped,
       ThreadsTyped, FilesTyped, HistoryTyped, LoopTyped

\* A map has no more slots than there are ports.
LEMMA SlotCount ==
  ASSUME MapsTyped
  PROVE  Len(slotIdMap) <= Cardinality(Port) /\ Cardinality(Port) \in Nat
<1> DEFINE n == Len(slotIdMap)
           f == [i \in 1 .. n |-> slotIdMap[i].key]
<1>1. Sound(slotIdMap, Port)
  BY MapsSound DEF Paired
<1>2. n \in Nat /\ \A i \in 1 .. n : slotIdMap[i].key \in Port /\ slotIdMap[i].key \in Nat
  BY <1>1, SlotsOf
<1>3. \A i, j \in 1 .. n : i < j => slotIdMap[i].key < slotIdMap[j].key
  BY <1>1 DEF Sound, Sorted
<1>4. f \in [1 .. n -> Port] /\ \A i, j \in 1 .. n : f[i] = f[j] => i = j
  <2>1. \A i, j \in 1 .. n : i # j => i < j \/ j < i
    BY <1>2
  <2> HIDE DEF n
  <2> QED BY <1>2, <1>3, <2>1
<1>5. IsFiniteSet(1 .. n) /\ Cardinality(1 .. n) = n
  <2> HIDE DEF n
  <2>1. 1 \in Int /\ n \in Int
    BY <1>2
  <2>2. IsFiniteSet(1 .. n) /\ Cardinality(1 .. n) = IF 1 > n THEN 0 ELSE n - 1 + 1
    BY <2>1, FS_Interval
  <2> QED BY <1>2, <2>2
<1> HIDE DEF f
<1>6. f \in Injection(1 .. n, Port)
  BY <1>4 DEF Injection, IsInjective
<1>7. IsFiniteSet(Port) /\ Cardinality(Port) \in Nat
  BY PortIsNumber, FS_CardinalityType
<1>8. Cardinality(1 .. n) <= Cardinality(Port)
  BY <1>6, <1>7, FS_Injection
<1> QED BY <1>5, <1>7, <1>8

LEMMA TypedUser ==
  ASSUME Typed, Places, UserMoves
  PROVE  Typed'
<1> USE DEF Typed
<1>1. ASSUME Collect PROVE Typed'
  BY <1>1, CollectDoes, TypesKept
<1>2. ASSUME PutSocket PROVE Typed'
  BY <1>2, PutSocketDoes, TypesKept
<1>3. ASSUME PutId PROVE Typed'
  BY <1>3, PutIdDoes, TypesKept
<1>4. ASSUME PutSlot PROVE Typed'
  BY <1>4, PutSlotDoes, TypesKept
<1>5. ASSUME CloseSocket("user") PROVE Typed'
  BY <1>5, CloseSocketDoes, TypesKept DEF Thread
<1>6. ASSUME RemoveSocket("user") PROVE Typed'
  BY <1>6, RemoveSocketDoes, TypesKept DEF Thread
<1>7. ASSUME RemoveId("user") PROVE Typed'
  BY <1>7, RemoveIdDoes, TypesKept DEF Thread
<1>8. ASSUME RemoveSlot("user") PROVE Typed'
  BY <1>8, RemoveSlotDoes, TypesKept DEF Thread
<1>9. ASSUME NEW p \in Port, Connect(p) PROVE Typed'
  <2>1. ThreadsTyped' /\ FilesTyped' /\ UNCHANGED <<maps, queues, loop, inbox, calls, alive, history>>
    BY <1>9, ConnectDoes DEF Begins
  <2> QED BY <2>1, TypesKept
<1>10. ASSUME NEW p \in Port, Listen(p) PROVE Typed'
  <2>1. ThreadsTyped' /\ FilesTyped' /\ UNCHANGED <<maps, queues, loop, inbox, calls, alive, history>>
    BY <1>10, ListenDoes DEF Begins
  <2> QED BY <2>1, TypesKept
<1>11. ASSUME NEW p \in Port, Fail(p) PROVE Typed'
  BY <1>11, FailDoes, TypesKept
<1>12. ASSUME NEW p \in Port, Send(p) PROVE Typed'
  BY <1>12, SendDoes, TypesKept
<1>13. ASSUME NEW p \in Port, AcceptCall(p) PROVE Typed'
  BY <1>13, AcceptCallDoes, TypesKept
<1>14. ASSUME NEW p \in Port, DisconnectCall(p) PROVE Typed'
  BY <1>14, DisconnectCallDoes, TypesKept
<1>15. ASSUME NEW p \in Port, Destroy(p) PROVE Typed'
  BY <1>15, DestroyDoes, TypesKept
<1>16. ASSUME NEW p \in Port, NEW fd \in Fd, Attach(p, fd) PROVE Typed'
  <2>1. ThreadsTyped' /\ FilesTyped' /\ UNCHANGED <<maps, queues, loop, inbox, calls, alive, history>>
    BY <1>16, AttachDoes DEF Begins
  <2> QED BY <2>1, TypesKept
<1>17. ASSUME NEW c \in Conn, Peer(c) PROVE Typed'
  BY <1>17, PeerDoes, TypesKept
<1>18. ASSUME NEW fd \in Fd, ClientArrives(fd) PROVE Typed'
  BY <1>18, ClientArrivesDoes, TypesKept
<1> HIDE DEF Typed
<1> QED BY <1>1, <1>2, <1>3, <1>4, <1>5, <1>6, <1>7, <1>8, <1>9, <1>10, <1>11, <1>12, <1>13, <1>14,
           <1>15, <1>16, <1>17, <1>18 DEF UserMoves

LEMMA TypedService ==
  ASSUME Typed, Places, Iterates, ServiceMoves
  PROVE  Typed'
<1> USE DEF Typed
<1>1. ASSUME TakeMessage PROVE Typed'
  BY <1>1, TakeMessageDoes, TypesKept
<1>2. ASSUME Write PROVE Typed'
  BY <1>2, WriteDoes, TypesKept DEF Rests
<1>3. ASSUME Lock PROVE Typed'
  <2>1. LoopTyped'
    BY <1>3, LockDoes, SlotCount DEF LoopTyped
  <2> QED BY <1>3, <2>1, LockDoes, TypesKept
<1>4. ASSUME Visit PROVE Typed'
  <2>1. LoopTyped'
    <3>1. index \in 1 .. Len(slotIdMap) /\ index' \in {index, index + 1} /\ slotLocked' = slotLocked
      BY <1>4, VisitDoes
    <3> QED BY <3>1, SlotCount DEF LoopTyped
  <2> QED BY <1>4, <2>1, VisitDoes, TypesKept
<1>5. ASSUME FindSocket PROVE Typed'
  BY <1>5, FindSocketDoes, TypesKept
<1>6. ASSUME Recv PROVE Typed'
  <2>1. LoopTyped'
    <3>1. index \in 1 .. Len(slotIdMap) /\ index' = index + 1 /\ slotLocked' = slotLocked
      BY <1>6, RecvDoes DEF Iterates
    <3> QED BY <3>1, SlotCount DEF LoopTyped
  <2>2. /\ ThreadsTyped' /\ SignalsTyped' /\ QueuesTyped' /\ FilesTyped'
        /\ UNCHANGED <<maps, calls, alive, history>>
    BY <1>6, RecvDoes DEF Rests
  <2> QED BY <2>1, <2>2, TypesKept
<1>7. ASSUME Unlock PROVE Typed'
  <2>1. LoopTyped'
    BY <1>7, UnlockDoes, SlotCount DEF LoopTyped
  <2> QED BY <1>7, <2>1, UnlockDoes, TypesKept
<1>8. ASSUME Drop PROVE Typed'
  BY <1>8, DropDoes, TypesKept
<1>9. ASSUME Accept PROVE Typed'
  <2>1. /\ ThreadsTyped' /\ QueuesTyped'
        /\ UNCHANGED <<network, inbox>> \/ (FilesTyped' /\ SignalsTyped')
        /\ UNCHANGED <<maps, loop, calls, alive, history>>
    BY <1>9, AcceptDoes
  <2> QED BY <2>1, TypesKept
<1>10. ASSUME CloseSocket("service") PROVE Typed'
  BY <1>10, CloseSocketDoes, TypesKept DEF Thread
<1>11. ASSUME RemoveSocket("service") PROVE Typed'
  BY <1>11, RemoveSocketDoes, TypesKept DEF Thread
<1>12. ASSUME RemoveId("service") PROVE Typed'
  BY <1>12, RemoveIdDoes, TypesKept DEF Thread
<1>13. ASSUME RemoveSlot("service") PROVE Typed'
  BY <1>13, RemoveSlotDoes, TypesKept DEF Thread
<1> HIDE DEF Typed
<1> QED BY <1>1, <1>2, <1>3, <1>4, <1>5, <1>6, <1>7, <1>8, <1>9, <1>10, <1>11, <1>12, <1>13
        DEF ServiceMoves

-----------------------------------------------------------------------------
(* Where the threads are. *)

UserPlace ==
  /\ pc["user"] \in {"idle", "putSocket", "putId", "putSlot", "close", "removeSocket",
                     "removeId", "removeSlot"}
  /\ pc["user"] # "idle" => at["user"].port \in Port
  /\ pc["user"] \in {"putSocket", "putId", "putSlot", "close"} => at["user"].fd \in Fd

ServicePlace ==
  /\ pc["service"] \in {"send", "write", "visit", "getSocket", "recv", "drop", "close",
                        "removeSocket", "removeId", "removeSlot"}
  /\ pc["service"] \notin {"send", "visit", "drop"} => at["service"].port \in Port
  /\ pc["service"] \in {"close", "write", "recv"} => at["service"].fd \in Fd
  /\ pc["service"] \notin {"removeSocket", "removeId", "removeSlot"} =>
       at["service"].conn = None

LEMMA PlacesAre == Places <=> UserPlace /\ ServicePlace
BY DEF Places, UserPlace, ServicePlace, Thread

ServiceStill == pc'["service"] = pc["service"] /\ at'["service"] = at["service"]
UserStill    == pc'["user"] = pc["user"] /\ at'["user"] = at["user"]

\* What the capsules' thread and the environment leave alone.
Aside ==
  /\ ServiceStill /\ UNCHANGED <<loop, toDisconnect, written>>
  /\ slotIdMap' = slotIdMap \/ ~slotLocked
  /\ calls' \in {calls, calls + 1}
  /\ outQueue' = outQueue \/ \E p \in Port : Send(p)

LEMMA UserAside ==
  ASSUME Typed, Places, UserMoves
  PROVE  Aside /\ UserPlace'
<1> USE DEF Typed
<1>0. UserPlace
  BY PlacesAre
<1>1. ASSUME Collect PROVE Aside /\ UserPlace'
  BY <1>0, <1>1, CollectDoes DEF Aside, ServiceStill, maps, queues, history, UserPlace
<1>2. ASSUME PutSocket PROVE Aside /\ UserPlace'
  BY <1>0, <1>2, PutSocketDoes DEF Aside, ServiceStill, maps, queues, history, UserPlace
<1>3. ASSUME PutId PROVE Aside /\ UserPlace'
  BY <1>0, <1>3, PutIdDoes DEF Aside, ServiceStill, maps, queues, history, UserPlace
<1>4. ASSUME PutSlot PROVE Aside /\ UserPlace'
  BY <1>0, <1>4, PutSlotDoes DEF Aside, ServiceStill, maps, queues, history, UserPlace
<1>5. ASSUME CloseSocket("user") PROVE Aside /\ UserPlace'
  BY <1>0, <1>5, CloseSocketDoes DEF Aside, ServiceStill, maps, queues, history, UserPlace, Thread
<1>6. ASSUME RemoveSocket("user") PROVE Aside /\ UserPlace'
  BY <1>0, <1>6, RemoveSocketDoes DEF Aside, ServiceStill, maps, queues, history, UserPlace, Thread
<1>7. ASSUME RemoveId("user") PROVE Aside /\ UserPlace'
  BY <1>0, <1>7, RemoveIdDoes DEF Aside, ServiceStill, maps, queues, history, UserPlace, Thread
<1>8. ASSUME RemoveSlot("user") PROVE Aside /\ UserPlace'
  BY <1>0, <1>8, RemoveSlotDoes DEF Aside, ServiceStill, maps, queues, history, UserPlace, Thread
<1>9. ASSUME NEW p \in Port, Connect(p) PROVE Aside /\ UserPlace'
  <2>1. PICK fd \in Fd, c \in Conn : Begins(p, fd, c)
    BY <1>9, ConnectDoes
  <2> QED BY <1>0, <2>1 DEF Begins, Aside, ServiceStill, maps, queues, history, UserPlace
<1>10. ASSUME NEW p \in Port, Listen(p) PROVE Aside /\ UserPlace'
  <2>1. PICK fd \in Fd : Begins(p, fd, None)
    BY <1>10, ListenDoes
  <2> QED BY <1>0, <2>1 DEF Begins, Aside, ServiceStill, maps, queues, history, UserPlace
<1>11. ASSUME NEW p \in Port, Fail(p) PROVE Aside /\ UserPlace'
  BY <1>0, <1>11, FailDoes DEF Aside, ServiceStill, maps, queues, history, UserPlace
<1>12. ASSUME NEW p \in Port, Send(p) PROVE Aside /\ UserPlace'
  BY <1>0, <1>12, SendDoes DEF Aside, ServiceStill, maps, queues, history, UserPlace
<1>13. ASSUME NEW p \in Port, AcceptCall(p) PROVE Aside /\ UserPlace'
  BY <1>0, <1>13, AcceptCallDoes DEF Aside, ServiceStill, maps, queues, history, UserPlace
<1>14. ASSUME NEW p \in Port, DisconnectCall(p) PROVE Aside /\ UserPlace'
  BY <1>0, <1>14, DisconnectCallDoes DEF Aside, ServiceStill, maps, queues, history, UserPlace
<1>15. ASSUME NEW p \in Port, Destroy(p) PROVE Aside /\ UserPlace'
  BY <1>0, <1>15, DestroyDoes DEF Aside, ServiceStill, maps, queues, history, UserPlace
<1>16. ASSUME NEW p \in Port, NEW fd \in Fd, Attach(p, fd) PROVE Aside /\ UserPlace'
  <2>1. Begins(p, fd, None)
    BY <1>16, AttachDoes
  <2> QED BY <1>0, <2>1 DEF Begins, Aside, ServiceStill, maps, queues, history, UserPlace
<1>17. ASSUME NEW c \in Conn, Peer(c) PROVE Aside /\ UserPlace'
  BY <1>0, <1>17, PeerDoes DEF Aside, ServiceStill, maps, queues, history, UserPlace
<1>18. ASSUME NEW fd \in Fd, ClientArrives(fd) PROVE Aside /\ UserPlace'
  BY <1>0, <1>18, ClientArrivesDoes DEF Aside, ServiceStill, maps, queues, history, UserPlace
<1> HIDE DEF Typed
<1> QED BY <1>1, <1>2, <1>3, <1>4, <1>5, <1>6, <1>7, <1>8, <1>9, <1>10, <1>11, <1>12, <1>13, <1>14,
           <1>15, <1>16, <1>17, <1>18 DEF UserMoves

LEMMA PlacesThen == ASSUME UserPlace', ServicePlace' PROVE Places'
<1>1. (Places <=> UserPlace /\ ServicePlace)'
  BY PlacesAre, PTL
<1> QED BY <1>1

LEMMA PlacesUser ==
  ASSUME Typed, Places, UserMoves
  PROVE  Places'
<1>1. ServicePlace
  BY PlacesAre
<1>2. ServiceStill /\ UserPlace'
  BY UserAside DEF Aside
<1>3. ServicePlace'
  BY <1>1, <1>2 DEF ServicePlace, ServiceStill
<1> QED BY <1>2, <1>3, PlacesThen

LEMMA PlacesService ==
  ASSUME Typed, Places, Iterates, ServiceMoves
  PROVE  Places' /\ UserStill
<1> USE DEF Typed
<1>0. UserPlace /\ ServicePlace
  BY PlacesAre
<1>1. ASSUME TakeMessage PROVE ServicePlace' /\ UserStill
  <2>1. \/ UNCHANGED <<pc, at>>
        \/ /\ outQueue[1].port \in Sockets /\ outQueue[1].port \in Port
           /\ pc'["service"] = "write" /\ at'["service"].port = outQueue[1].port
           /\ at'["service"].fd = GetSocket(outQueue[1].port)
           /\ at'["service"].conn = None /\ UserStill
    BY <1>1, TakeMessageDoes DEF UserStill, MessageSet
  <2> QED BY <1>0, <2>1, SocketIs DEF ServicePlace, UserStill
<1>2. ASSUME Write PROVE ServicePlace' /\ UserStill
  BY <1>0, <1>2, WriteDoes DEF ServicePlace, UserStill, Rests
<1>3. ASSUME Lock PROVE ServicePlace' /\ UserStill
  BY <1>0, <1>3, LockDoes DEF ServicePlace, UserStill
<1>4. ASSUME Visit PROVE ServicePlace' /\ UserStill
  BY <1>0, <1>4, VisitDoes DEF ServicePlace, UserStill
<1>5. ASSUME FindSocket PROVE ServicePlace' /\ UserStill
  BY <1>0, <1>5, FindSocketDoes DEF ServicePlace, UserStill
<1>6. ASSUME Recv PROVE ServicePlace' /\ UserStill
  BY <1>0, <1>6, RecvDoes DEF ServicePlace, UserStill, Rests
<1>7. ASSUME Unlock PROVE ServicePlace' /\ UserStill
  BY <1>0, <1>7, UnlockDoes DEF ServicePlace, UserStill
<1>8. ASSUME Drop PROVE ServicePlace' /\ UserStill
  BY <1>0, <1>8, DropDoes DEF ServicePlace, UserStill
<1>9. ASSUME Accept PROVE ServicePlace' /\ UserStill
  BY <1>0, <1>9, AcceptDoes DEF ServicePlace, UserStill
<1>10. ASSUME CloseSocket("service") PROVE ServicePlace' /\ UserStill
  BY <1>0, <1>10, CloseSocketDoes DEF ServicePlace, UserStill, Thread
<1>11. ASSUME RemoveSocket("service") PROVE ServicePlace' /\ UserStill
  BY <1>0, <1>11, RemoveSocketDoes DEF ServicePlace, UserStill, Thread
<1>12. ASSUME RemoveId("service") PROVE ServicePlace' /\ UserStill
  BY <1>0, <1>12, RemoveIdDoes DEF ServicePlace, UserStill, Thread
<1>13. ASSUME RemoveSlot("service") PROVE ServicePlace' /\ UserStill
  BY <1>0, <1>13, RemoveSlotDoes DEF ServicePlace, UserStill, Thread
<1>14. ServicePlace' /\ UserStill
  BY <1>1, <1>2, <1>3, <1>4, <1>5, <1>6, <1>7, <1>8, <1>9, <1>10, <1>11, <1>12, <1>13
     DEF ServiceMoves
<1>15. UserPlace'
  BY <1>0, <1>14 DEF UserPlace, UserStill
<1> QED BY <1>14, <1>15, PlacesThen

-----------------------------------------------------------------------------
(* The iterator. *)

LEMMA IteratesUser ==
  ASSUME Typed, Places, Iterates, UserMoves
  PROVE  Iterates'
<1>1. Aside
  BY UserAside
<1> QED BY <1>1 DEF Aside, ServiceStill, loop, Iterates

LEMMA IteratesService ==
  ASSUME Typed, Places, Iterates, ServiceMoves
  PROVE  Iterates'
<1> USE DEF Typed
<1>0. Len(slotIdMap) \in Nat
  BY MapsSound, SlotsOf DEF Paired
<1>1. ASSUME TakeMessage PROVE Iterates'
  <2>1. /\ pc["service"] = "send" /\ pc'["service"] \in {"send", "write"}
        /\ UNCHANGED <<maps, loop>>
    BY <1>1, TakeMessageDoes
  <2> QED BY <2>1 DEF Iterates, maps, loop
<1>2. ASSUME Write PROVE Iterates'
  BY <1>2, WriteDoes DEF Iterates, maps, loop, Rests
<1>3. ASSUME Lock PROVE Iterates'
  BY <1>0, <1>3, LockDoes DEF Iterates, maps
<1>4. ASSUME Visit PROVE Iterates'
  BY <1>0, <1>4, VisitDoes DEF Iterates
<1>5. ASSUME FindSocket PROVE Iterates'
  BY <1>5, FindSocketDoes DEF Iterates, maps, loop
<1>6. ASSUME Recv PROVE Iterates'
  BY <1>0, <1>6, RecvDoes DEF Iterates, maps, Rests
<1>7. ASSUME Unlock PROVE Iterates'
  BY <1>7, UnlockDoes DEF Iterates, maps
<1>8. ASSUME Drop PROVE Iterates'
  BY <1>8, DropDoes DEF Iterates, maps, loop
<1>9. ASSUME Accept PROVE Iterates'
  BY <1>9, AcceptDoes DEF Iterates, maps, loop
<1>10. ASSUME CloseSocket("service") PROVE Iterates'
  BY <1>10, CloseSocketDoes DEF Iterates, maps, loop, Thread
<1>11. ASSUME RemoveSocket("service") PROVE Iterates'
  BY <1>11, RemoveSocketDoes DEF Iterates, loop, Thread
<1>12. ASSUME RemoveId("service") PROVE Iterates'
  BY <1>12, RemoveIdDoes DEF Iterates, loop, Thread
<1>13. ASSUME RemoveSlot("service") PROVE Iterates'
  BY <1>13, RemoveSlotDoes DEF Iterates, loop, Thread
<1> HIDE DEF Typed
<1> QED BY <1>1, <1>2, <1>3, <1>4, <1>5, <1>6, <1>7, <1>8, <1>9, <1>10, <1>11, <1>12, <1>13
        DEF ServiceMoves

-----------------------------------------------------------------------------
(* The numbers of the messages. *)

LEMMA MessagesAre ==
  ASSUME Typed
  PROVE  /\ calls \in Nat /\ Len(outQueue) \in Nat /\ at["service"].n \in Nat
         /\ \A i \in 1 .. Len(outQueue) :
              outQueue[i] \in MessageSet /\ outQueue[i].n \in Nat /\ outQueue[i].port \in Port
         /\ \A p \in Port :
              /\ written[p] \in Seq(WrittenSet) /\ Len(written[p]) \in Nat
              /\ \A i \in 1 .. Len(written[p]) :
                   written[p][i].n \in Nat /\ written[p][i].conn \in Conn
<1>1. calls \in Nat
  BY DEF Typed, HistoryTyped
<1>2. Len(outQueue) \in Nat /\ \A i \in 1 .. Len(outQueue) : outQueue[i] \in MessageSet
  BY ElementOfSeq DEF Typed, QueuesTyped
<1>3. \A m \in MessageSet : m.n \in Nat /\ m.port \in Port
  BY DEF MessageSet
<1>4. at["service"].n \in Nat
  BY DEF Typed, ThreadsTyped, AtSet, Thread
<1>5. \A p \in Port : written[p] \in Seq(WrittenSet)
  BY DEF Typed, HistoryTyped
<1>6. \A m \in WrittenSet : m.n \in Nat /\ m.conn \in Conn
  BY DEF WrittenSet
<1>7. ASSUME NEW p \in Port
      PROVE  /\ Len(written[p]) \in Nat
             /\ \A i \in 1 .. Len(written[p]) : written[p][i] \in WrittenSet
  BY <1>5, ElementOfSeq
<1> QED BY <1>1, <1>2, <1>3, <1>4, <1>5, <1>6, <1>7

LEMMA NumbersUser ==
  ASSUME Typed, Places, NumbersGrow, UserMoves
  PROVE  NumbersGrow'
<1>1. Aside
  BY UserAside
<1>2. /\ calls \in Nat /\ Len(outQueue) \in Nat /\ at["service"].n \in Nat
      /\ \A i \in 1 .. Len(outQueue) : outQueue[i].n \in Nat
      /\ \A p \in Port : /\ Len(written[p]) \in Nat
                         /\ \A i \in 1 .. Len(written[p]) : written[p][i].n \in Nat
  BY MessagesAre
<1>3. CASE outQueue' = outQueue
  BY <1>1, <1>2, <1>3 DEF Aside, ServiceStill, NumbersGrow
<1>4. ASSUME NEW p \in Port, Send(p) PROVE NumbersGrow'
  <2>1. /\ p \notin Listener /\ calls' = calls + 1 /\ Len(outQueue') = Len(outQueue) + 1
        /\ \A i \in 1 .. Len(outQueue) : outQueue'[i] = outQueue[i]
        /\ outQueue'[Len(outQueue) + 1].port = p /\ outQueue'[Len(outQueue) + 1].n = calls + 1
    BY <1>4, SendDoes DEF Typed
  <2>2. ServiceStill /\ written' = written
    BY <1>1 DEF Aside
  <2>3. ASSUME NEW i \in 1 .. Len(outQueue')
        PROVE  /\ outQueue'[i].n <= calls' /\ outQueue'[i].port \notin Listener
               /\ \A j \in 1 .. i - 1 : outQueue'[j].n < outQueue'[i].n
               /\ pc'["service"] = "write" => at'["service"].n < outQueue'[i].n
               /\ \A q \in Port : \A j \in 1 .. Len(written'[q]) : written'[q][j].n < outQueue'[i].n
    <3>1. CASE i \in 1 .. Len(outQueue)
      <4>1. /\ outQueue[i].n <= calls /\ outQueue[i].port \notin Listener
            /\ \A j \in 1 .. i - 1 : outQueue[j].n < outQueue[i].n
            /\ pc["service"] = "write" => at["service"].n < outQueue[i].n
            /\ \A q \in Port : \A j \in 1 .. Len(written[q]) : written[q][j].n < outQueue[i].n
        BY <3>1 DEF NumbersGrow
      <4>2. \A j \in 1 .. i - 1 : outQueue'[j] = outQueue[j]
        BY <1>2, <2>1, <3>1
      <4>3. outQueue'[i] = outQueue[i] /\ outQueue[i].n \in Nat
        BY <1>2, <2>1, <3>1
      <4> QED BY <1>2, <2>1, <2>2, <4>1, <4>2, <4>3 DEF ServiceStill
    <3>2. CASE i = Len(outQueue) + 1
      BY <1>2, <2>1, <2>2, <3>2 DEF NumbersGrow, ServiceStill
    <3> QED BY <1>2, <2>1, <3>1, <3>2
  <2>4. /\ pc'["service"] = "write" => at'["service"].n <= calls' /\ at'["service"].port \notin Listener
        /\ \A q \in Port : \A i \in 1 .. Len(written'[q]) :
             /\ written'[q][i].n <= calls'
             /\ \A j \in 1 .. i - 1 : written'[q][j].n < written'[q][i].n
             /\ pc'["service"] = "write" => written'[q][i].n < at'["service"].n
    BY <1>2, <2>1, <2>2 DEF NumbersGrow, ServiceStill
  <2> QED BY <2>3, <2>4 DEF NumbersGrow
<1> QED BY <1>1, <1>3, <1>4 DEF Aside

LEMMA NumbersService ==
  ASSUME Typed, Places, Iterates, NumbersGrow, ServiceMoves
  PROVE  NumbersGrow'
<1> USE DEF Typed
<1>0. /\ calls \in Nat /\ Len(outQueue) \in Nat /\ at["service"].n \in Nat
      /\ \A i \in 1 .. Len(outQueue) : outQueue[i].n \in Nat
      /\ \A p \in Port : written[p] \in Seq(WrittenSet)
      /\ \A p \in Port : /\ Len(written[p]) \in Nat
                         /\ \A i \in 1 .. Len(written[p]) : written[p][i].n \in Nat
  BY MessagesAre
<1>1. ASSUME TakeMessage PROVE NumbersGrow'
  <2>1. /\ Len(outQueue) \in Nat \ {0} /\ Len(outQueue') = Len(outQueue) - 1
        /\ \A i \in 1 .. Len(outQueue) - 1 : outQueue'[i] = outQueue[i + 1]
        /\ calls' = calls /\ written' = written
        /\ \/ pc' = pc /\ pc["service"] = "send"
           \/ /\ pc'["service"] = "write" /\ at'["service"].n = outQueue[1].n
              /\ at'["service"].port = outQueue[1].port
    BY <1>1, TakeMessageDoes DEF history
  <2>2. /\ outQueue[1].n <= calls /\ outQueue[1].port \notin Listener
        /\ \A p \in Port : \A j \in 1 .. Len(written[p]) : written[p][j].n < outQueue[1].n
    BY <2>1 DEF NumbersGrow
  <2>3. ASSUME NEW i \in 1 .. Len(outQueue')
        PROVE  /\ outQueue'[i].n <= calls' /\ outQueue'[i].port \notin Listener
               /\ \A j \in 1 .. i - 1 : outQueue'[j].n < outQueue'[i].n
               /\ pc'["service"] = "write" => at'["service"].n < outQueue'[i].n
               /\ \A q \in Port : \A j \in 1 .. Len(written'[q]) : written'[q][j].n < outQueue'[i].n
    <3>1. i + 1 \in 1 .. Len(outQueue) /\ 1 \in 1 .. i /\ outQueue'[i] = outQueue[i + 1]
      BY <2>1
    <3>2. /\ outQueue[i + 1].n <= calls /\ outQueue[i + 1].port \notin Listener
          /\ \A j \in 1 .. i : outQueue[j].n < outQueue[i + 1].n
          /\ \A p \in Port : \A j \in 1 .. Len(written[p]) : written[p][j].n < outQueue[i + 1].n
      BY <3>1 DEF NumbersGrow
    <3>3. \A j \in 1 .. i - 1 : j + 1 \in 1 .. i /\ outQueue'[j] = outQueue[j + 1]
      BY <2>1, <3>1
    <3> QED BY <2>1, <3>1, <3>2, <3>3
  <2>4. /\ pc'["service"] = "write" => at'["service"].n <= calls' /\ at'["service"].port \notin Listener
        /\ \A q \in Port : \A i \in 1 .. Len(written'[q]) :
             /\ written'[q][i].n <= calls'
             /\ \A j \in 1 .. i - 1 : written'[q][j].n < written'[q][i].n
             /\ pc'["service"] = "write" => written'[q][i].n < at'["service"].n
    BY <2>1, <2>2 DEF NumbersGrow
  <2> QED BY <2>3, <2>4 DEF NumbersGrow
<1>2. ASSUME Write PROVE NumbersGrow'
  <2> DEFINE p == at["service"].port
             new == [n |-> at["service"].n, conn |-> file[at["service"].fd].conn]
  <2>1. /\ pc["service"] = "write" /\ pc'["service"] = "send" /\ p \in Port
        /\ outQueue' = outQueue /\ calls' = calls
        /\ \/ written' = written
           \/ /\ written'[p] = Append(written[p], new) /\ file[at["service"].fd].conn # None
              /\ \A q \in Port : q # p => written'[q] = written[q]
    BY <1>2, WriteDoes DEF Rests, queues, history
  <2>2. new.n = at["service"].n /\ (file[at["service"].fd].conn # None => new \in WrittenSet)
    <3>1. file[at["service"].fd].conn \in Conn \cup {None}
      BY <1>2, WriteDoes
    <3> QED BY <1>0, <3>1 DEF WrittenSet
  <2> HIDE DEF new, p
  <2>3. CASE written' = written
    BY <2>1, <2>3 DEF NumbersGrow
  <2>4. CASE /\ written'[p] = Append(written[p], new) /\ file[at["service"].fd].conn # None
             /\ \A q \in Port : q # p => written'[q] = written[q]
    <3>1. /\ Len(written'[p]) = Len(written[p]) + 1
          /\ \A i \in 1 .. Len(written[p]) : written'[p][i] = written[p][i]
          /\ written'[p][Len(written[p]) + 1].n = at["service"].n
      BY <1>0, <2>1, <2>2, <2>4, AppendProperties
    <3>2. ASSUME NEW q \in Port, NEW i \in 1 .. Len(written'[q])
          PROVE  /\ written'[q][i].n <= calls
                 /\ \A j \in 1 .. i - 1 : written'[q][j].n < written'[q][i].n
                 /\ \A k \in 1 .. Len(outQueue) : written'[q][i].n < outQueue[k].n
      <4>1. CASE q # p
        BY <2>4, <4>1 DEF NumbersGrow
      <4>2. CASE q = p
        <5>1. /\ \A j \in 1 .. Len(written[p]) :
                   /\ written[p][j].n <= calls /\ written[p][j].n < at["service"].n
                   /\ \A k \in 1 .. j - 1 : written[p][k].n < written[p][j].n
              /\ at["service"].n <= calls
              /\ \A k \in 1 .. Len(outQueue) :
                   /\ at["service"].n < outQueue[k].n
                   /\ \A j \in 1 .. Len(written[p]) : written[p][j].n < outQueue[k].n
          BY <2>1 DEF NumbersGrow
        <5>2. CASE i \in 1 .. Len(written[p])
          <6>1. written'[q][i] = written[p][i]
            BY <3>1, <4>2, <5>2
          <6>2. \A j \in 1 .. i - 1 : written'[q][j] = written[p][j]
            BY <1>0, <2>1, <3>1, <4>2, <5>2
          <6> QED BY <5>1, <5>2, <6>1, <6>2
        <5>3. CASE i = Len(written[p]) + 1
          <6>1. written'[q][i].n = at["service"].n
            BY <3>1, <4>2, <5>3
          <6>2. \A j \in 1 .. i - 1 : j \in 1 .. Len(written[p]) /\ written'[q][j] = written[p][j]
            BY <1>0, <2>1, <3>1, <4>2, <5>3
          <6> QED BY <5>1, <6>1, <6>2
        <5> QED BY <1>0, <2>1, <3>1, <4>2, <5>2, <5>3
      <4> QED BY <4>1, <4>2
    <3> QED BY <2>1, <3>2 DEF NumbersGrow
  <2> QED BY <2>1, <2>3, <2>4
<1>3. ASSUME outQueue' = outQueue, calls' = calls, written' = written, pc'["service"] # "write"
      PROVE  NumbersGrow'
  BY <1>3 DEF NumbersGrow
<1>4. ASSUME Lock \/ Visit \/ FindSocket \/ Recv
      PROVE  outQueue' = outQueue /\ calls' = calls /\ written' = written /\ pc'["service"] # "write"
  BY <1>4, LockDoes, VisitDoes, FindSocketDoes, RecvDoes DEF queues, history, Rests
<1>5. ASSUME Unlock \/ Drop \/ Accept
      PROVE  outQueue' = outQueue /\ calls' = calls /\ written' = written /\ pc'["service"] # "write"
  BY <1>5, UnlockDoes, DropDoes, AcceptDoes DEF queues, history
<1>6. ASSUME CloseSocket("service") \/ RemoveSocket("service") \/ RemoveId("service")
             \/ RemoveSlot("service")
      PROVE  outQueue' = outQueue /\ calls' = calls /\ written' = written /\ pc'["service"] # "write"
  BY <1>6, CloseSocketDoes, RemoveSocketDoes, RemoveIdDoes, RemoveSlotDoes
     DEF queues, history, Thread
<1> HIDE DEF Typed
<1> QED BY <1>1, <1>2, <1>3, <1>4, <1>5, <1>6 DEF ServiceMoves

-----------------------------------------------------------------------------
(* The elements of a sequence. *)

LEMMA RangeIs ==
  ASSUME NEW S, NEW s \in Seq(S)
  PROVE  Range(s) = {s[i] : i \in 1 .. Len(s)} /\ Range(s) \subseteq S /\ Len(s) \in Nat
<1>1. DOMAIN s = 1 .. Len(s) /\ Len(s) \in Nat /\ \A i \in 1 .. Len(s) : s[i] \in S
  BY LenProperties, ElementOfSeq
<1> QED BY <1>1 DEF Range

LEMMA RangeAppend ==
  ASSUME NEW S, NEW s \in Seq(S), NEW e \in S
  PROVE  Range(Append(s, e)) = Range(s) \cup {e}
<1> DEFINE w == Append(s, e)
<1>1. /\ w \in Seq(S) /\ Len(w) = Len(s) + 1 /\ Len(s) \in Nat /\ w[Len(s) + 1] = e
      /\ \A i \in 1 .. Len(s) : w[i] = s[i]
  BY AppendProperties
<1> HIDE DEF w
<1>2. Range(w) = {w[i] : i \in 1 .. Len(w)} /\ Range(s) = {s[i] : i \in 1 .. Len(s)}
  BY <1>1, RangeIs
<1> QED BY <1>1, <1>2 DEF w

LEMMA RangeTail ==
  ASSUME NEW S, NEW s \in Seq(S), NEW w \in Seq(S), Len(w) = Len(s) - 1, Len(s) > 0,
         \A i \in 1 .. Len(s) - 1 : w[i] = s[i + 1]
  PROVE  Range(s) = {s[1]} \cup Range(w)
<1>1. Range(s) = {s[i] : i \in 1 .. Len(s)} /\ Len(s) \in Nat /\ Range(w) = {w[i] : i \in 1 .. Len(w)}
  BY RangeIs
<1>2. ASSUME NEW i \in 1 .. Len(s), i # 1 PROVE s[i] \in Range(w)
  <2>1. i - 1 \in 1 .. Len(w) /\ w[i - 1] = s[i]
    BY <1>1, <1>2
  <2> QED BY <1>1, <2>1
<1>3. \A i \in 1 .. Len(w) : i + 1 \in 1 .. Len(s) /\ w[i] = s[i + 1]
  BY <1>1
<1>4. Range(s) \subseteq {s[1]} \cup Range(w)
  BY <1>1, <1>2
<1>5. Range(w) \subseteq Range(s) /\ s[1] \in Range(s)
  <2>1. 1 \in 1 .. Len(s)
    BY <1>1
  <2> QED BY <1>1, <1>3, <2>1
<1> QED BY <1>4, <1>5

LEMMA RangeJoin ==
  ASSUME NEW S, NEW s \in Seq(S), NEW w \in Seq(S)
  PROVE  s \o w \in Seq(S) /\ Range(s \o w) = Range(s) \cup Range(w)
<1> DEFINE v == s \o w
<1>1. /\ v \in Seq(S) /\ Len(v) = Len(s) + Len(w) /\ Len(s) \in Nat /\ Len(w) \in Nat
      /\ \A i \in 1 .. Len(s) + Len(w) : v[i] = IF i <= Len(s) THEN s[i] ELSE w[i - Len(s)]
  BY ConcatProperties
<1> HIDE DEF v
<1>2. /\ Range(v) = {v[i] : i \in 1 .. Len(v)} /\ Range(s) = {s[i] : i \in 1 .. Len(s)}
      /\ Range(w) = {w[i] : i \in 1 .. Len(w)}
  BY <1>1, RangeIs
<1>3. \A i \in 1 .. Len(s) : i \in 1 .. Len(v) /\ v[i] = s[i]
  BY <1>1
<1>4. \A i \in 1 .. Len(w) : Len(s) + i \in 1 .. Len(v) /\ v[Len(s) + i] = w[i]
  BY <1>1
<1>5. ASSUME NEW i \in 1 .. Len(v) PROVE v[i] \in Range(s) \cup Range(w)
  <2>1. CASE i <= Len(s)
    BY <1>1, <1>2, <2>1
  <2>2. CASE i > Len(s)
    <3>1. i - Len(s) \in 1 .. Len(w) /\ v[i] = w[i - Len(s)]
      BY <1>1, <2>2
    <3> QED BY <1>2, <3>1
  <2> QED BY <1>1, <2>1, <2>2
<1>6. Range(s) \subseteq Range(v) /\ Range(w) \subseteq Range(v)
  BY <1>2, <1>3, <1>4
<1>7. Range(v) \subseteq Range(s) \cup Range(w)
  BY <1>2, <1>5
<1> QED BY <1>1, <1>6, <1>7 DEF v

-----------------------------------------------------------------------------
(* The ports whose peers have closed. *)

LEMMA DroppedUser ==
  ASSUME Typed, Places, EachDroppedOnce, UserMoves
  PROVE  EachDroppedOnce'
<1>1. Aside
  BY UserAside
<1> QED BY <1>1 DEF Aside, ServiceStill, loop, EachDroppedOnce

LEMMA DroppedService ==
  ASSUME Typed, Places, Iterates, EachDroppedOnce, ServiceMoves
  PROVE  EachDroppedOnce'
<1> USE DEF Typed
<1>0. /\ Len(slotIdMap) \in Nat /\ Len(toDisconnect) \in Nat
      /\ \A i \in 1 .. Len(toDisconnect) : toDisconnect[i] \in Port /\ toDisconnect[i] \in Nat
  <2>1. Len(slotIdMap) \in Nat
    BY MapsSound, SlotsOf DEF Paired
  <2>2. Len(toDisconnect) \in Nat /\ \A i \in 1 .. Len(toDisconnect) : toDisconnect[i] \in Port
    BY ElementOfSeq DEF QueuesTyped
  <2> QED BY <2>1, <2>2, PortIsNumber
<1>1. ASSUME TakeMessage PROVE EachDroppedOnce'
  <2>1. /\ pc["service"] = "send" /\ pc'["service"] \in {"send", "write"}
        /\ toDisconnect' = toDisconnect
    BY <1>1, TakeMessageDoes
  <2>2. toDisconnect' = <<>> /\ Len(toDisconnect') = 0
    BY <2>1 DEF EachDroppedOnce
  <2> QED BY <2>1, <2>2 DEF EachDroppedOnce
<1>2. ASSUME Write \/ Lock PROVE EachDroppedOnce'
  <2>1. pc["service"] \in {"send", "write"} /\ toDisconnect' = toDisconnect
    BY <1>2, WriteDoes, LockDoes DEF queues
  <2>2. toDisconnect' = <<>> /\ Len(toDisconnect') = 0
    BY <2>1 DEF EachDroppedOnce
  <2> QED BY <2>2 DEF EachDroppedOnce
<1>3. ASSUME Visit \/ FindSocket PROVE EachDroppedOnce'
  <2>1. /\ pc'["service"] \in {"visit", "getSocket", "recv"} /\ toDisconnect' = toDisconnect
        /\ index \in 1 .. Len(slotIdMap) + 1 /\ index' \in {index, index + 1}
        /\ slotIdMap' = slotIdMap /\ slotLocked
    BY <1>3, VisitDoes, FindSocketDoes DEF queues, maps, loop, Iterates
  <2>2. index' .. Len(slotIdMap) \subseteq index .. Len(slotIdMap)
    BY <1>0, <2>1
  <2> QED BY <2>1, <2>2 DEF EachDroppedOnce
<1>4. ASSUME Recv PROVE EachDroppedOnce'
  <2> DEFINE p == at["service"].port
  <2>1. /\ p \in Port /\ pc["service"] = "recv" /\ pc'["service"] = "visit" /\ index' = index + 1
        /\ slotIdMap' = slotIdMap
        /\ toDisconnect' = toDisconnect \/ toDisconnect' = Append(toDisconnect, p)
    BY <1>4, RecvDoes DEF Rests, maps
  <2>2. slotLocked /\ index \in 1 .. Len(slotIdMap) /\ slotIdMap[index].key = p
    BY <2>1 DEF Iterates
  <2>3. \A i \in 1 .. Len(toDisconnect) : /\ toDisconnect[i] < p
                                          /\ \A j \in index + 1 .. Len(slotIdMap) :
                                               toDisconnect[i] < slotIdMap[j].key
    <3>1. index \in index .. Len(slotIdMap) /\ index + 1 .. Len(slotIdMap) \subseteq index .. Len(slotIdMap)
      BY <1>0, <2>2
    <3> QED BY <2>2, <3>1 DEF EachDroppedOnce
  <2>4. \A j \in index + 1 .. Len(slotIdMap) : p < slotIdMap[j].key
    BY <1>0, <2>2, SlotAt
  <2>5. CASE toDisconnect' = toDisconnect
    BY <2>1, <2>3, <2>5 DEF EachDroppedOnce
  <2>6. CASE toDisconnect' = Append(toDisconnect, p)
    <3>1. /\ Len(toDisconnect') = Len(toDisconnect) + 1 /\ toDisconnect'[Len(toDisconnect) + 1] = p
          /\ \A i \in 1 .. Len(toDisconnect) : toDisconnect'[i] = toDisconnect[i]
      BY <2>1, <2>6, AppendProperties DEF QueuesTyped
    <3>2. ASSUME NEW i \in 1 .. Len(toDisconnect')
          PROVE  /\ \A j \in 1 .. i - 1 : toDisconnect'[j] < toDisconnect'[i]
                 /\ \A j \in index' .. Len(slotIdMap') : toDisconnect'[i] < slotIdMap'[j].key
      <4>1. CASE i \in 1 .. Len(toDisconnect)
        <5>1. \A j \in 1 .. i - 1 : toDisconnect'[j] = toDisconnect[j]
          BY <1>0, <3>1, <4>1
        <5>2. \A j \in 1 .. i - 1 : toDisconnect[j] < toDisconnect[i]
          BY <4>1 DEF EachDroppedOnce
        <5> QED BY <2>1, <2>3, <3>1, <4>1, <5>1, <5>2
      <4>2. CASE i = Len(toDisconnect) + 1
        <5>1. \A j \in 1 .. i - 1 : toDisconnect'[j] = toDisconnect[j] /\ toDisconnect[j] < p
          BY <1>0, <2>3, <3>1, <4>2
        <5> QED BY <2>1, <2>4, <3>1, <4>2, <5>1
      <4> QED BY <1>0, <3>1, <4>1, <4>2
    <3> HIDE DEF p
    <3> QED BY <2>1, <3>2 DEF EachDroppedOnce
  <2> QED BY <2>1, <2>5, <2>6
<1>5. ASSUME Unlock PROVE EachDroppedOnce'
  BY <1>5, UnlockDoes DEF EachDroppedOnce, queues
<1>6. ASSUME Drop PROVE EachDroppedOnce'
  <2>1. /\ Len(toDisconnect) \in Nat \ {0} /\ Len(toDisconnect') = Len(toDisconnect) - 1
        /\ \A i \in 1 .. Len(toDisconnect) - 1 : toDisconnect'[i] = toDisconnect[i + 1]
        /\ pc["service"] = "drop" /\ pc'["service"] \in {"drop", "close"} /\ slotLocked' = slotLocked
        /\ pc'["service"] = "close" => at'["service"].port = toDisconnect[1]
    BY <1>6, DropDoes DEF loop
  <2>2. ~slotLocked
    BY <2>1 DEF Iterates
  <2>3. ASSUME NEW i \in 1 .. Len(toDisconnect')
        PROVE  /\ \A j \in 1 .. i - 1 : toDisconnect'[j] < toDisconnect'[i]
               /\ toDisconnect[1] # toDisconnect'[i]
    <3>1. i + 1 \in 1 .. Len(toDisconnect) /\ 1 \in 1 .. i /\ toDisconnect'[i] = toDisconnect[i + 1]
      BY <2>1
    <3>2. \A j \in 1 .. i : toDisconnect[j] < toDisconnect[i + 1]
      BY <3>1 DEF EachDroppedOnce
    <3>3. \A j \in 1 .. i - 1 : j + 1 \in 1 .. i /\ toDisconnect'[j] = toDisconnect[j + 1]
      BY <2>1, <3>1
    <3>4. \A j \in 1 .. i - 1 : toDisconnect'[j] < toDisconnect'[i]
      BY <3>1, <3>2, <3>3
    <3>5. toDisconnect[1] < toDisconnect[i + 1]
      BY <3>1, <3>2
    <3>6. toDisconnect[1] \in Nat /\ toDisconnect[i + 1] \in Nat
      <4>1. 1 \in 1 .. Len(toDisconnect)
        BY <2>1
      <4> QED BY <1>0, <3>1, <4>1
    <3> QED BY <3>1, <3>4, <3>5, <3>6
  <2> QED BY <2>1, <2>2, <2>3 DEF EachDroppedOnce
<1>7. ASSUME Accept PROVE EachDroppedOnce'
  <2>1. toDisconnect' = <<>> /\ Len(toDisconnect') = 0
    BY <1>7, AcceptDoes
  <2> QED BY <2>1 DEF EachDroppedOnce
<1>8. ASSUME CloseSocket("service") \/ RemoveSocket("service") \/ RemoveId("service")
      PROVE  EachDroppedOnce'
  <2>1. /\ pc["service"] \in {"close", "removeSocket", "removeId"}
        /\ pc'["service"] \in {"removeSocket", "removeId", "removeSlot"}
        /\ at'["service"].port = at["service"].port
        /\ toDisconnect' = toDisconnect /\ UNCHANGED loop
    BY <1>8, CloseSocketDoes, RemoveSocketDoes, RemoveIdDoes DEF queues, Thread
  <2>2. ~slotLocked /\ ~slotLocked'
    BY <2>1 DEF Iterates, loop
  <2> QED BY <2>1, <2>2 DEF EachDroppedOnce
<1>9. ASSUME RemoveSlot("service") PROVE EachDroppedOnce'
  <2>1. pc'["service"] = "drop" /\ toDisconnect' = toDisconnect /\ ~slotLocked'
    BY <1>9, RemoveSlotDoes DEF queues, loop, Thread
  <2> QED BY <2>1 DEF EachDroppedOnce
<1> HIDE DEF Typed
<1> QED BY <1>1, <1>2, <1>3, <1>4, <1>5, <1>6, <1>7, <1>8, <1>9 DEF ServiceMoves

-----------------------------------------------------------------------------
(* Descriptors and connections. *)

\* What OneDescriptor says of one connection.
ConnSound(c) ==
  /\ c.state = "none" => c = NoConn
  /\ c.fd = NoFd => c = NoConn \/ c.owner # None
  /\ c.state = "waiting" => c.owner = None
  /\ c.read <= c.sent

\* What it says of a connection that a descriptor refers to.
FileSound ==
  /\ \A fd \in Fd : file[fd].kind = "conn" <=> file[fd].conn # None
  /\ \A fd1, fd2 \in Fd : file[fd1].conn = file[fd2].conn /\ file[fd1].conn # None => fd1 = fd2
  /\ \A fd \in Fd : file[fd].conn # None => conn[file[fd].conn].state \in {"open", "closed"}

LEMMA OneDescriptorIs == OneDescriptor <=> FileSound /\ \A c \in Conn : ConnSound(conn[c])
BY DEF OneDescriptor, FileSound, ConnSound

LEMMA OneDescriptorThen ==
  ASSUME FileSound', \A c \in Conn : ConnSound(conn'[c]) PROVE OneDescriptor'
<1>1. (OneDescriptor <=> FileSound /\ \A c \in Conn : ConnSound(conn[c]))'
  BY OneDescriptorIs, PTL
<1> QED BY <1>1 DEF ConnSound

\* A descriptor is opened for a connection that had none.
LEMMA OpenSound ==
  ASSUME FilesTyped, OneDescriptor, NEW fd \in Fd, NEW c \in Conn,
         file[fd] = Free, conn[c].state \in {"none", "waiting"},
         FileBecomes(fd, "conn", c), OthersStay(c), conn'[c].state = "open"
  PROVE  FileSound'
<1>1. \A f \in Fd : file[f].conn # c
  BY Numbers DEF OneDescriptor
<1>2. \A f \in Fd : file[f].conn \in Conn \cup {None}
  BY DEF FilesTyped, FileSet
<1>3. c # None
  BY Numbers
<1> QED BY <1>1, <1>2, <1>3 DEF OneDescriptor, FileBecomes, OthersStay, FileSound

\* A descriptor refers to no connection, and the connections keep their states.
LEMMA BareSound ==
  ASSUME FilesTyped, OneDescriptor, NEW fd \in Fd, NEW kind, kind # "conn",
         FileBecomes(fd, kind, None),
         \A c \in Conn : conn[c].state \in {"open", "closed"} => conn'[c].state = conn[c].state
  PROVE  FileSound'
<1>1. \A f \in Fd : file[f].conn \in Conn \cup {None}
  BY DEF FilesTyped, FileSet
<1> QED BY <1>1 DEF OneDescriptor, FileBecomes, FileSound

LEMMA DescriptorKept ==
  ASSUME FilesTyped, OneDescriptor, file' = file,
         \A c \in Conn : conn[c].state \in {"open", "closed"} => conn'[c].state \in {"open", "closed"}
  PROVE  FileSound'
<1>1. \A f \in Fd : file[f].conn \in Conn \cup {None}
  BY DEF FilesTyped, FileSet
<1> QED BY <1>1 DEF OneDescriptor, FileSound

LEMMA DescriptorUser ==
  ASSUME Typed, Places, OneDescriptor, UserMoves
  PROVE  OneDescriptor'
<1> USE DEF Typed
<1>0. FileSound /\ \A c \in Conn : ConnSound(conn[c]) /\ conn[c] \in ConnSet
  BY OneDescriptorIs DEF FilesTyped
<1>1. ASSUME UNCHANGED network PROVE OneDescriptor'
  BY <1>1 DEF network, OneDescriptor
<1>2. ASSUME NEW p \in Port, Connect(p) PROVE OneDescriptor'
  <2>1. PICK fd \in Fd, c \in Conn :
           /\ file[fd] = Free /\ conn[c] = NoConn
           /\ FileBecomes(fd, "conn", c) /\ OthersStay(c)
           /\ conn'[c].state = "open" /\ conn'[c].owner = p /\ conn'[c].fd = NoFd
           /\ conn'[c].sent = 0 /\ conn'[c].read = 0
    BY <1>2, ConnectDoes
  <2>2. FileSound'
    BY <2>1, OpenSound, NoConnIs
  <2>3. ConnSound(conn'[c])
    BY <2>1, Numbers DEF ConnSound
  <2>4. \A d \in Conn : ConnSound(conn'[d])
    BY <1>0, <2>1, <2>3 DEF OthersStay
  <2> QED BY <2>2, <2>4, OneDescriptorThen
<1>3. ASSUME NEW p \in Port, Listen(p) PROVE OneDescriptor'
  <2>1. PICK fd \in Fd : FileBecomes(fd, "listen", None) /\ conn' = conn
    BY <1>3, ListenDoes
  <2>2. FileSound'
    BY <2>1, BareSound
  <2> QED BY <1>0, <2>1, <2>2, OneDescriptorThen
<1>4. ASSUME NEW p \in Port, Fail(p) PROVE OneDescriptor'
  <2>1. /\ conn' = conn
        /\ \A f \in Fd : \/ file'[f] = file[f]
                         \/ file[f] = Free /\ file'[f].kind = "raw" /\ file'[f].conn = None
    BY <1>4, FailDoes
  <2>2. FileSound'
    BY <1>0, <2>1, FreeIs DEF FileSound
  <2> QED BY <1>0, <2>1, <2>2, OneDescriptorThen
<1>5. ASSUME NEW p \in Port, NEW fd \in Fd, Attach(p, fd) PROVE OneDescriptor'
  <2>1. PICK c \in Conn :
           /\ ConnOf(fd) = c
           /\ file' = file /\ OthersStay(c)
           /\ conn'[c].state = conn[c].state /\ conn'[c].owner = p /\ conn'[c].fd = conn[c].fd
           /\ conn'[c].sent = conn[c].sent /\ conn'[c].read = conn[c].read
    BY <1>5, AttachDoes
  <2>2. FileSound'
    BY <2>1, DescriptorKept DEF OthersStay
  <2>3. conn[c].state \in {"open", "closed"}
    BY <1>0, <2>1, Numbers DEF ConnOf, FileSound
  <2>4. ConnSound(conn'[c])
    <3>1. ConnSound(conn[c])
      BY <1>0
    <3>2. p # None
      BY Numbers
    <3> QED BY <2>1, <2>3, <3>1, <3>2 DEF ConnSound
  <2>5. \A d \in Conn : ConnSound(conn'[d])
    BY <1>0, <2>1, <2>4 DEF OthersStay
  <2> QED BY <2>2, <2>5, OneDescriptorThen
<1>6. ASSUME NEW t \in Thread, CloseSocket(t) PROVE OneDescriptor'
  <2>1. PICK fd \in Fd :
         /\ FileBecomes(fd, "free", None)
         /\ \A c \in Conn :
              /\ conn'[c].fd = conn[c].fd /\ conn'[c].sent = conn[c].sent
              /\ conn'[c].read = conn[c].read /\ conn'[c].owner = conn[c].owner
              /\ \/ conn'[c] = conn[c]
                 \/ conn[c].state = "waiting" /\ conn[c].fd = fd /\ conn'[c].state = "closed"
    BY <1>6, CloseSocketDoes
  <2>2. FileSound'
    BY <2>1, BareSound
  <2>3. \A d \in Conn : ConnSound(conn'[d])
    BY <1>0, <2>1, Numbers DEF ConnSound
  <2> QED BY <2>2, <2>3, OneDescriptorThen
<1>7. ASSUME NEW c \in Conn, Peer(c) PROVE OneDescriptor'
  <2>1. /\ conn[c].state = "open"
        /\ file' = file /\ OthersStay(c)
        /\ conn'[c].fd = conn[c].fd /\ conn'[c].read = conn[c].read
        /\ conn'[c].owner = conn[c].owner
        /\ \/ conn'[c].state = conn[c].state /\ conn'[c].sent = conn[c].sent + 1
           \/ conn'[c].state = "closed" /\ conn'[c].sent = conn[c].sent
    BY <1>7, PeerDoes
  <2>2. FileSound'
    BY <2>1, DescriptorKept DEF OthersStay
  <2>3. ConnSound(conn'[c])
    <3>1. conn[c].sent \in Nat /\ conn[c].read \in Nat /\ ConnSound(conn[c])
      BY <1>0 DEF ConnSet
    <3>2. conn[c] # NoConn
      BY <2>1, NoConnIs
    <3> QED BY <2>1, <3>1, <3>2 DEF ConnSound
  <2>4. \A d \in Conn : ConnSound(conn'[d])
    BY <1>0, <2>1, <2>3 DEF OthersStay
  <2> QED BY <2>2, <2>4, OneDescriptorThen
<1>8. ASSUME NEW fd \in Fd, ClientArrives(fd) PROVE OneDescriptor'
  <2>1. PICK c \in Conn :
           /\ conn[c] = NoConn
           /\ file' = file /\ OthersStay(c)
           /\ conn'[c].state = "waiting" /\ conn'[c].fd = fd /\ conn'[c].owner = None
           /\ conn'[c].sent = 0 /\ conn'[c].read = 0
    BY <1>8, ClientArrivesDoes
  <2>2. FileSound'
    BY <2>1, DescriptorKept, NoConnIs DEF OthersStay
  <2>3. ConnSound(conn'[c])
    BY <2>1, Numbers DEF ConnSound
  <2>4. \A d \in Conn : ConnSound(conn'[d])
    BY <1>0, <2>1, <2>3 DEF OthersStay
  <2> QED BY <2>2, <2>4, OneDescriptorThen
<1>9. ASSUME Collect \/ PutSocket \/ PutId \/ PutSlot PROVE UNCHANGED network
  BY <1>9 DEF Collect, PutSocket, PutId, PutSlot
<1>10. ASSUME RemoveSocket("user") \/ RemoveId("user") \/ RemoveSlot("user") PROVE UNCHANGED network
  BY <1>10 DEF RemoveSocket, RemoveId, RemoveSlot
<1>11. ASSUME NEW p \in Port, Send(p) \/ AcceptCall(p) \/ DisconnectCall(p) \/ Destroy(p)
       PROVE  UNCHANGED network
  BY <1>11 DEF Send, AcceptCall, DisconnectCall, Destroy
<1> HIDE DEF Typed
<1> QED BY <1>1, <1>2, <1>3, <1>4, <1>5, <1>6, <1>7, <1>8, <1>9, <1>10, <1>11 DEF UserMoves, Thread

LEMMA DescriptorService ==
  ASSUME Typed, Places, OneDescriptor, ServiceMoves
  PROVE  OneDescriptor'
<1> USE DEF Typed
<1>0. FileSound /\ \A c \in Conn : ConnSound(conn[c]) /\ conn[c] \in ConnSet
  BY OneDescriptorIs DEF FilesTyped
<1>1. ASSUME UNCHANGED network PROVE OneDescriptor'
  BY <1>1 DEF network, OneDescriptor
<1>2. ASSUME Recv PROVE OneDescriptor'
  <2>1. /\ file' = file
        /\ \A d \in Conn :
             /\ conn'[d] = conn[d] \/ conn'[d].read = conn[d].sent
             /\ conn'[d].state = conn[d].state /\ conn'[d].owner = conn[d].owner
             /\ conn'[d].fd = conn[d].fd /\ conn'[d].sent = conn[d].sent
    BY <1>2, RecvDoes
  <2>2. FileSound'
    BY <2>1, DescriptorKept
  <2>3. ASSUME NEW d \in Conn PROVE ConnSound(conn'[d])
    <3>1. conn[d].sent \in Nat /\ conn[d].read \in Nat /\ ConnSound(conn[d])
      BY <1>0 DEF ConnSet
    <3>2. CASE conn'[d] = conn[d]
      BY <3>1, <3>2
    <3>3. CASE conn'[d].read = conn[d].sent /\ conn[d] # NoConn
      BY <2>1, <3>1, <3>3 DEF ConnSound
    <3>4. CASE conn'[d].read = conn[d].sent /\ conn[d] = NoConn
      <4>1. conn'[d] \in ConnSet
        <5>1. FilesTyped'
          BY <1>2, RecvDoes
        <5> QED BY <5>1 DEF FilesTyped
      <4>2. /\ conn'[d].state = "none" /\ conn'[d].owner = None /\ conn'[d].fd = NoFd
            /\ conn'[d].sent = 0 /\ conn'[d].read = 0
        BY <2>1, <3>4, NoConnIs
      <4>3. conn'[d] = NoConn
        BY <4>1, <4>2 DEF ConnSet, NoConn
      <4> QED BY <3>1, <3>4, <4>3
    <3> QED BY <2>1, <3>2, <3>3, <3>4
  <2> QED BY <2>2, <2>3, OneDescriptorThen
<1>3. ASSUME Accept, ~ UNCHANGED network PROVE OneDescriptor'
  <2>1. PICK fd \in Fd, c \in Conn :
                 /\ file[fd] = Free /\ conn[c].state = "waiting"
                 /\ FileBecomes(fd, "conn", c) /\ OthersStay(c)
                 /\ conn'[c].state = "open" /\ conn'[c].owner = conn[c].owner
                 /\ conn'[c].fd = conn[c].fd /\ conn'[c].sent = conn[c].sent
                 /\ conn'[c].read = conn[c].read
    BY <1>3, AcceptDoes
  <2>2. FileSound'
    BY <2>1, OpenSound
  <2>3. ConnSound(conn'[c])
    <3>1. ConnSound(conn[c]) /\ conn[c] # NoConn
      BY <1>0, <2>1, NoConnIs
    <3> QED BY <2>1, <3>1 DEF ConnSound
  <2>4. \A d \in Conn : ConnSound(conn'[d])
    BY <1>0, <2>1, <2>3 DEF OthersStay
  <2> QED BY <2>2, <2>4, OneDescriptorThen
<1>4. ASSUME CloseSocket("service") PROVE OneDescriptor'
  <2>1. "service" \in Thread
    BY DEF Thread
  <2>2. PICK fd \in Fd :
         /\ FileBecomes(fd, "free", None)
         /\ \A c \in Conn :
              /\ conn'[c].fd = conn[c].fd /\ conn'[c].sent = conn[c].sent
              /\ conn'[c].read = conn[c].read /\ conn'[c].owner = conn[c].owner
              /\ \/ conn'[c] = conn[c]
                 \/ conn[c].state = "waiting" /\ conn[c].fd = fd /\ conn'[c].state = "closed"
    BY <1>4, <2>1, CloseSocketDoes
  <2>3. FileSound'
    BY <2>2, BareSound
  <2>4. \A d \in Conn : ConnSound(conn'[d])
    BY <1>0, <2>2, Numbers DEF ConnSound
  <2> QED BY <2>3, <2>4, OneDescriptorThen
<1>5. ASSUME TakeMessage \/ Write \/ Lock \/ Visit \/ FindSocket \/ Unlock \/ Drop
      PROVE  UNCHANGED network
  BY <1>5 DEF TakeMessage, Write, Lock, Visit, FindSocket, Unlock, Drop
<1>6. ASSUME RemoveSocket("service") \/ RemoveId("service") \/ RemoveSlot("service")
      PROVE  UNCHANGED network
  BY <1>6 DEF RemoveSocket, RemoveId, RemoveSlot
<1> HIDE DEF Typed
<1> QED BY <1>1, <1>2, <1>3, <1>4, <1>5, <1>6 DEF ServiceMoves

-----------------------------------------------------------------------------
(* The ports in the maps. *)

LEMMA NestedUser ==
  ASSUME Typed, Places, Nested, UserMoves
  PROVE  Nested'
<1> USE DEF Typed
<1>0. ServiceStill /\ toDisconnect' = toDisconnect
  BY UserAside DEF Aside
<1>1. ASSUME UNCHANGED <<maps, left>>, UserStill, alive' \subseteq alive,
             alive' = alive \/ pc["user"] = "idle"
      PROVE  Nested'
  <2>1. Sockets' = Sockets /\ Ids' = Ids /\ Slots' = Slots
    BY <1>1, MapsKept
  <2> QED BY <1>0, <1>1, <2>1
          DEF ServiceStill, UserStill, Nested, Putting, Closing, Dropping
<1>2. ASSUME Collect \/ \E p \in Port : Send(p) \/ AcceptCall(p) \/ Fail(p) PROVE Nested'
  <2>1. UNCHANGED <<maps, left, alive, pc, at>>
    BY <1>2, CollectDoes, SendDoes, AcceptCallDoes, FailDoes DEF history
  <2> QED BY <1>1, <2>1 DEF UserStill
<1>3. ASSUME NEW p \in Port, Destroy(p) PROVE Nested'
  BY <1>1, <1>3, DestroyDoes DEF UserStill, history
<1>4. ASSUME (\E c \in Conn : Peer(c)) \/ (\E fd \in Fd : ClientArrives(fd)) PROVE Nested'
  BY <1>1, <1>4, PeerDoes, ClientArrivesDoes DEF UserStill, history
<1>5. ASSUME PutSocket PROVE Nested'
  <2>1. PICK p \in Port :
         /\ p = at["user"].port /\ pc["user"] = "putSocket" /\ pc'["user"] = "putId" /\ at' = at
         /\ Sockets' = Sockets \cup {p} /\ Ids' = Ids /\ Slots' = Slots
         /\ UNCHANGED <<alive, left>>
    BY <1>5, PutSocketDoes DEF history
  <2> QED BY <1>0, <2>1 DEF ServiceStill, Nested, Putting, Closing, Dropping
<1>6. ASSUME PutId PROVE Nested'
  <2>1. PICK p \in Port :
         /\ p = at["user"].port /\ pc["user"] = "putId" /\ pc'["user"] = "putSlot" /\ at' = at
         /\ Sockets' = Sockets /\ Ids' = Ids \cup {p} /\ Slots' = Slots
         /\ UNCHANGED <<alive, left>>
    BY <1>6, PutIdDoes DEF history
  <2> QED BY <1>0, <2>1 DEF ServiceStill, Nested, Putting, Closing, Dropping
<1>7. ASSUME PutSlot PROVE Nested'
  <2>1. PICK p \in Port :
         /\ p = at["user"].port /\ pc["user"] = "putSlot" /\ pc'["user"] = "idle"
         /\ Sockets' = Sockets /\ Ids' = Ids /\ Slots' = Slots \cup {p}
         /\ UNCHANGED <<alive, left>>
    BY <1>7, PutSlotDoes DEF history
  <2> QED BY <1>0, <2>1 DEF ServiceStill, Nested, Putting, Closing, Dropping
<1>8. ASSUME NEW p \in Port, MayBegin(p), UNCHANGED <<maps, alive, left>>,
             pc'["user"] = "putSocket", at'["user"].port = p
      PROVE  Nested'
  <2>1. Sockets' = Sockets /\ Ids' = Ids /\ Slots' = Slots
    BY <1>8, MapsKept
  <2>2. pc["user"] = "idle" /\ p \in alive \ left /\ p \notin Sockets
    BY <1>8 DEF MayBegin
  <2> QED BY <1>0, <1>8, <2>1, <2>2 DEF ServiceStill, Nested, Putting, Closing, Dropping
<1>9. ASSUME NEW p \in Port, Connect(p) \/ Listen(p) \/ \E fd \in Fd : Attach(p, fd)
      PROVE  Nested'
  <2>1. \E fd \in Fd, c \in Conn \cup {None} : Begins(p, fd, c)
    BY <1>9, ConnectDoes, ListenDoes, AttachDoes
  <2> QED BY <1>8, <2>1 DEF Begins, history
<1>10. ASSUME NEW p \in Port, DisconnectCall(p) PROVE Nested'
  <2>1. /\ pc["user"] = "idle" /\ pc'["user"] = "close" /\ at'["user"].port = p
        /\ left' = left \cup {p} /\ UNCHANGED <<maps, alive>>
    BY <1>10, DisconnectCallDoes
  <2>2. Sockets' = Sockets /\ Ids' = Ids /\ Slots' = Slots
    BY <2>1, MapsKept
  <2> QED BY <1>0, <2>1, <2>2 DEF ServiceStill, Nested, Putting, Closing, Dropping
<1>11. ASSUME CloseSocket("user") \/ RemoveSocket("user") \/ RemoveId("user") \/ RemoveSlot("user")
       PROVE  Nested'
  <2>1. "user" \in Thread
    BY DEF Thread
  <2>2. PICK p \in Port :
         /\ p = at["user"].port /\ pc["user"] \in {"close", "removeSocket", "removeId", "removeSlot"}
         /\ \/ pc'["user"] = "idle"
            \/ /\ at'["user"].port = p
               /\ pc'["user"] \in {"removeSocket", "removeId", "removeSlot"}
         /\ Sockets' \subseteq Sockets /\ Sockets \subseteq Sockets' \cup {p}
         /\ Ids' \subseteq Ids /\ Slots' \subseteq Slots
         /\ UNCHANGED <<alive, left>>
    <3>1. CASE CloseSocket("user")
      BY <2>1, <3>1, CloseSocketDoes, MapsKept DEF history
    <3>2. CASE RemoveSocket("user")
      BY <2>1, <3>2, RemoveSocketDoes DEF history
    <3>3. CASE RemoveId("user")
      BY <2>1, <3>3, RemoveIdDoes DEF history
    <3>4. CASE RemoveSlot("user")
      BY <2>1, <3>4, RemoveSlotDoes DEF history
    <3> QED BY <1>11, <3>1, <3>2, <3>3, <3>4
  <2>3. p \in left
    BY <2>2 DEF Nested
  <2> QED BY <1>0, <2>2, <2>3 DEF ServiceStill, Nested, Putting, Closing, Dropping
<1> HIDE DEF Typed
<1> QED BY <1>2, <1>3, <1>4, <1>5, <1>6, <1>7, <1>9, <1>10, <1>11 DEF UserMoves

LEMMA NestedService ==
  ASSUME Typed, Places, Iterates, EachDroppedOnce, Nested, ServiceMoves
  PROVE  Nested'
<1> USE DEF Typed
<1>0. UserStill
  BY PlacesService
<1>1. ASSUME UNCHANGED <<maps, alive, left, toDisconnect>>,
             pc["service"] \notin {"close", "removeSocket", "removeId", "removeSlot"},
             pc'["service"] \in {"send", "write", "visit", "drop"}
      PROVE  Nested'
  <2>1. Sockets' = Sockets /\ Ids' = Ids /\ Slots' = Slots
    BY <1>1, MapsKept
  <2> QED BY <1>0, <1>1, <2>1 DEF UserStill, Nested, Putting, Closing, Dropping
<1>2. ASSUME TakeMessage PROVE Nested'
  <2>1. /\ UNCHANGED <<maps, alive, left, toDisconnect>> /\ pc["service"] = "send"
        /\ pc'["service"] \in {"send", "write"}
    BY <1>2, TakeMessageDoes DEF history
  <2> QED BY <1>1, <2>1
<1>3. ASSUME Write PROVE Nested'
  <2>1. /\ UNCHANGED <<maps, alive, left, toDisconnect>> /\ pc["service"] = "write"
        /\ pc'["service"] = "send"
    BY <1>3, WriteDoes DEF history, Rests, queues
  <2> QED BY <1>1, <2>1
<1>4. ASSUME Lock \/ Unlock \/ Accept PROVE Nested'
  <2>1. /\ UNCHANGED <<maps, alive, left, toDisconnect>>
        /\ pc["service"] \in {"send", "visit", "drop"}
        /\ pc'["service"] \in {"send", "visit", "drop"}
    BY <1>4, LockDoes, UnlockDoes, AcceptDoes DEF history, queues
  <2> QED BY <1>1, <2>1
<1>5. ASSUME Visit PROVE Nested'
  <2>1. PICK p \in Port :
          /\ p = slotIdMap[index].key
          /\ pc["service"] = "visit" /\ index \in 1 .. Len(slotIdMap) /\ slotLocked
          /\ Slots' = Slots
          /\ p \in alive => Sockets' = Sockets /\ Ids' = Ids
          /\ p \notin alive => Sockets' = Sockets \ {p} /\ Ids' = Ids \ {p}
          /\ \/ /\ p \in alive /\ p \in Ids
                /\ pc'["service"] = "getSocket" /\ at'["service"].port = p
             \/ UNCHANGED <<pc, at>>
          /\ UNCHANGED <<alive, left, toDisconnect>>
    BY <1>5, VisitDoes DEF history, queues
  <2>2. p \notin Range(toDisconnect)
    <3>1. Len(toDisconnect) \in Nat /\ Len(slotIdMap) \in Nat
      BY MapsSound, SlotsOf, RangeIs DEF Paired, QueuesTyped
    <3>2. index \in index .. Len(slotIdMap)
      BY <2>1, <3>1
    <3>3. \A i \in 1 .. Len(toDisconnect) : toDisconnect[i] < p
      BY <2>1, <3>2 DEF EachDroppedOnce
    <3>4. Range(toDisconnect) = {toDisconnect[i] : i \in 1 .. Len(toDisconnect)}
      BY RangeIs DEF QueuesTyped
    <3>5. p \in Nat
      BY PortIsNumber
    <3> QED BY <3>3, <3>4, <3>5
  <2> QED BY <1>0, <2>1, <2>2 DEF UserStill, Nested, Putting, Closing, Dropping
<1>6. ASSUME FindSocket PROVE Nested'
  <2>1. /\ pc["service"] = "getSocket" /\ UNCHANGED <<maps, alive, left, toDisconnect>>
        /\ \/ UNCHANGED <<pc, at>>
           \/ pc'["service"] = "recv" /\ at'["service"].port = at["service"].port
    BY <1>6, FindSocketDoes DEF history, queues
  <2>2. Sockets' = Sockets /\ Ids' = Ids /\ Slots' = Slots
    BY <2>1, MapsKept
  <2> QED BY <1>0, <2>1, <2>2 DEF UserStill, Nested, Putting, Closing, Dropping
<1>7. ASSUME Recv PROVE Nested'
  <2>1. PICK p \in Port :
          /\ p = at["service"].port /\ pc["service"] = "recv" /\ pc'["service"] = "visit"
          /\ toDisconnect' = toDisconnect \/ toDisconnect' = Append(toDisconnect, p)
          /\ UNCHANGED <<maps, alive, left>>
    BY <1>7, RecvDoes DEF history, Rests
  <2>2. Sockets' = Sockets /\ Ids' = Ids /\ Slots' = Slots
    BY <2>1, MapsKept
  <2>3. Range(toDisconnect') \subseteq Range(toDisconnect) \cup {p}
    <3>1. Range(Append(toDisconnect, p)) = Range(toDisconnect) \cup {p}
      BY RangeAppend DEF QueuesTyped
    <3> QED BY <2>1, <3>1
  <2>4. p \in Slots
    <3>1. index \in 1 .. Len(slotIdMap) /\ slotIdMap[index].key = p
      BY <2>1 DEF Iterates
    <3> QED BY <3>1, SlotAt
  <2>5. ~Putting(p) /\ (p \notin left => p \in Sockets)
    BY <2>1, <2>4 DEF Nested, Dropping
  <2> QED BY <1>0, <2>1, <2>2, <2>3, <2>5 DEF UserStill, Nested, Putting, Closing, Dropping
<1>8. ASSUME Drop PROVE Nested'
  <2>1. PICK p \in Port :
          /\ p = toDisconnect[1] /\ pc["service"] = "drop"
          /\ \/ UNCHANGED <<pc, at>>
             \/ p \in Sockets /\ pc'["service"] = "close" /\ at'["service"].port = p
          /\ UNCHANGED <<maps, alive, left>>
    BY <1>8, DropDoes DEF history
  <2>2. Sockets' = Sockets /\ Ids' = Ids /\ Slots' = Slots
    BY <2>1, MapsKept
  <2>3. Range(toDisconnect) = {p} \cup Range(toDisconnect')
    <3>1. /\ toDisconnect \in Seq(Port) /\ toDisconnect' \in Seq(Port)
          /\ Len(toDisconnect') = Len(toDisconnect) - 1 /\ Len(toDisconnect) > 0
          /\ \A i \in 1 .. Len(toDisconnect) - 1 : toDisconnect'[i] = toDisconnect[i + 1]
      BY <1>8, DropDoes DEF QueuesTyped
    <3> QED BY <2>1, <3>1, RangeTail
  <2> QED BY <1>0, <2>1, <2>2, <2>3 DEF UserStill, Nested, Putting, Closing, Dropping
<1>9. "service" \in Thread
  BY DEF Thread
<1>10. ASSUME CloseSocket("service") PROVE Nested'
  <2>1. /\ pc["service"] = "close" /\ UNCHANGED <<maps, alive, left, toDisconnect>>
        /\ pc'["service"] = "removeSocket" /\ at'["service"].port = at["service"].port
    BY <1>9, <1>10, CloseSocketDoes DEF history, queues
  <2>2. Sockets' = Sockets /\ Ids' = Ids /\ Slots' = Slots
    BY <2>1, MapsKept
  <2> QED BY <1>0, <2>1, <2>2 DEF UserStill, Nested, Putting, Closing, Dropping
<1>11. ASSUME RemoveSocket("service") PROVE Nested'
  <2>1. PICK p \in Port :
          /\ p = at["service"].port /\ pc["service"] = "removeSocket"
          /\ pc'["service"] = "removeId" /\ at' = at
          /\ Sockets' = Sockets \ {p} /\ Ids' = Ids /\ Slots' = Slots
          /\ UNCHANGED <<alive, left, toDisconnect>>
    BY <1>9, <1>11, RemoveSocketDoes DEF history, queues
  <2>2. p \notin Range(toDisconnect)
    <3>1. Range(toDisconnect) = {toDisconnect[i] : i \in 1 .. Len(toDisconnect)}
      BY RangeIs DEF QueuesTyped
    <3> QED BY <2>1, <3>1 DEF EachDroppedOnce
  <2>3. ~Putting(p)
    BY <2>1 DEF Nested, Closing
  <2> QED BY <1>0, <2>1, <2>2, <2>3 DEF UserStill, Nested, Putting, Closing, Dropping
<1>12. ASSUME RemoveId("service") PROVE Nested'
  <2>1. PICK p \in Port :
          /\ p = at["service"].port /\ pc["service"] = "removeId"
          /\ pc'["service"] = "removeSlot" /\ at' = at
          /\ Sockets' = Sockets /\ Ids' = Ids \ {p} /\ Slots' = Slots
          /\ UNCHANGED <<alive, left, toDisconnect>>
    BY <1>9, <1>12, RemoveIdDoes DEF history, queues
  <2> QED BY <1>0, <2>1 DEF UserStill, Nested, Putting, Closing, Dropping
<1>13. ASSUME RemoveSlot("service") PROVE Nested'
  <2>1. PICK p \in Port :
          /\ p = at["service"].port /\ pc["service"] = "removeSlot"
          /\ pc'["service"] = "drop"
          /\ Sockets' = Sockets /\ Ids' = Ids /\ Slots' = Slots \ {p}
          /\ UNCHANGED <<alive, left, toDisconnect>>
    BY <1>9, <1>13, RemoveSlotDoes DEF history, queues
  <2> QED BY <1>0, <2>1 DEF UserStill, Nested, Putting, Closing, Dropping
<1> HIDE DEF Typed
<1> QED BY <1>2, <1>3, <1>4, <1>5, <1>6, <1>7, <1>8, <1>10, <1>11, <1>12, <1>13 DEF ServiceMoves

-----------------------------------------------------------------------------
(* The descriptors of the ports. *)

Owns(f, cn, p, fd) ==
  IF p \in Listener THEN f[fd].kind = "listen" ELSE f[fd].conn # None /\ cn[f[fd].conn].owner = p

LEMMA OwnIs == ASSUME NEW p, NEW fd \in Fd PROVE Own(p, fd) <=> Owns(file, conn, p, fd)
BY DEF Own, Owns, Listening, ConnOf

\* A descriptor that some port owns is neither free nor another port's, unless both listen.
LEMMA OwnsApart ==
  ASSUME OneDescriptor, NEW p \in Port, NEW q \in Port, p # q, p \notin Listener,
         NEW fd \in Fd, Owns(file, conn, p, fd), NEW other \in Fd, Owns(file, conn, q, other)
  PROVE  other # fd
BY Numbers DEF Owns, OneDescriptor

\* No descriptor in use, no connection that has an owner, and no connection that its peer has
\* closed is changed.
NetGrows ==
  /\ \A fd \in Fd : \/ file'[fd] = file[fd]
                    \/ file[fd] = Free /\ \A c \in Conn : conn[c].state = "closed" =>
                                                             file'[fd].conn # c
  /\ \A c \in Conn : conn[c].owner # None =>
       conn'[c].owner = conn[c].owner /\ conn'[c].fd = conn[c].fd
  /\ \A c \in Conn : conn[c].state = "closed" =>
       /\ conn'[c].state = "closed" /\ conn'[c].sent = conn[c].sent
       /\ conn'[c].read \in {conn[c].read, conn[c].sent}
  /\ \A c \in Conn : conn'[c].owner = None => conn[c].owner = None /\ conn'[c].read \in {0, conn[c].read}

LEMMA NetSame == ASSUME UNCHANGED network PROVE NetGrows
BY DEF NetGrows, network

Ended(cn, c) == c \in Conn /\ cn[c].state = "closed" /\ cn[c].read = cn[c].sent

LEMMA NetKeeps ==
  ASSUME FilesTyped, OneDescriptor, NetGrows
  PROVE  /\ \A p \in Port, fd \in Fd : Owns(file, conn, p, fd) =>
              file'[fd] = file[fd] /\ Owns(file', conn', p, fd)
         /\ \A c : Ended(conn, c) => Ended(conn', c)
         /\ \A p \in Port : Lost(p) => Lost(p)'
         /\ \A fd \in Fd : file[fd].conn # None => file'[fd] = file[fd]
         /\ \A c \in Conn : conn[c].state = "closed" /\ (\A fd \in Fd : file[fd].conn # c) =>
                              \A fd \in Fd : file'[fd].conn # c
<1>1. \A fd \in Fd : file[fd].conn \in Conn \cup {None}
  BY DEF FilesTyped, FileSet
<1>2. \A fd \in Fd : file[fd].conn # None => file'[fd] = file[fd]
  BY FreeIs DEF NetGrows
<1>3. ASSUME NEW p \in Port, NEW fd \in Fd, Owns(file, conn, p, fd)
      PROVE  file'[fd] = file[fd] /\ Owns(file', conn', p, fd)
  <2>1. p # None
    BY Numbers
  <2>2. file[fd] # Free
    BY <1>3, FreeIs DEF Owns
  <2> QED BY <1>1, <1>3, <2>1, <2>2 DEF Owns, NetGrows
<1>4. \A c : Ended(conn, c) => Ended(conn', c)
  BY DEF Ended, NetGrows
<1>5. ASSUME NEW p \in Port, Lost(p) PROVE Lost(p)'
  <2>1. PICK c \in Conn : conn[c].owner = p /\ conn[c].state = "closed"
    BY <1>5 DEF Lost
  <2>2. conn'[c].owner = p /\ conn'[c].state = "closed"
    BY <2>1, Numbers DEF NetGrows
  <2> QED BY <2>2 DEF Lost
<1>6. \A c \in Conn : conn[c].state = "closed" /\ (\A fd \in Fd : file[fd].conn # c) =>
                              \A fd \in Fd : file'[fd].conn # c
  BY DEF NetGrows
<1> QED BY <1>2, <1>3, <1>4, <1>5, <1>6

\* Which steps only add to the network.
LEMMA BeginsGrow ==
  ASSUME Typed, OneDescriptor, NEW p \in Port,
         Connect(p) \/ Listen(p) \/ Fail(p) \/ \E fd \in Fd : Attach(p, fd)
  PROVE  NetGrows
<1> USE DEF Typed
<1>1. CASE Connect(p)
  <2>1. PICK fd \in Fd, c \in Conn :
           /\ file[fd] = Free /\ conn[c] = NoConn
           /\ FileBecomes(fd, "conn", c) /\ OthersStay(c)
           /\ conn'[c].owner = p
    BY <1>1, ConnectDoes
  <2>2. p # None /\ c # None
    BY Numbers
  <2> QED BY <2>1, <2>2, NoConnIs DEF FileBecomes, OthersStay, NetGrows
<1>2. CASE Listen(p)
  <2>1. PICK fd \in Fd : file[fd] = Free /\ FileBecomes(fd, "listen", None) /\ conn' = conn
    BY <1>2, ListenDoes
  <2> QED BY <2>1, Numbers DEF FileBecomes, NetGrows
<1>3. CASE Fail(p)
  <2>1. /\ conn' = conn
        /\ \A f \in Fd : \/ file'[f] = file[f]
                         \/ file[f] = Free /\ file'[f].kind = "raw" /\ file'[f].conn = None
    BY <1>3, FailDoes
  <2> QED BY <2>1, Numbers DEF NetGrows
<1>4. ASSUME NEW fd \in Fd, Attach(p, fd) PROVE NetGrows
  <2>1. PICK c \in Conn :
           /\ conn[c].owner = None /\ file' = file /\ OthersStay(c)
           /\ conn'[c].state = conn[c].state /\ conn'[c].owner = p
           /\ conn'[c].sent = conn[c].sent /\ conn'[c].read = conn[c].read
    BY <1>4, AttachDoes
  <2>2. p # None
    BY Numbers
  <2> QED BY <2>1, <2>2 DEF OthersStay, NetGrows
<1> QED BY <1>1, <1>2, <1>3, <1>4

LEMMA EnvironmentGrows ==
  ASSUME Typed, OneDescriptor, (\E c \in Conn : Peer(c)) \/ (\E fd \in Fd : ClientArrives(fd))
  PROVE  NetGrows
<1> USE DEF Typed
<1>1. ASSUME NEW c \in Conn, Peer(c) PROVE NetGrows
  BY <1>1, PeerDoes DEF OthersStay, NetGrows
<1>2. ASSUME NEW fd \in Fd, ClientArrives(fd) PROVE NetGrows
  <2>1. PICK c \in Conn :
           /\ conn[c] = NoConn /\ file' = file /\ OthersStay(c)
           /\ conn'[c].state = "waiting" /\ conn'[c].fd = fd /\ conn'[c].owner = None
           /\ conn'[c].sent = 0 /\ conn'[c].read = 0
    BY <1>2, ClientArrivesDoes
  <2> QED BY <2>1, NoConnIs DEF OthersStay, NetGrows
<1> QED BY <1>1, <1>2

LEMMA AcceptGrows ==
  ASSUME Typed, OneDescriptor, Accept
  PROVE  NetGrows
<1> USE DEF Typed
<1>1. CASE UNCHANGED network
  BY <1>1, NetSame
<1>2. CASE ~ UNCHANGED network
  <2>1. PICK fd \in Fd, c \in Conn :
                 /\ file[fd] = Free /\ conn[c].state = "waiting"
                 /\ FileBecomes(fd, "conn", c) /\ OthersStay(c)
                 /\ conn'[c].state = "open" /\ conn'[c].owner = conn[c].owner
                 /\ conn'[c].fd = conn[c].fd /\ conn'[c].read = conn[c].read
    BY <1>2, AcceptDoes
  <2> QED BY <2>1 DEF FileBecomes, OthersStay, NetGrows
<1> QED BY <1>1, <1>2

LostIn(cn, p) == \E c \in Conn : cn[c].owner = p /\ cn[c].state = "closed"

\* What becomes of the network, as far as the sockets of some ports are concerned.
NetKeep(ports) ==
  /\ \A p \in ports, fd \in Fd : Owns(file, conn, p, fd) =>
       file'[fd] = file[fd] /\ Owns(file', conn', p, fd)
  /\ \A c \in Conn : conn[c].owner # None =>
       conn'[c].owner = conn[c].owner /\ conn'[c].fd = conn[c].fd
  /\ \A c : Ended(conn, c) => Ended(conn', c)
  /\ \A p \in Port : LostIn(conn, p) => LostIn(conn', p)
  /\ \A c \in Conn : conn[c].state = "closed" /\ (\A fd \in Fd : file[fd].conn # c) =>
       \A fd \in Fd : file'[fd].conn # c
  /\ \A c \in Conn : conn'[c].owner = None =>
       conn[c].owner = None /\ conn'[c].read \in {0, conn[c].read}

LEMMA GrowsKeep == ASSUME FilesTyped, OneDescriptor, NetGrows PROVE NetKeep(Port)
<1>1. /\ \A c \in Conn : conn[c].owner # None =>
           conn'[c].owner = conn[c].owner /\ conn'[c].fd = conn[c].fd
      /\ \A c \in Conn : conn'[c].owner = None =>
           conn[c].owner = None /\ conn'[c].read \in {0, conn[c].read}
  BY DEF NetGrows
<1>2. ASSUME NEW p \in Port, LostIn(conn, p) PROVE LostIn(conn', p)
  BY <1>2, Numbers DEF LostIn, NetGrows
<1> QED BY <1>1, <1>2, NetKeeps, Zenon DEF NetKeep

\* The parts of SocketsOwn.
OwnSockets  == \A p \in Sockets : SocketOwn(p)
UnownedRest == \A c \in Conn : conn[c].owner = None => conn[c].read = 0
OwnWritten  == \A p \in Port : \A i \in 1 .. Len(written[p]) : conn[written[p][i].conn].owner = p
QueueServed == \A i \in 1 .. Len(outQueue) :
                 outQueue[i].port \in alive =>
                   outQueue[i].port \in Sockets \/ LostIn(conn, outQueue[i].port)

OwnParts ==
  /\ OwnSockets
  /\ \A p \in Port : PutOwn(p) /\ EndOwn(p) /\ GoneOwn(p)
  /\ HandOwn /\ UnownedRest /\ OwnWritten /\ QueueServed

LEMMA SocketsOwnIs == SocketsOwn <=> (Undisturbed => OwnParts)
BY Zenon DEF SocketsOwn, OwnParts, OwnSockets, UnownedRest, OwnWritten, QueueServed, Lost, LostIn

LEMMA SocketsOwnThen ==
  ASSUME Undisturbed' => /\ OwnSockets'
                         /\ \A p \in Port : PutOwn(p)' /\ EndOwn(p)' /\ GoneOwn(p)'
                         /\ HandOwn' /\ UnownedRest' /\ OwnWritten' /\ QueueServed'
  PROVE  SocketsOwn'
<1>1. (SocketsOwn <=> (Undisturbed => OwnParts))'
  BY SocketsOwnIs, PTL
<1> QED BY <1>1 DEF OwnParts

LEMMA SocketKept ==
  ASSUME Typed, NEW ports \in SUBSET Port, NetKeep(ports), NEW p \in ports,
         p \in Sockets, SocketOwn(p), GetSocket(p)' = GetSocket(p),
         pc["service"] = "removeSocket" /\ at["service"].port = p => ServiceStill
  PROVE  SocketOwn(p)'
<1>1. GetSocket(p) \in Fd
  BY SocketIs DEF Typed
<1>2. CASE pc["service"] = "removeSocket" /\ at["service"].port = p
  BY <1>2 DEF SocketOwn, ServiceStill
<1>3. CASE Own(p, GetSocket(p))
  <2>1. Owns(file, conn, p, GetSocket(p))
    BY <1>1, <1>3, OwnIs
  <2>2. Owns(file', conn', p, GetSocket(p))
    BY <1>1, <2>1 DEF NetKeep
  <2> QED BY <1>1, <2>2 DEF SocketOwn, Own, Owns, Listening, ConnOf
<1> QED BY <1>2, <1>3 DEF SocketOwn

LEMMA PutKept ==
  ASSUME Typed, Places, OneDescriptor, NEW ports \in SUBSET Port, NetKeep(ports), NEW p \in ports,
         PutOwn(p), Putting(p)' => Putting(p) /\ at'["user"] = at["user"],
         Putting(p)' /\ pc'["user"] # "putSocket" => GetSocket(p)' = at["user"].fd
  PROVE  PutOwn(p)'
<1> SUFFICES ASSUME Putting(p)' PROVE PutOwn(p)'
  BY DEF PutOwn
<1> DEFINE fd == at["user"].fd
           c == at["user"].conn
<1>1. /\ at'["user"] = at["user"] /\ fd \in Fd /\ Own(p, fd)
      /\ c # None => ConnOf(fd) = c /\ conn[c].fd = NoFd
  BY DEF PutOwn, Places, Putting
<1>2. Owns(file, conn, p, fd)
  BY <1>1, OwnIs
<1>3. file'[fd] = file[fd] /\ Owns(file', conn', p, fd)
  BY <1>1, <1>2 DEF NetKeep
<1>4. Own(p, at["user"].fd)'
  BY <1>1, <1>3 DEF Own, Owns, Listening, ConnOf
<1>5. ASSUME c # None PROVE ConnOf(at["user"].fd)' = c /\ conn'[c].fd = NoFd
  <2>1. file[fd].conn = c /\ c \in Conn
    BY <1>1, <1>5 DEF ConnOf, Typed, FilesTyped, FileSet
  <2>2. file[fd].kind # "listen" /\ p # None
    BY <1>1, <1>5, <2>1, Numbers DEF OneDescriptor
  <2>3. conn[c].owner # None
    BY <1>2, <2>1, <2>2 DEF Owns
  <2>4. conn'[c].fd = NoFd
    BY <1>1, <1>5, <2>1, <2>3 DEF NetKeep
  <2> QED BY <1>1, <1>3, <2>1, <2>4 DEF ConnOf
<1> QED BY <1>1, <1>4, <1>5 DEF PutOwn

LEMMA EndKept ==
  ASSUME Typed, Places, EachDroppedOnce, NEW ports \in SUBSET Port, NetKeep(ports), NEW p \in ports,
         p \in Sockets => SocketOwn(p), EndOwn(p), GetSocket(p)' = GetSocket(p),
         p \in Range(toDisconnect') \/ (pc'["service"] = "close" /\ at'["service"].port = p) =>
           p \in Range(toDisconnect) \/ (pc["service"] = "close" /\ at["service"].port = p)
  PROVE  EndOwn(p)'
<1> DEFINE fd == GetSocket(p)
<1> SUFFICES ASSUME p \in Range(toDisconnect) \/ (pc["service"] = "close" /\ at["service"].port = p)
             PROVE  p \notin Listener /\ Finished(ConnOf(GetSocket(p)))'
  BY DEF EndOwn
<1>1. p \notin Listener /\ Finished(ConnOf(fd))
  BY DEF EndOwn
<1>2. fd \in Fd /\ p \in Sockets
  BY <1>1, SocketIs, Numbers DEF Finished, ConnOf, Typed
<1>3. ~(pc["service"] = "removeSocket" /\ at["service"].port = p)
  <2>1. Range(toDisconnect) = {toDisconnect[i] : i \in 1 .. Len(toDisconnect)}
    BY RangeIs DEF QueuesTyped, Typed
  <2> QED BY <2>1 DEF EachDroppedOnce
<1>4. Own(p, fd)
  BY <1>2, <1>3 DEF SocketOwn
<1>5. file'[fd] = file[fd]
  BY <1>2, <1>4, OwnIs DEF NetKeep
<1>6. Ended(conn', file[fd].conn)
  BY <1>1, <1>2 DEF NetKeep, Ended, Finished, ConnOf
<1> QED BY <1>1, <1>2, <1>5, <1>6 DEF Ended, Finished, ConnOf

LEMMA GoneKept ==
  ASSUME NEW ports, NetKeep(ports), NEW p \in Port, GoneOwn(p),
         Removing("service", p)' => Removing("service", p)
                                    /\ at'["service"].conn = at["service"].conn
  PROVE  GoneOwn(p)'
<1> SUFFICES ASSUME Removing("service", p)' PROVE GoneOwn(p)'
  BY DEF GoneOwn
<1> DEFINE c == at["service"].conn
<1>1. /\ Finished(c) /\ conn[c].owner = p /\ p \notin Listener /\ \A fd \in Fd : ConnOf(fd) # c
      /\ at'["service"].conn = c
  BY DEF GoneOwn
<1>2. Ended(conn', c) /\ c \in Conn /\ conn[c].state = "closed"
  BY <1>1 DEF NetKeep, Ended, Finished
<1>3. conn'[c].owner = p
  BY <1>1, <1>2, Numbers DEF NetKeep
<1>4. \A fd \in Fd : file'[fd].conn # c
  BY <1>1, <1>2 DEF NetKeep, ConnOf
<1> QED BY <1>1, <1>2, <1>3, <1>4 DEF GoneOwn, Ended, Finished, ConnOf

LEMMA RestKept ==
  ASSUME FilesTyped, HistoryTyped, NEW ports, NetKeep(ports)
  PROVE  /\ UnownedRest => UnownedRest'
         /\ OwnWritten /\ written' = written => OwnWritten'
<1>1. UnownedRest => UnownedRest'
  BY DEF UnownedRest, NetKeep
<1>2. ASSUME OwnWritten, written' = written PROVE OwnWritten'
  <2>1. ASSUME NEW p \in Port, NEW i \in 1 .. Len(written[p]) PROVE written[p][i].conn \in Conn
    <3>1. written[p] \in Seq(WrittenSet)
      BY DEF HistoryTyped
    <3>2. written[p][i] \in WrittenSet
      BY <3>1
    <3>3. \A m \in WrittenSet : m.conn \in Conn
      BY DEF WrittenSet
    <3> QED BY <3>2, <3>3
  <2> QED BY <1>2, <2>1, Numbers DEF OwnWritten, NetKeep
<1> QED BY <1>1, <1>2

LEMMA ServedKept ==
  ASSUME QueuesTyped, QueueServed, NEW ports, NetKeep(ports), alive' \subseteq alive,
         \A q \in Sockets : q \in Sockets' \/ q \notin alive' \/ LostIn(conn', q),
         outQueue' = outQueue
           \/ \A i \in 1 .. Len(outQueue') : \/ outQueue'[i].port \in Sockets'
                                             \/ \E j \in 1 .. Len(outQueue) : outQueue'[i] = outQueue[j]
  PROVE  QueueServed'
<1> SUFFICES ASSUME NEW i \in 1 .. Len(outQueue'), outQueue'[i].port \in alive'
             PROVE  outQueue'[i].port \in Sockets' \/ LostIn(conn', outQueue'[i].port)
  BY DEF QueueServed
<1> SUFFICES ASSUME outQueue'[i].port \notin Sockets' PROVE LostIn(conn', outQueue'[i].port)
  OBVIOUS
<1>1. PICK j \in 1 .. Len(outQueue) : outQueue'[i] = outQueue[j]
  OBVIOUS
<1> DEFINE p == outQueue[j].port
<1>2. p \in Port
  <2>1. outQueue[j] \in MessageSet
    BY DEF QueuesTyped
  <2>2. \A m \in MessageSet : m.port \in Port
    BY DEF MessageSet
  <2> QED BY <2>1, <2>2
<1>3. p \in alive /\ (p \in Sockets \/ LostIn(conn, p))
  BY <1>1 DEF QueueServed
<1>4. LostIn(conn, p) => LostIn(conn', p)
  BY <1>2 DEF NetKeep
<1> QED BY <1>1, <1>3, <1>4

\* A step that leaves the sockets of the ports and the service where they are.
LEMMA OwnKept ==
  ASSUME Typed, Places, EachDroppedOnce, OneDescriptor, OwnParts, NetKeep(Port),
         Sockets' = Sockets, \A p \in Port : GetSocket(p)' = GetSocket(p),
         ServiceStill, toDisconnect' = toDisconnect, written' = written,
         \A p \in Port : PutOwn(p)', QueueServed'
  PROVE  OwnParts'
<1>0. Sockets \subseteq Port
  BY KeysInPort DEF Typed
<1>1. OwnSockets'
  <2>1. ASSUME NEW p \in Sockets PROVE SocketOwn(p)'
    BY <1>0, <2>1, SocketKept DEF OwnParts, OwnSockets
  <2> QED BY <2>1 DEF OwnSockets
<1>2. ASSUME NEW p \in Port PROVE EndOwn(p)' /\ GoneOwn(p)'
  <2>1. EndOwn(p)'
    BY EndKept DEF OwnParts, OwnSockets, ServiceStill
  <2>2. GoneOwn(p)'
    BY GoneKept DEF OwnParts, ServiceStill, Removing
  <2> QED BY <2>1, <2>2
<1>3. HandOwn'
  <2>1. pc["service"] \in {"write", "recv", "close"} => at["service"].port \in Port
    BY DEF Places, Thread
  <2> QED BY <2>1 DEF OwnParts, HandOwn, ServiceStill, GetSocket
<1>4. UnownedRest' /\ OwnWritten'
  BY RestKept DEF OwnParts, Typed
<1> QED BY <1>1, <1>2, <1>3, <1>4 DEF OwnParts

LEMMA OwnUser ==
  ASSUME Typed, Typed', Places, EachDroppedOnce, Nested, OneDescriptor, SocketsOwn, UserMoves
  PROVE  SocketsOwn'
<1> USE DEF Typed
<1>0. ServiceStill /\ toDisconnect' = toDisconnect /\ written' = written
  BY UserAside DEF Aside
<1> SUFFICES ASSUME Undisturbed' PROVE OwnParts'
  BY SocketsOwnThen DEF OwnParts
<1>1. ASSUME OwnParts, NetGrows, portSocketMap' = portSocketMap, alive' \subseteq alive,
             outQueue' = outQueue \/ \E p \in Port : Send(p),
             \A p \in Port : Putting(p)' => PutOwn(p)' \/
                               (Putting(p) /\ pc["user"] # "putSocket" /\ at'["user"] = at["user"])
                             \/ UserStill
      PROVE  OwnParts'
  <2>1. NetKeep(Port)
    BY <1>1, GrowsKeep
  <2>2. Sockets' = Sockets /\ \A p \in Port : GetSocket(p)' = GetSocket(p)
    BY <1>1 DEF Sockets, GetSocket
  <2>3. ASSUME NEW p \in Port PROVE PutOwn(p)'
    <3>1. CASE ~Putting(p)' \/ PutOwn(p)'
      BY <3>1 DEF PutOwn
    <3>2. CASE Putting(p) /\ pc["user"] # "putSocket" /\ at'["user"] = at["user"]
      <4>1. PutOwn(p) /\ GetSocket(p) = at["user"].fd
        BY <1>1, <3>2 DEF OwnParts, PutOwn
      <4> QED BY <2>1, <2>2, <3>2, <4>1, PutKept
    <3>3. CASE UserStill
      <4>1. /\ PutOwn(p)
            /\ Putting(p) /\ pc["user"] # "putSocket" => GetSocket(p) = at["user"].fd
            /\ Putting(p)' <=> Putting(p)
        BY <1>1, <3>3 DEF OwnParts, PutOwn, Putting, UserStill
      <4> QED BY <2>1, <2>2, <3>3, <4>1, PutKept DEF UserStill
    <3> QED BY <1>1, <3>1, <3>2, <3>3
  <2>4. QueueServed'
    <3>1. QueueServed
      BY <1>1 DEF OwnParts
    <3>2. CASE outQueue' = outQueue
      BY <1>1, <2>1, <2>2, <3>1, <3>2, ServedKept
    <3>3. ASSUME NEW p \in Port, Send(p) PROVE QueueServed'
      <4>1. /\ p \in Sockets /\ Len(outQueue) \in Nat /\ Len(outQueue') = Len(outQueue) + 1
            /\ \A i \in 1 .. Len(outQueue) : outQueue'[i] = outQueue[i]
            /\ outQueue'[Len(outQueue) + 1].port = p
        BY <3>3, SendDoes DEF QueuesTyped
      <4>2. \A i \in 1 .. Len(outQueue') : \/ outQueue'[i].port \in Sockets'
                                           \/ \E j \in 1 .. Len(outQueue) : outQueue'[i] = outQueue[j]
        <5>1. \A i \in 1 .. Len(outQueue') : i \in 1 .. Len(outQueue) \/ i = Len(outQueue) + 1
          BY <4>1
        <5> QED BY <2>2, <4>1, <5>1
      <4> QED BY <1>1, <2>1, <2>2, <3>1, <4>2, ServedKept
    <3> QED BY <1>1, <3>2, <3>3
  <2> QED BY <1>0, <1>1, <2>1, <2>2, <2>3, <2>4, OwnKept
<1>2. ASSUME left' = left PROVE Undisturbed /\ OwnParts
  BY <1>2, SocketsOwnIs DEF Undisturbed
<1>3. ASSUME Collect \/ \E p \in Port : Send(p) \/ AcceptCall(p) PROVE OwnParts'
  <2>1. /\ UNCHANGED <<maps, left, alive, pc, at, network>>
        /\ outQueue' = outQueue \/ \E p \in Port : Send(p)
    BY <1>3, CollectDoes, SendDoes, AcceptCallDoes DEF history, queues
  <2>2. UserStill /\ portSocketMap' = portSocketMap
    BY <2>1 DEF maps, UserStill
  <2> QED BY <1>1, <1>2, <2>1, <2>2, NetSame
<1>4. ASSUME NEW p \in Port, Fail(p) PROVE OwnParts'
  <2>1. UNCHANGED <<maps, left, alive, pc, at, outQueue>>
    BY <1>4, FailDoes DEF history, queues
  <2>2. UserStill /\ portSocketMap' = portSocketMap
    BY <2>1 DEF maps, UserStill
  <2> QED BY <1>1, <1>2, <1>4, <2>1, <2>2, BeginsGrow
<1>5. ASSUME NEW p \in Port, Destroy(p) PROVE OwnParts'
  <2>1. UNCHANGED <<maps, left, network, pc, at, outQueue>> /\ alive' \subseteq alive
    BY <1>5, DestroyDoes DEF history, queues
  <2>2. UserStill /\ portSocketMap' = portSocketMap
    BY <2>1 DEF maps, UserStill
  <2> QED BY <1>1, <1>2, <2>1, <2>2, NetSame
<1>6. ASSUME (\E c \in Conn : Peer(c)) \/ (\E fd \in Fd : ClientArrives(fd)) PROVE OwnParts'
  <2>1. UNCHANGED <<maps, left, alive, pc, at, outQueue>>
    BY <1>6, PeerDoes, ClientArrivesDoes DEF history, queues
  <2>2. UserStill /\ portSocketMap' = portSocketMap
    BY <2>1 DEF maps, UserStill
  <2> QED BY <1>1, <1>2, <1>6, <2>1, <2>2, EnvironmentGrows
<1>7. ASSUME PutId \/ PutSlot PROVE OwnParts'
  <2>1. /\ UNCHANGED <<portSocketMap, left, alive, network, outQueue>>
        /\ \/ pc["user"] = "putId" /\ pc'["user"] = "putSlot" /\ at' = at
           \/ pc'["user"] = "idle"
    BY <1>7, PutIdDoes, PutSlotDoes DEF history, queues
  <2>2. \A p \in Port : Putting(p)' =>
          Putting(p) /\ pc["user"] # "putSocket" /\ at'["user"] = at["user"]
    BY <2>1 DEF Putting
  <2> QED BY <1>1, <1>2, <2>1, <2>2, NetSame
<1>8. ASSUME NEW p \in Port, NEW fd \in Fd, NEW c \in Conn \cup {None}, Begins(p, fd, c), NetGrows,
             Owns(file', conn', p, fd),
             c # None => file'[fd].conn = c /\ conn'[c].fd = NoFd
      PROVE  OwnParts'
  <2>1. /\ UNCHANGED <<maps, left, alive, outQueue>>
        /\ pc'["user"] = "putSocket" /\ at'["user"].port = p
        /\ at'["user"].fd = fd /\ at'["user"].conn = c
    BY <1>8 DEF Begins, history, queues
  <2>2. \A q \in Port : Putting(q)' => PutOwn(q)'
    BY <1>8, <2>1 DEF PutOwn, Putting, Own, Owns, Listening, ConnOf
  <2>3. portSocketMap' = portSocketMap
    BY <2>1 DEF maps
  <2> QED BY <1>1, <1>2, <1>8, <2>1, <2>2, <2>3
<1>9. ASSUME NEW p \in Port, Connect(p) PROVE OwnParts'
  <2>1. PICK fd \in Fd, c \in Conn :
          /\ Begins(p, fd, c) /\ p \notin Listener /\ file'[fd].conn = c
          /\ conn'[c].owner = p /\ conn'[c].fd = NoFd
    BY <1>9, ConnectDoes DEF FileBecomes
  <2>2. NetGrows
    BY <1>9, BeginsGrow
  <2> QED BY <1>8, <2>1, <2>2, Numbers DEF Owns
<1>10. ASSUME NEW p \in Port, Listen(p) PROVE OwnParts'
  <2>1. PICK fd \in Fd : Begins(p, fd, None) /\ p \in Listener /\ file'[fd].kind = "listen"
    BY <1>10, ListenDoes DEF FileBecomes
  <2>2. NetGrows
    BY <1>10, BeginsGrow
  <2> QED BY <1>8, <2>1, <2>2 DEF Owns
<1>11. ASSUME NEW p \in Port, NEW fd \in Fd, Attach(p, fd) PROVE OwnParts'
  <2>1. PICK c \in Conn :
          /\ Begins(p, fd, None) /\ p \notin Listener /\ file[fd].conn = c /\ file' = file
          /\ conn'[c].owner = p
    BY <1>11, AttachDoes DEF ConnOf
  <2>2. NetGrows
    BY <1>11, BeginsGrow
  <2> QED BY <1>8, <2>1, <2>2, Numbers DEF Owns
<1>12. ASSUME PutSocket PROVE OwnParts'
  <2>1. PICK p \in Port :
          /\ p = at["user"].port /\ pc["user"] = "putSocket" /\ pc'["user"] = "putId" /\ at' = at
          /\ Sockets' = Sockets \cup {p} /\ GetSocket(p)' = at["user"].fd
          /\ \A q \in Port : q # p => GetSocket(q)' = GetSocket(q)
          /\ UNCHANGED <<left, alive, network, outQueue>>
    BY <1>12, PutSocketDoes DEF history, queues
  <2>2. OwnParts /\ Putting(p) /\ PutOwn(p)
    BY <1>2, <2>1 DEF OwnParts, Putting
  <2>3. p \notin Sockets /\ p \notin Range(toDisconnect) /\ ~Closing("service", p)
    BY <2>1, <2>2 DEF Nested
  <2>4. NetKeep(Port)
    BY <2>1, NetSame, GrowsKeep
  <2>5. OwnSockets'
    <3>1. ASSUME NEW q \in Sockets PROVE SocketOwn(q)'
      <4>1. q \in Port /\ q # p
        BY <2>3, KeysInPort
      <4> QED BY <1>0, <2>1, <2>2, <2>4, <4>1, SocketKept DEF OwnParts, OwnSockets
    <3>2. SocketOwn(p)'
      <4>1. Own(p, at["user"].fd)
        BY <2>2 DEF PutOwn
      <4>2. UNCHANGED <<file, conn>>
        BY <2>1 DEF network
      <4> QED BY <2>1, <4>1, <4>2 DEF SocketOwn, Own, Listening, ConnOf
    <3> QED BY <2>1, <3>1, <3>2 DEF OwnSockets
  <2>6. ASSUME NEW q \in Port PROVE PutOwn(q)'
    <3>1. PutOwn(q) /\ (Putting(q)' => Putting(q) /\ at'["user"] = at["user"])
          /\ (Putting(q)' => q = p)
      BY <2>1, <2>2 DEF OwnParts, Putting
    <3> QED BY <2>1, <2>4, <3>1, PutKept
  <2>7. ASSUME NEW q \in Port PROVE EndOwn(q)'
    <3>1. CASE q = p
      BY <1>0, <2>3, <3>1 DEF EndOwn, ServiceStill, Closing
    <3>2. CASE q # p
      BY <1>0, <2>1, <2>2, <2>4, <3>2, EndKept DEF OwnParts, OwnSockets, ServiceStill
    <3> QED BY <3>1, <3>2
  <2>8. ASSUME NEW q \in Port PROVE GoneOwn(q)'
    BY <1>0, <2>2, <2>4, GoneKept DEF OwnParts, ServiceStill, Removing
  <2>9. HandOwn'
    <3>1. pc["service"] \in {"write", "recv", "close"} => at["service"].port \in Port
      BY DEF Places, Thread
    <3>2. HandOwn
      BY <2>2 DEF OwnParts
    <3> DEFINE q == at["service"].port
    <3>3. pc["service"] \in {"write", "recv", "close"} =>
            q \in Sockets' /\ GetSocket(q)' = at["service"].fd
      BY <2>1, <2>3, <3>1, <3>2 DEF HandOwn
    <3> QED BY <1>0, <2>1, <3>3 DEF HandOwn, ServiceStill, GetSocket
  <2>10. UnownedRest' /\ OwnWritten'
    BY <1>0, <2>2, <2>4, RestKept DEF OwnParts
  <2>11. QueueServed'
    BY <2>1, <2>2, <2>4, ServedKept DEF OwnParts
  <2> QED BY <2>5, <2>6, <2>7, <2>8, <2>9, <2>10, <2>11 DEF OwnParts
<1>13. CloseSocket("user") \/ RemoveSocket("user") \/ RemoveId("user") \/ RemoveSlot("user") => FALSE
  <2>1. ASSUME CloseSocket("user") \/ RemoveSocket("user") \/ RemoveId("user") \/ RemoveSlot("user")
        PROVE  FALSE
    <3>1. /\ pc["user"] \in {"close", "removeSocket", "removeId", "removeSlot"}
          /\ left' = left
      BY <2>1 DEF CloseSocket, RemoveSocket, RemoveId, RemoveSlot, history
    <3> QED BY <1>2, <3>1 DEF Nested, Undisturbed
  <2> QED BY <2>1
<1>14. ASSUME NEW p \in Port, DisconnectCall(p) PROVE FALSE
  <2>1. left' = left \cup {p}
    BY <1>14, DisconnectCallDoes
  <2> QED BY <2>1 DEF Undisturbed
<1> HIDE DEF Typed
<1> QED BY <1>3, <1>4, <1>5, <1>6, <1>7, <1>9, <1>10, <1>11, <1>12, <1>13, <1>14 DEF UserMoves

\* What the service has in hand it may end or has closed.
Ends(p)  == p \in Range(toDisconnect) \/ (pc["service"] = "close" /\ at["service"].port = p)

\* A step of the service that keeps the socket of each port, or is about this port.
LEMMA OwnServed ==
  ASSUME Typed, Places, EachDroppedOnce, OneDescriptor, OwnParts, NEW ports \in SUBSET Port,
         NetKeep(ports), UserStill, Sockets' \subseteq Sockets,
         \A p \in Port :
           \/ /\ p \in ports /\ GetSocket(p)' = GetSocket(p)
              /\ p \in Sockets' /\ pc["service"] = "removeSocket" /\ at["service"].port = p =>
                   ServiceStill
              /\ EndOwn(p)' \/ (Ends(p)' => Ends(p))
           \/ ~Putting(p) /\ EndOwn(p)' /\ (p \in Sockets' => SocketOwn(p)'),
         \A p \in Port : \/ GoneOwn(p)'
                         \/ Removing("service", p)' => Removing("service", p)
                                                       /\ at'["service"].conn = at["service"].conn,
         HandOwn', OwnWritten', QueueServed'
  PROVE  OwnParts'
<1>0. Sockets \subseteq Port
  BY KeysInPort DEF Typed
<1>1. OwnSockets'
  <2>1. ASSUME NEW p \in Sockets' PROVE SocketOwn(p)'
    <3>1. p \in Port /\ p \in Sockets
      BY <1>0
    <3>2. CASE p \in ports /\ GetSocket(p)' = GetSocket(p)
               /\ (pc["service"] = "removeSocket" /\ at["service"].port = p => ServiceStill)
      BY <3>1, <3>2, SocketKept DEF OwnParts, OwnSockets
    <3> QED BY <3>1, <3>2
  <2> QED BY <2>1 DEF OwnSockets
<1>2. ASSUME NEW p \in Port PROVE PutOwn(p)'
  <2>1. PutOwn(p) /\ (Putting(p)' <=> Putting(p))
        /\ (Putting(p) /\ pc["user"] # "putSocket" => GetSocket(p) = at["user"].fd)
    BY DEF OwnParts, PutOwn, UserStill, Putting
  <2>2. CASE p \in ports /\ GetSocket(p)' = GetSocket(p)
    BY <2>1, <2>2, PutKept DEF UserStill
  <2>3. CASE ~Putting(p)
    BY <2>1, <2>3 DEF PutOwn
  <2> QED BY <2>2, <2>3
<1>3. ASSUME NEW p \in Port PROVE EndOwn(p)'
  <2>1. CASE p \in ports /\ GetSocket(p)' = GetSocket(p) /\ (Ends(p)' => Ends(p))
    BY <2>1, EndKept DEF OwnParts, OwnSockets, Ends
  <2> QED BY <2>1
<1>4. ASSUME NEW p \in Port PROVE GoneOwn(p)'
  <2>1. GoneOwn(p)
    BY DEF OwnParts
  <2> QED BY <2>1, GoneKept
<1>5. UnownedRest'
  BY RestKept DEF OwnParts, Typed
<1> QED BY <1>1, <1>2, <1>3, <1>4, <1>5 DEF OwnParts

LEMMA RecvKeeps ==
  ASSUME Typed, Places, OneDescriptor, OwnParts, Recv
  PROVE  NetKeep(Port)
<1> USE DEF Typed
<1> DEFINE p == at["service"].port
           fd == at["service"].fd
           c == file[fd].conn
<1>1. /\ pc["service"] = "recv" /\ p \in Port /\ fd \in Fd /\ c \in Conn \cup {None}
      /\ file' = file /\ (c = None => conn' = conn)
      /\ \A d \in Conn : /\ d # c => conn'[d] = conn[d]
                         /\ conn'[d].state = conn[d].state /\ conn'[d].owner = conn[d].owner
                         /\ conn'[d].fd = conn[d].fd /\ conn'[d].sent = conn[d].sent
                         /\ d = c => conn'[d].read = conn[d].sent
  BY RecvDoes
<1>2. p \in Sockets /\ GetSocket(p) = fd
  BY <1>1 DEF OwnParts, HandOwn
<1>3. Owns(file, conn, p, fd)
  <2>1. SocketOwn(p)
    BY <1>2 DEF OwnParts, OwnSockets
  <2> QED BY <1>1, <1>2, <2>1, OwnIs DEF SocketOwn
<1>4. c # None => conn[c].owner # None
  <2>1. p # None
    BY <1>1, Numbers
  <2>2. c # None => file[fd].kind # "listen"
    BY <1>1 DEF OneDescriptor
  <2> QED BY <1>3, <2>1, <2>2 DEF Owns
<1> HIDE DEF p, c, fd
<1>5. \A q \in Port, f \in Fd : Owns(file, conn, q, f) => Owns(file', conn', q, f)
  <2>1. \A f \in Fd : file[f].conn \in Conn \cup {None}
    BY DEF FilesTyped, FileSet
  <2> QED BY <1>1, <2>1 DEF Owns
<1>6. \A d : Ended(conn, d) => Ended(conn', d)
  BY <1>1 DEF Ended
<1>7. \A q \in Port : LostIn(conn, q) => LostIn(conn', q)
  BY <1>1 DEF LostIn
<1>8. \A d \in Conn : conn'[d].owner = None =>
        conn[d].owner = None /\ conn'[d].read \in {0, conn[d].read}
  BY <1>1, <1>4
<1> HIDE DEF Typed
<1> QED BY <1>1, <1>5, <1>6, <1>7, <1>8 DEF NetKeep

\* The service closes the socket of the port that it has in hand, which keeps those of all others.
LEMMA CloseKeeps ==
  ASSUME Typed, Places, OneDescriptor, OwnParts, CloseSocket("service"),
         NEW p \in Port, p = at["service"].port
  PROVE  NetKeep(Port \ {p})
<1> USE DEF Typed
<1> DEFINE fd == at["service"].fd
<1>0. "service" \in Thread
  BY DEF Thread
<1>1. /\ pc["service"] = "close" /\ fd \in Fd /\ FileBecomes(fd, "free", None)
      /\ \A c \in Conn :
           /\ conn'[c].fd = conn[c].fd /\ conn'[c].sent = conn[c].sent
           /\ conn'[c].read = conn[c].read /\ conn'[c].owner = conn[c].owner
           /\ \/ conn'[c] = conn[c]
              \/ conn[c].state = "waiting" /\ conn'[c].state = "closed"
  BY <1>0, CloseSocketDoes
<1>2. p \in Sockets /\ GetSocket(p) = fd /\ p \notin Listener
  BY <1>1 DEF OwnParts, HandOwn, EndOwn
<1>3. Owns(file, conn, p, fd)
  <2>1. SocketOwn(p)
    BY <1>2 DEF OwnParts, OwnSockets
  <2> QED BY <1>1, <1>2, <2>1, OwnIs DEF SocketOwn
<1> HIDE DEF fd
<1>4. ASSUME NEW q \in Port \ {p}, NEW other \in Fd, Owns(file, conn, q, other)
      PROVE  file'[other] = file[other] /\ Owns(file', conn', q, other)
  <2>1. other # fd
    BY <1>1, <1>2, <1>3, <1>4, OwnsApart
  <2>2. file'[other] = file[other] /\ file[other].conn \in Conn \cup {None}
    BY <1>1, <2>1 DEF FileBecomes, FilesTyped, FileSet
  <2> QED BY <1>1, <1>4, <2>2 DEF Owns
<1>5. \A d : Ended(conn, d) => Ended(conn', d)
  BY <1>1 DEF Ended
<1>6. \A q \in Port : LostIn(conn, q) => LostIn(conn', q)
  BY <1>1 DEF LostIn
<1>7. \A c \in Conn : conn[c].state = "closed" /\ (\A f \in Fd : file[f].conn # c) =>
        \A f \in Fd : file'[f].conn # c
  BY <1>1, Numbers DEF FileBecomes
<1> HIDE DEF Typed
<1> QED BY <1>1, <1>4, <1>5, <1>6, <1>7 DEF NetKeep

LEMMA OwnService ==
  ASSUME Typed, Typed', Places, Iterates, NumbersGrow, EachDroppedOnce, Nested, OneDescriptor,
         SocketsOwn, ServiceMoves
  PROVE  SocketsOwn'
<1> USE DEF Typed
<1>0. UserStill /\ "service" \in Thread
  BY PlacesService DEF Thread
<1> SUFFICES ASSUME Undisturbed' PROVE OwnParts'
  BY SocketsOwnThen DEF OwnParts
<1>a. left' = left
  BY DEF ServiceMoves, TakeMessage, Write, Lock, Visit, FindSocket, Recv, Unlock, Drop, Accept,
         CloseSocket, RemoveSocket, RemoveId, RemoveSlot, history
<1>b. Undisturbed /\ OwnParts
  BY <1>a, SocketsOwnIs DEF Undisturbed
<1>c. Sockets \subseteq Port
  BY KeysInPort
\* A step that leaves the map of the sockets alone.
<1>1. ASSUME NetKeep(Port), portSocketMap' = portSocketMap, alive' = alive,
             \A p \in Port : Ends(p)' => Ends(p) \/ EndOwn(p)',
             pc["service"] # "removeSocket",
             \A p \in Port : Removing("service", p)' => Removing("service", p)
                                                     /\ at'["service"].conn = at["service"].conn,
             HandOwn', written' = written \/ OwnWritten', outQueue' = outQueue \/ QueueServed'
      PROVE  OwnParts'
  <2>1. Sockets' = Sockets /\ \A p \in Port : GetSocket(p)' = GetSocket(p)
    BY <1>1 DEF Sockets, GetSocket
  <2>2. OwnWritten'
    BY <1>1, <1>b, RestKept DEF OwnParts
  <2>3. QueueServed'
    <3>1. CASE outQueue' = outQueue
      BY <1>1, <1>b, <2>1, <3>1, ServedKept DEF OwnParts
    <3> QED BY <1>1, <3>1
  <2> QED BY <1>0, <1>1, <1>b, <2>1, <2>2, <2>3, OwnServed
<1>2. ASSUME UNCHANGED <<maps, alive, toDisconnect, written, outQueue>>, NetGrows,
             pc["service"] \in {"send", "visit", "drop"},
             pc'["service"] \in {"send", "visit", "drop"}
      PROVE  OwnParts'
  <2>1. NetKeep(Port)
    BY <1>2, GrowsKeep
  <2>2. \A p \in Port : (Ends(p)' => Ends(p)) /\ ~Removing("service", p)'
    BY <1>2 DEF Ends, Removing
  <2>3. HandOwn' /\ portSocketMap' = portSocketMap
    BY <1>2 DEF HandOwn, maps
  <2> QED BY <1>1, <1>2, <2>1, <2>2, <2>3
<1>3. ASSUME Lock \/ Unlock PROVE OwnParts'
  <2>1. /\ UNCHANGED <<maps, alive, toDisconnect, written, outQueue, network>>
        /\ pc["service"] \in {"send", "visit", "drop"}
        /\ pc'["service"] \in {"send", "visit", "drop"}
    BY <1>3, LockDoes, UnlockDoes DEF history, queues
  <2> QED BY <1>2, <2>1, NetSame
<1>4. ASSUME Accept PROVE OwnParts'
  <2>1. /\ UNCHANGED <<maps, alive, toDisconnect, written, outQueue>>
        /\ pc["service"] = "drop" /\ pc'["service"] = "send"
    BY <1>4, AcceptDoes DEF history
  <2> QED BY <1>2, <1>4, <2>1, AcceptGrows
<1>5. ASSUME TakeMessage PROVE OwnParts'
  <2>1. /\ pc["service"] = "send" /\ Len(outQueue) \in Nat /\ Len(outQueue') = Len(outQueue) - 1
        /\ \A i \in 1 .. Len(outQueue) - 1 : outQueue'[i] = outQueue[i + 1]
        /\ \/ UNCHANGED <<pc, at>>
           \/ /\ pc'["service"] = "write" /\ outQueue[1].port \in Sockets
              /\ at'["service"].port = outQueue[1].port
              /\ at'["service"].fd = GetSocket(outQueue[1].port)
        /\ UNCHANGED <<maps, toDisconnect, network, alive, written>>
    BY <1>5, TakeMessageDoes DEF history
  <2>2. NetKeep(Port)
    BY <2>1, NetSame, GrowsKeep
  <2>3. Sockets' = Sockets /\ portSocketMap' = portSocketMap
    BY <2>1 DEF Sockets, maps
  <2>4. QueueServed'
    <3>1. \A i \in 1 .. Len(outQueue') : \E j \in 1 .. Len(outQueue) : outQueue'[i] = outQueue[j]
      <4>1. \A i \in 1 .. Len(outQueue') : i + 1 \in 1 .. Len(outQueue) /\ outQueue'[i] = outQueue[i + 1]
        BY <2>1
      <4> QED BY <4>1
    <3> QED BY <1>b, <2>1, <2>2, <2>3, <3>1, ServedKept DEF OwnParts
  <2>5. HandOwn'
    BY <1>b, <2>1, <2>3 DEF OwnParts, HandOwn, GetSocket
  <2>6. \A p \in Port : (Ends(p)' => Ends(p)) /\ ~Removing("service", p)'
    BY <2>1 DEF Ends, Removing
  <2> QED BY <1>1, <2>1, <2>2, <2>3, <2>4, <2>5, <2>6
<1>6. ASSUME Write PROVE OwnParts'
  <2> DEFINE p == at["service"].port
             fd == at["service"].fd
             c == file[fd].conn
  <2>1. /\ pc["service"] = "write" /\ p \in Port /\ fd \in Fd /\ c \in Conn \cup {None}
        /\ pc'["service"] = "send"
        /\ \/ written' = written
           \/ /\ c # None /\ written'[p] = Append(written[p], [n |-> at["service"].n, conn |-> c])
              /\ \A q \in Port : q # p => written'[q] = written[q]
        /\ UNCHANGED <<maps, toDisconnect, network, alive, outQueue>>
    BY <1>6, WriteDoes DEF Rests, queues, history
  <2>2. p \notin Listener
    BY <2>1 DEF NumbersGrow
  <2>3. Owns(file, conn, p, fd)
    <3>1. p \in Sockets /\ GetSocket(p) = fd /\ SocketOwn(p)
      BY <1>b, <2>1 DEF OwnParts, HandOwn, OwnSockets
    <3> QED BY <2>1, <3>1, OwnIs DEF SocketOwn
  <2>4. conn[c].owner = p /\ conn' = conn
    BY <2>1, <2>2, <2>3 DEF Owns, network
  <2>5. written' = written \/ OwnWritten'
    <3> SUFFICES ASSUME written' # written PROVE OwnWritten'
      OBVIOUS
    <3> DEFINE new == [n |-> at["service"].n, conn |-> c]
    <3>1. new.conn = c /\ written'[p] = Append(written[p], new)
      BY <2>1
    <3>2. written[p] \in Seq(WrittenSet) /\ OwnWritten
      BY <1>b, <2>1 DEF HistoryTyped, OwnParts
    <3>3. new \in WrittenSet
      <4>1. at["service"] \in AtSet /\ \A a \in AtSet : a.n \in Nat
        BY DEF ThreadsTyped, AtSet, Thread
      <4> QED BY <2>1, <4>1 DEF WrittenSet
    <3>4. \A q \in Port : q # p => written'[q] = written[q]
      BY <2>1
    <3> HIDE DEF new, p, c, fd
    <3>5. /\ Len(written'[p]) = Len(written[p]) + 1 /\ Len(written[p]) \in Nat
          /\ \A i \in 1 .. Len(written[p]) : written'[p][i] = written[p][i]
          /\ written'[p][Len(written[p]) + 1] = new
      BY <3>1, <3>2, <3>3
    <3>6. \A i \in 1 .. Len(written'[p]) : i \in 1 .. Len(written[p]) \/ i = Len(written[p]) + 1
      BY <3>5
    <3>7. \A i \in 1 .. Len(written'[p]) : conn[written'[p][i].conn].owner = p
      BY <2>1, <2>4, <3>1, <3>2, <3>5, <3>6 DEF OwnWritten
    <3> QED BY <2>1, <2>4, <3>2, <3>4, <3>7 DEF OwnWritten
  <2>6. NetKeep(Port)
    BY <2>1, NetSame, GrowsKeep
  <2>7. \A q \in Port : (Ends(q)' => Ends(q)) /\ ~Removing("service", q)'
    BY <2>1 DEF Ends, Removing
  <2>8. HandOwn' /\ portSocketMap' = portSocketMap
    BY <2>1 DEF HandOwn, maps
  <2> QED BY <1>1, <2>1, <2>5, <2>6, <2>7, <2>8
<1>7. ASSUME Visit PROVE OwnParts'
  <2>1. PICK p \in Port :
          /\ p = slotIdMap[index].key
          /\ pc["service"] = "visit" /\ index \in 1 .. Len(slotIdMap) /\ slotLocked
          /\ p \in alive => portSocketMap' = portSocketMap
          /\ p \notin alive => Sockets' = Sockets \ {p}
          /\ \A q \in Port : q # p => GetSocket(q)' = GetSocket(q)
          /\ pc'["service"] \in {"getSocket", "visit"}
          /\ UNCHANGED <<queues, network, alive, written>>
    BY <1>7, VisitDoes DEF history
  <2>2. NetKeep(Port)
    BY <2>1, NetSame, GrowsKeep
  <2>3. \A q \in Port : (Ends(q)' => Ends(q)) /\ ~Removing("service", q)'
    BY <2>1 DEF Ends, Removing, queues
  <2>4. HandOwn' /\ outQueue' = outQueue
    BY <2>1 DEF HandOwn, queues
  <2>5. CASE p \in alive
    BY <1>1, <2>1, <2>2, <2>3, <2>4, <2>5
  <2>6. CASE p \notin alive
    <3>1. p \notin Range(toDisconnect)
      <4>1. Len(toDisconnect) \in Nat /\ Len(slotIdMap) \in Nat
        BY MapsSound, SlotsOf, RangeIs DEF Paired, QueuesTyped
      <4>2. index \in index .. Len(slotIdMap)
        BY <2>1, <4>1
      <4>3. \A i \in 1 .. Len(toDisconnect) : toDisconnect[i] < p
        BY <2>1, <4>2 DEF EachDroppedOnce
      <4>4. Range(toDisconnect) = {toDisconnect[i] : i \in 1 .. Len(toDisconnect)}
        BY RangeIs DEF QueuesTyped
      <4> QED BY <4>3, <4>4, PortIsNumber
    <3>2. EndOwn(p)' /\ ~Putting(p)
      BY <2>1, <2>6, <3>1 DEF EndOwn, queues, Nested
    <3>3. QueueServed'
      <4>1. \A q \in Sockets : q \in Sockets' \/ q \notin alive'
        BY <2>1, <2>6
      <4> QED BY <1>b, <2>1, <2>2, <2>4, <4>1, ServedKept DEF OwnParts
    <3>4. OwnWritten'
      BY <1>b, <2>1, <2>2, RestKept DEF OwnParts
    <3>5. Sockets' \subseteq Sockets /\ p \notin Sockets'
      BY <2>1, <2>6
    <3>6. \A q \in Port :
           \/ /\ q \in Port /\ GetSocket(q)' = GetSocket(q)
              /\ q \in Sockets' /\ pc["service"] = "removeSocket" /\ at["service"].port = q =>
                   ServiceStill
              /\ EndOwn(q)' \/ (Ends(q)' => Ends(q))
           \/ ~Putting(q) /\ EndOwn(q)' /\ (q \in Sockets' => SocketOwn(q)')
      BY <2>1, <2>3, <3>2, <3>5
    <3> QED BY <1>0, <1>b, <2>2, <2>3, <2>4, <3>3, <3>4, <3>5, <3>6, OwnServed
  <2> QED BY <2>5, <2>6
<1>8. ASSUME FindSocket PROVE OwnParts'
  <2>1. PICK p \in Port :
          /\ p = at["service"].port /\ pc["service"] = "getSocket"
          /\ \/ UNCHANGED <<pc, at>>
             \/ /\ p \in Sockets /\ pc'["service"] = "recv"
                /\ at'["service"].port = p /\ at'["service"].fd = GetSocket(p)
          /\ UNCHANGED <<maps, queues, network, alive, written>>
    BY <1>8, FindSocketDoes DEF history
  <2>2. NetKeep(Port)
    BY <2>1, NetSame, GrowsKeep
  <2>3. portSocketMap' = portSocketMap /\ outQueue' = outQueue
    BY <2>1 DEF maps, queues
  <2>4. HandOwn'
    BY <1>b, <2>1, <2>3 DEF HandOwn, Sockets, GetSocket
  <2>5. \A q \in Port : (Ends(q)' => Ends(q)) /\ ~Removing("service", q)'
    BY <2>1 DEF Ends, Removing, queues
  <2> QED BY <1>1, <2>1, <2>2, <2>3, <2>4, <2>5
<1>9. ASSUME Recv PROVE OwnParts'
  <2>1. PICK p \in Port, fd \in Fd :
          /\ p = at["service"].port /\ fd = at["service"].fd
          /\ pc["service"] = "recv" /\ pc'["service"] = "visit"
          /\ \/ toDisconnect' = toDisconnect
             \/ /\ file[fd].conn # None /\ conn[file[fd].conn].state = "closed"
                /\ conn[file[fd].conn].sent <= conn[file[fd].conn].read
                /\ toDisconnect' = Append(toDisconnect, p)
          /\ \A d \in Conn :
               /\ conn'[d].state = conn[d].state /\ conn'[d].sent = conn[d].sent
               /\ d # file[fd].conn => conn'[d] = conn[d]
               /\ d = file[fd].conn => conn'[d].read = conn[d].sent
          /\ file' = file
          /\ UNCHANGED <<maps, outQueue, alive, written>>
    BY <1>9, RecvDoes DEF history, Rests
  <2>2. NetKeep(Port)
    BY <1>9, <1>b, RecvKeeps
  <2>3. /\ portSocketMap' = portSocketMap /\ Sockets' = Sockets
        /\ \A q \in Port : GetSocket(q)' = GetSocket(q)
    BY <2>1 DEF maps, Sockets, GetSocket
  <2>4. HandOwn' /\ \A q \in Port : ~Removing("service", q)'
    BY <2>1 DEF HandOwn, Removing
  <2>5. p \in Sockets /\ GetSocket(p) = fd /\ Owns(file, conn, p, fd)
    <3>1. p \in Sockets /\ GetSocket(p) = fd /\ SocketOwn(p)
      BY <1>b, <2>1 DEF OwnParts, HandOwn, OwnSockets
    <3> QED BY <2>1, <3>1, OwnIs DEF SocketOwn
  <2>6. ASSUME NEW q \in Port, Ends(q)' PROVE Ends(q) \/ EndOwn(q)'
    <3>1. CASE toDisconnect' = toDisconnect
      BY <2>1, <2>6, <3>1 DEF Ends
    <3>2. CASE toDisconnect' = Append(toDisconnect, p) /\ q # p
      <4>1. Range(Append(toDisconnect, p)) = Range(toDisconnect) \cup {p}
        BY RangeAppend DEF QueuesTyped
      <4> QED BY <2>1, <2>6, <3>2, <4>1 DEF Ends
    <3>3. CASE toDisconnect' # toDisconnect /\ q = p
      <4> DEFINE c == file[fd].conn
      <4>1. c \in Conn /\ file[fd].kind # "listen"
        BY <2>1, <3>3 DEF FilesTyped, FileSet, OneDescriptor
      <4>2. p \notin Listener
        BY <2>5, <4>1 DEF Owns
      <4>3. Ended(conn', c)
        BY <2>1, <3>3, <4>1 DEF Ended
      <4>4. ConnOf(GetSocket(p))' = c
        BY <2>1, <2>3, <2>5 DEF ConnOf
      <4> QED BY <3>3, <4>2, <4>3, <4>4 DEF EndOwn, Finished, Ended
    <3> QED BY <2>1, <3>1, <3>2, <3>3
  <2> QED BY <1>1, <2>1, <2>2, <2>3, <2>4, <2>6
<1>10. ASSUME Drop PROVE OwnParts'
  <2>1. PICK p \in Port :
          /\ p = toDisconnect[1] /\ pc["service"] = "drop"
          /\ \/ UNCHANGED <<pc, at>>
             \/ /\ p \in Sockets /\ pc'["service"] = "close"
                /\ at'["service"].port = p /\ at'["service"].fd = GetSocket(p)
          /\ UNCHANGED <<maps, outQueue, network, alive, written>>
    BY <1>10, DropDoes DEF history
  <2>2. Range(toDisconnect) = {p} \cup Range(toDisconnect')
    <3>1. toDisconnect \in Seq(Port) /\ toDisconnect' \in Seq(Port)
      BY DEF QueuesTyped
    <3>2. /\ Len(toDisconnect') = Len(toDisconnect) - 1 /\ Len(toDisconnect) > 0
          /\ \A i \in 1 .. Len(toDisconnect) - 1 : toDisconnect'[i] = toDisconnect[i + 1]
      BY <1>10, DropDoes
    <3> QED BY <2>1, <3>1, <3>2, RangeTail
  <2>3. NetKeep(Port)
    BY <2>1, NetSame, GrowsKeep
  <2>4. portSocketMap' = portSocketMap
    BY <2>1 DEF maps
  <2>5. HandOwn'
    BY <1>b, <2>1, <2>4 DEF HandOwn, Sockets, GetSocket
  <2>6. \A q \in Port : (Ends(q)' => Ends(q)) /\ ~Removing("service", q)'
    BY <2>1, <2>2 DEF Ends, Removing
  <2> QED BY <1>1, <2>1, <2>3, <2>4, <2>5, <2>6
<1>11. ASSUME CloseSocket("service") PROVE OwnParts'
  <2>1. PICK p \in Port, fd \in Fd :
          /\ p = at["service"].port /\ fd = at["service"].fd /\ pc["service"] = "close"
          /\ pc'["service"] = "removeSocket" /\ at'["service"].port = p
          /\ at'["service"].conn = file[fd].conn
          /\ FileBecomes(fd, "free", None)
          /\ \A c \in Conn :
               /\ conn'[c].sent = conn[c].sent /\ conn'[c].read = conn[c].read
               /\ conn'[c].owner = conn[c].owner
          /\ UNCHANGED <<maps, queues, alive, written>>
    BY <1>0, <1>11, CloseSocketDoes DEF history
  <2>2. NetKeep(Port \ {p})
    BY <1>11, <1>b, <2>1, CloseKeeps
  <2>3. /\ Sockets' = Sockets /\ \A q \in Port : GetSocket(q)' = GetSocket(q)
        /\ toDisconnect' = toDisconnect /\ outQueue' = outQueue
    BY <2>1 DEF maps, Sockets, GetSocket, queues
  <2>4. HandOwn'
    BY <2>1 DEF HandOwn
  <2>5. p \notin Range(toDisconnect) /\ ~Putting(p)
    <3>1. Range(toDisconnect) = {toDisconnect[i] : i \in 1 .. Len(toDisconnect)}
      BY RangeIs DEF QueuesTyped
    <3> QED BY <2>1, <3>1 DEF EachDroppedOnce, Nested, Closing
  <2>6. SocketOwn(p)' /\ EndOwn(p)'
    BY <2>1, <2>3, <2>5 DEF SocketOwn, EndOwn
  <2>7. ASSUME NEW q \in Port PROVE GoneOwn(q)' \/ ~Removing("service", q)'
    <3> SUFFICES ASSUME q = p PROVE GoneOwn(p)'
      BY <2>1 DEF Removing
    <3> DEFINE c == file[fd].conn
    <3>1. p \in Sockets /\ GetSocket(p) = fd /\ SocketOwn(p)
          /\ p \notin Listener /\ Finished(ConnOf(fd))
      BY <1>b, <2>1 DEF OwnParts, HandOwn, OwnSockets, EndOwn
    <3>2. Finished(c) /\ c \in Conn /\ c # None /\ conn[c].owner = p
      BY <2>1, <3>1, Numbers DEF Finished, ConnOf, SocketOwn, Own
    <3>3. \A f \in Fd : file'[f].conn # c
      BY <2>1, <3>2 DEF FileBecomes, OneDescriptor
    <3>4. Ended(conn', c) /\ conn'[c].owner = p
      BY <2>1, <2>2, <3>2 DEF Finished, Ended, NetKeep
    <3> HIDE DEF c
    <3>5. at'["service"].conn = c
      BY <2>1 DEF c
    <3> QED BY <3>1, <3>3, <3>4, <3>5 DEF GoneOwn, Finished, Ended, ConnOf
  <2>8. \A q \in Port : (Ends(q)' => Ends(q))
    BY <2>1, <2>3 DEF Ends
  <2>9. QueueServed' /\ OwnWritten'
    BY <1>b, <2>1, <2>2, <2>3, ServedKept, RestKept DEF OwnParts
  <2>10. \A q \in Port :
           \/ /\ q \in Port \ {p} /\ GetSocket(q)' = GetSocket(q)
              /\ q \in Sockets' /\ pc["service"] = "removeSocket" /\ at["service"].port = q =>
                   ServiceStill
              /\ EndOwn(q)' \/ (Ends(q)' => Ends(q))
           \/ ~Putting(q) /\ EndOwn(q)' /\ (q \in Sockets' => SocketOwn(q)')
    BY <2>1, <2>3, <2>5, <2>6, <2>8
  <2>11. Port \ {p} \in SUBSET Port
    OBVIOUS
  <2> QED BY <1>0, <1>b, <2>2, <2>3, <2>4, <2>7, <2>9, <2>10, <2>11, OwnServed
<1>12. ASSUME RemoveSocket("service") PROVE OwnParts'
  <2>1. PICK p \in Port :
          /\ p = at["service"].port /\ pc["service"] = "removeSocket"
          /\ pc'["service"] = "removeId" /\ at' = at
          /\ Sockets' = Sockets \ {p}
          /\ \A q \in Port : q # p => GetSocket(q)' = GetSocket(q)
          /\ UNCHANGED <<alive, queues, network, written>>
    BY <1>0, <1>12, RemoveSocketDoes DEF history
  <2>2. p \notin Range(toDisconnect) /\ ~Putting(p)
    <3>1. Range(toDisconnect) = {toDisconnect[i] : i \in 1 .. Len(toDisconnect)}
      BY RangeIs DEF QueuesTyped
    <3> QED BY <2>1, <3>1 DEF EachDroppedOnce, Nested, Closing
  <2>3. NetKeep(Port) /\ toDisconnect' = toDisconnect /\ outQueue' = outQueue
    BY <2>1, NetSame, GrowsKeep DEF queues
  <2>4. HandOwn' /\ EndOwn(p)'
    BY <2>1, <2>2, <2>3 DEF HandOwn, EndOwn
  <2>5. LostIn(conn', p)
    <3>1. GoneOwn(p) /\ Removing("service", p)
      BY <1>b, <2>1 DEF OwnParts, Removing
    <3>2. LostIn(conn, p)
      BY <3>1 DEF GoneOwn, Finished, LostIn
    <3> QED BY <2>3, <3>2 DEF NetKeep
  <2>6. \A q \in Port : Ends(q)' => Ends(q)
    BY <2>1, <2>3 DEF Ends
  <2>7. QueueServed' /\ OwnWritten'
    <3>1. \A q \in Sockets : q \in Sockets' \/ LostIn(conn', q)
      BY <2>1, <2>5
    <3> QED BY <1>b, <2>1, <2>3, <3>1, ServedKept, RestKept DEF OwnParts
  <2>8. \A q \in Port : Removing("service", q)' => Removing("service", q)
                                                 /\ at'["service"].conn = at["service"].conn
    BY <2>1 DEF Removing
  <2>9. Sockets' \subseteq Sockets /\ p \notin Sockets'
    BY <2>1
  <2>10. \A q \in Port :
           \/ /\ q \in Port /\ GetSocket(q)' = GetSocket(q)
              /\ q \in Sockets' /\ pc["service"] = "removeSocket" /\ at["service"].port = q =>
                   ServiceStill
              /\ EndOwn(q)' \/ (Ends(q)' => Ends(q))
           \/ ~Putting(q) /\ EndOwn(q)' /\ (q \in Sockets' => SocketOwn(q)')
    BY <2>1, <2>2, <2>4, <2>6, <2>9
  <2> QED BY <1>0, <1>b, <2>3, <2>4, <2>7, <2>8, <2>9, <2>10, OwnServed
<1>13. ASSUME RemoveId("service") \/ RemoveSlot("service") PROVE OwnParts'
  <2>1. /\ pc["service"] \in {"removeId", "removeSlot"}
        /\ \/ pc'["service"] = "removeSlot" /\ at' = at
           \/ pc'["service"] = "drop"
        /\ UNCHANGED <<portSocketMap, alive, queues, network, written>>
    BY <1>0, <1>13, RemoveIdDoes, RemoveSlotDoes DEF history
  <2>2. NetKeep(Port) /\ outQueue' = outQueue
    BY <2>1, NetSame, GrowsKeep DEF queues
  <2>3. HandOwn'
    BY <2>1 DEF HandOwn
  <2>4. \A q \in Port : /\ Ends(q)' => Ends(q)
                        /\ Removing("service", q)' => Removing("service", q)
                                                 /\ at'["service"].conn = at["service"].conn
    BY <2>1 DEF Ends, Removing, queues
  <2> QED BY <1>1, <2>1, <2>2, <2>3, <2>4
<1> HIDE DEF Typed
<1> QED BY <1>3, <1>4, <1>5, <1>6, <1>7, <1>8, <1>9, <1>10, <1>11, <1>12, <1>13 DEF ServiceMoves

-----------------------------------------------------------------------------
(* The end of the process. *)

LEMMA EndsThen ==
  ASSUME \/ ended'.why = "no"
         \/ /\ ended'.why \in {"no socket to write", "SIGPIPE"}
            /\ Undisturbed' => LostIn(conn', ended'.port)
         \/ ended'.why = "no socket to read" /\ ended'.port \in left'
  PROVE  EndsOnlyAfterLoss'
BY DEF EndsOnlyAfterLoss, Lost, LostIn

LEMMA EndsStep ==
  ASSUME Typed, Places, NumbersGrow, Nested, OneDescriptor, SocketsOwn, Running,
         UserMoves \/ ServiceMoves
  PROVE  EndsOnlyAfterLoss'
<1> USE DEF Typed
<1>1. CASE ended' = ended
  BY <1>1, EndsThen DEF Running
<1>2. CASE ended' # ended /\ TakeMessage
  <2>1. PICK p \in Port :
          /\ p = outQueue[1].port /\ p \in alive \ Sockets /\ Len(outQueue) \in Nat \ {0}
          /\ ended'.why = "no socket to write" /\ ended'.port = p
          /\ UNCHANGED <<network, history>>
    <3>1. outQueue[1] \in MessageSet /\ \A m \in MessageSet : m.port \in Port
      BY <1>2, TakeMessageDoes DEF MessageSet
    <3> QED BY <1>2, <3>1, TakeMessageDoes
  <2>2. Undisturbed' => LostIn(conn', p)
    <3>1. 1 \in 1 .. Len(outQueue)
      <4>1. Len(outQueue) \in Nat \ {0}
        BY <2>1
      <4> HIDE DEF Typed
      <4> QED BY <4>1
    <3>2. Undisturbed' => QueueServed
      BY <2>1, SocketsOwnIs DEF Undisturbed, history, OwnParts
    <3> QED BY <2>1, <3>1, <3>2 DEF QueueServed, network
  <2> QED BY <2>1, <2>2, EndsThen
<1>3. CASE ended' # ended /\ Write
  <2>1. PICK p \in Port, fd \in Fd :
          /\ p = at["service"].port /\ fd = at["service"].fd /\ pc["service"] = "write"
          /\ ended'.why = "SIGPIPE" /\ ended'.port = p
          /\ \/ file[fd].kind = "listen"
             \/ file[fd].conn # None /\ conn[file[fd].conn].state = "closed"
          /\ UNCHANGED <<network, history>>
    BY <1>3, WriteDoes
  <2>2. p \notin Listener
    BY <2>1 DEF NumbersGrow
  <2>3. Undisturbed' => LostIn(conn', p)
    <3> SUFFICES ASSUME Undisturbed' PROVE LostIn(conn', p)
      OBVIOUS
    <3>1. HandOwn /\ OwnSockets
      BY <2>1, SocketsOwnIs DEF Undisturbed, history, OwnParts
    <3>2. p \in Sockets /\ GetSocket(p) = fd
      BY <2>1, <3>1 DEF HandOwn
    <3>3. Owns(file, conn, p, fd)
      BY <2>1, <3>1, <3>2, OwnIs DEF OwnSockets, SocketOwn
    <3> DEFINE c == file[fd].conn
    <3>4. c # None /\ conn[c].owner = p
      BY <2>2, <3>3 DEF Owns
    <3>5. file[fd].kind # "listen"
      BY <2>1, <3>4 DEF OneDescriptor
    <3>6. c \in Conn
      BY <2>1, <3>4 DEF FilesTyped, FileSet
    <3> QED BY <2>1, <3>4, <3>5, <3>6 DEF LostIn, network
  <2> QED BY <2>1, <2>3, EndsThen
<1>4. CASE ended' # ended /\ FindSocket
  <2>1. PICK p \in Port :
          /\ p = at["service"].port /\ pc["service"] = "getSocket" /\ p \notin Sockets
          /\ ended'.why = "no socket to read" /\ ended'.port = p /\ left' = left
    BY <1>4, FindSocketDoes DEF history
  <2>2. p \in left
    BY <2>1 DEF Nested
  <2> QED BY <2>1, <2>2, EndsThen
<1> HIDE DEF Typed
<1>5. ended' = ended \/ TakeMessage \/ Write \/ FindSocket
  BY DEF UserMoves, ServiceMoves, Collect, PutSocket, PutId, PutSlot, CloseSocket, RemoveSocket,
         RemoveId, RemoveSlot, Connect, Listen, Fail, Send, AcceptCall, DisconnectCall, Destroy,
         Attach, Peer, ClientArrives, Lock, Visit, Recv, Unlock, Drop, Accept
<1> QED BY <1>1, <1>2, <1>3, <1>4, <1>5

-----------------------------------------------------------------------------
(* What the capsules are told. *)

LEMMA SignalIs ==
  /\ \A kind, c, n : /\ Signal(kind, c, n).kind = kind /\ Signal(kind, c, n).conn = c
                     /\ Signal(kind, c, n).n = n
  /\ \A s \in SignalSet : s = Signal(s.kind, s.conn, s.n)
  /\ \A c \in Conn, n \in Nat : /\ Signal("connected", c, n) \in SignalSet
                                /\ Signal("disconnected", c, n) \in SignalSet
                                /\ Signal("received", c, n) \in SignalSet
BY DEF Signal, SignalSet

Before(log, i) == {log[j] : j \in 1 .. i - 1}

\* A signal to p that comes after those others.
Fits(cn, p, before, s) ==
  /\ cn[s.conn].owner = p
  /\ s \notin before /\ Signal("disconnected", s.conn, 0) \notin before
  /\ s.kind # "connected" /\ cn[s.conn].fd = NoFd => Signal("connected", s.conn, 0) \in before
  /\ s.kind = "received" /\ s.n > 1 => Signal("received", s.conn, s.n - 1) \in before
  /\ s.kind = "disconnected" /\ cn[s.conn].sent > 0 =>
       Signal("received", s.conn, cn[s.conn].sent) \in before

Ordered(cn, p, log) == \A i \in 1 .. Len(log) : Fits(cn, p, Before(log, i), log[i])

LEMMA ToldIs == ASSUME NEW p, NEW log PROVE ToldInOrder(p, log) <=> Ordered(conn, p, log)
BY Zenon DEF ToldInOrder, Ordered, Fits, Before

LEMMA OrderedPrefix ==
  ASSUME NEW cn, NEW p, NEW log \in Seq(SignalSet), NEW more \in Seq(SignalSet),
         Ordered(cn, p, log \o more)
  PROVE  Ordered(cn, p, log)
<1> DEFINE all == log \o more
<1>1. /\ Len(all) = Len(log) + Len(more) /\ Len(log) \in Nat /\ Len(more) \in Nat
      /\ \A i \in 1 .. Len(log) + Len(more) : all[i] = IF i <= Len(log) THEN log[i] ELSE more[i - Len(log)]
  BY ConcatProperties
<1> HIDE DEF all
<1>2. ASSUME NEW i \in 1 .. Len(log) PROVE Fits(cn, p, Before(log, i), log[i])
  <2>1. i \in 1 .. Len(all) /\ all[i] = log[i] /\ \A j \in 1 .. i - 1 : all[j] = log[j]
    BY <1>1
  <2>2. Before(all, i) = Before(log, i)
    BY <2>1 DEF Before
  <2>3. Fits(cn, p, Before(all, i), all[i])
    BY <2>1 DEF Ordered, all
  <2> QED BY <2>1, <2>2, <2>3
<1> QED BY <1>2 DEF Ordered

LEMMA OrderedMore ==
  ASSUME NEW cn, NEW p, NEW log \in Seq(SignalSet), NEW more \in Seq(SignalSet),
         Ordered(cn, p, log),
         \A i \in 1 .. Len(more) : Fits(cn, p, Range(log) \cup Before(more, i), more[i])
  PROVE  Ordered(cn, p, log \o more)
<1> DEFINE all == log \o more
<1>1. /\ Len(all) = Len(log) + Len(more) /\ Len(log) \in Nat /\ Len(more) \in Nat
      /\ \A i \in 1 .. Len(log) + Len(more) : all[i] = IF i <= Len(log) THEN log[i] ELSE more[i - Len(log)]
  BY ConcatProperties
<1> HIDE DEF all
<1>2. ASSUME NEW i \in 1 .. Len(all) PROVE Fits(cn, p, Before(all, i), all[i])
  <2>1. CASE i <= Len(log)
    <3>1. i \in 1 .. Len(log) /\ all[i] = log[i] /\ \A j \in 1 .. i - 1 : all[j] = log[j]
      BY <1>1, <2>1
    <3>2. Before(all, i) = Before(log, i)
      BY <3>1 DEF Before
    <3> QED BY <3>1, <3>2 DEF Ordered
  <2>2. CASE i > Len(log)
    <3> DEFINE k == i - Len(log)
    <3>1. k \in 1 .. Len(more) /\ all[i] = more[k]
      BY <1>1, <2>2
    <3>2. Before(all, i) = Range(log) \cup Before(more, k)
      <4>1. Range(log) = {log[j] : j \in 1 .. Len(log)}
        BY RangeIs
      <4>2. \A j \in 1 .. i - 1 : \/ j \in 1 .. Len(log) /\ all[j] = log[j]
                                  \/ j - Len(log) \in 1 .. k - 1 /\ all[j] = more[j - Len(log)]
        BY <1>1, <2>2
      <4>3. \A j \in 1 .. Len(log) : j \in 1 .. i - 1 /\ all[j] = log[j]
        BY <1>1, <2>2
      <4>4. \A j \in 1 .. k - 1 : Len(log) + j \in 1 .. i - 1 /\ all[Len(log) + j] = more[j]
        BY <1>1, <2>2
      <4> HIDE DEF k
      <4>5. Before(all, i) \subseteq Range(log) \cup Before(more, k)
        BY <4>1, <4>2 DEF Before
      <4>6. Range(log) \cup Before(more, k) \subseteq Before(all, i)
        BY <4>1, <4>3, <4>4 DEF Before
      <4> QED BY <4>5, <4>6
    <3> HIDE DEF k
    <3> QED BY <3>1, <3>2
  <2> QED BY <1>1, <2>1, <2>2
<1> QED BY <1>2 DEF Ordered, all

LEMMA OrderedKept ==
  ASSUME NEW cn, NEW later, NEW p, NEW log \in Seq(SignalSet), Ordered(cn, p, log),
         \A s \in Range(log) : /\ later[s.conn].owner = cn[s.conn].owner
                               /\ later[s.conn].fd = cn[s.conn].fd
                               /\ s.kind = "disconnected" => later[s.conn].sent = cn[s.conn].sent
  PROVE  Ordered(later, p, log)
<1>1. Range(log) = {log[i] : i \in 1 .. Len(log)}
  BY RangeIs
<1> QED BY <1>1 DEF Ordered, Fits

\* The connections of the signals, and that the log tells of no connection but those of p.
LEMMA OrderedOwner ==
  ASSUME NEW cn, NEW p, NEW log \in Seq(SignalSet), Ordered(cn, p, log)
  PROVE  \A s \in Range(log) : cn[s.conn].owner = p
<1>1. Range(log) = {log[i] : i \in 1 .. Len(log)}
  BY RangeIs
<1> QED BY <1>1 DEF Ordered, Fits

Heard(p) == Range(Log(p))

\* The parts of LogSound.
Known(p) == \A s \in Heard(p) : s.conn \in Conn
                                /\ IF s.kind = "received" THEN s.n \in 1 .. conn[s.conn].read
                                                          ELSE s.n = 0

Over(p) == \A c \in Conn : Signal("disconnected", c, 0) \in Heard(p) =>
             /\ conn[c].state = "closed" /\ \A fd \in Fd : file[fd].conn # c
             /\ Removing("service", p) => at["service"].conn # c

Once(p) == \A c \in Conn :
             Signal("connected", c, 0) \in Heard(p) => ~(Putting(p) /\ at["user"].conn = c)

Whole(p) == \A c \in Conn : conn[c].owner = p /\ p \in alive =>
              /\ \A n \in 1 .. conn[c].read : Signal("received", c, n) \in Heard(p)
              /\ conn[c].fd = NoFd => \/ Signal("connected", c, 0) \in Heard(p)
                                      \/ Putting(p) /\ at["user"].conn = c

LogParts(p) == Ordered(conn, p, Log(p)) /\ Known(p) /\ Over(p) /\ Once(p) /\ Whole(p)

LEMMA LogSoundIs == \A p \in Port : LogSound(p) <=> LogParts(p)
<1> SUFFICES ASSUME NEW p \in Port PROVE LogSound(p) <=> LogParts(p)
  OBVIOUS
<1>1. ToldInOrder(p, Log(p)) <=> Ordered(conn, p, Log(p))
  BY ToldIs
<1>2. \A c : (\A fd \in Fd : ConnOf(fd) # c) <=> (\A fd \in Fd : file[fd].conn # c)
  BY DEF ConnOf
<1> QED BY <1>1, <1>2 DEF LogSound, LogParts, Heard, Known, Over, Once, Whole

\* What becomes of the connections of a port.
ConnKeep(p) ==
  /\ \A c \in Conn : conn[c].owner = p =>
       /\ conn'[c].owner = p /\ conn'[c].fd = conn[c].fd /\ conn[c].read <= conn'[c].read
       /\ conn[c].state = "closed" => conn'[c].state = "closed" /\ conn'[c].sent = conn[c].sent
  /\ \A c \in Conn : conn[c].state = "closed" /\ (\A fd \in Fd : file[fd].conn # c) =>
       \A fd \in Fd : file'[fd].conn # c

LEMMA LogTyped == ASSUME SignalsTyped, NEW p \in Port PROVE Log(p) \in Seq(SignalSet)
BY RangeJoin DEF SignalsTyped, Log

LEMMA KnownOwner ==
  ASSUME SignalsTyped, NEW p \in Port, LogParts(p)
  PROVE  /\ \A s \in Heard(p) : s \in SignalSet /\ s.conn \in Conn /\ conn[s.conn].owner = p
         /\ \A kind, c, n : Signal(kind, c, n) \in Heard(p) => conn[c].owner = p
<1>1. \A s \in Heard(p) : conn[s.conn].owner = p
  BY LogTyped, OrderedOwner DEF Heard, LogParts
<1>2. \A s \in Heard(p) : s \in SignalSet /\ s.conn \in Conn
  BY LogTyped, RangeIs DEF Heard, LogParts, Known
<1> QED BY <1>1, <1>2, SignalIs

LEMMA OrderKept ==
  ASSUME SignalsTyped, NEW p \in Port, LogParts(p), ConnKeep(p)
  PROVE  Ordered(conn', p, Log(p))
<1>1. ASSUME NEW s \in Heard(p)
      PROVE  /\ conn'[s.conn].owner = conn[s.conn].owner
             /\ conn'[s.conn].fd = conn[s.conn].fd
             /\ s.kind = "disconnected" => conn'[s.conn].sent = conn[s.conn].sent
  <2>1. s \in SignalSet /\ s.conn \in Conn /\ conn[s.conn].owner = p
    BY KnownOwner
  <2>2. s.kind = "disconnected" => conn[s.conn].state = "closed"
    <3> SUFFICES ASSUME s.kind = "disconnected" PROVE conn[s.conn].state = "closed"
      OBVIOUS
    <3>1. s.n = 0
      BY DEF LogParts, Known
    <3> QED BY <2>1, <3>1, SignalIs DEF LogParts, Over
  <2> QED BY <2>1, <2>2 DEF ConnKeep
<1> QED BY <1>1, LogTyped, OrderedKept DEF Heard, LogParts

\* What the capsules' thread has in hand for a port.
Joining(p, c) == Putting(p) /\ at["user"].conn = c

Leaving(p, c) == Removing("service", p) /\ at["service"].conn = c

LEMMA PartsAre ==
  ASSUME NEW p
  PROVE  /\ Over(p) <=> \A c \in Conn : Signal("disconnected", c, 0) \in Heard(p) =>
              conn[c].state = "closed" /\ (\A fd \in Fd : file[fd].conn # c) /\ ~Leaving(p, c)
         /\ Once(p) <=> \A c \in Conn : Signal("connected", c, 0) \in Heard(p) => ~Joining(p, c)
         /\ Whole(p) <=> \A c \in Conn : conn[c].owner = p /\ p \in alive =>
              /\ \A n \in 1 .. conn[c].read : Signal("received", c, n) \in Heard(p)
              /\ conn[c].fd = NoFd => Signal("connected", c, 0) \in Heard(p) \/ Joining(p, c)
BY DEF Over, Once, Whole, Joining, Leaving

LEMMA PartsThen ==
  ASSUME NEW p
  PROVE  /\ Over(p)' <=> \A c \in Conn : Signal("disconnected", c, 0) \in Heard(p)' =>
              conn'[c].state = "closed" /\ (\A fd \in Fd : file'[fd].conn # c) /\ ~Leaving(p, c)'
         /\ Once(p)' <=> \A c \in Conn : Signal("connected", c, 0) \in Heard(p)' => ~Joining(p, c)'
         /\ Whole(p)' <=> \A c \in Conn : conn'[c].owner = p /\ p \in alive' =>
              /\ \A n \in 1 .. conn'[c].read : Signal("received", c, n) \in Heard(p)'
              /\ conn'[c].fd = NoFd => Signal("connected", c, 0) \in Heard(p)' \/ Joining(p, c)'
BY DEF Over, Once, Whole, Joining, Leaving

\* A step that tells the capsule of p nothing.
LEMMA LogKept ==
  ASSUME Typed, FilesTyped', NEW p \in Port, LogParts(p), ConnKeep(p), Log(p)' = Log(p),
         alive' \subseteq alive,
         \A c \in Conn : Leaving(p, c)' => Leaving(p, c) \/ \E fd \in Fd : file[fd].conn = c,
         \A c \in Conn : Joining(p, c)' => Joining(p, c) \/ conn[c].owner # p,
         \A c \in Conn : conn'[c].owner = p =>
           \/ conn[c].owner = p /\ conn'[c].read = conn[c].read /\ (Joining(p, c) => Joining(p, c)')
           \/ conn'[c].read = 0 /\ (conn'[c].fd = NoFd => Joining(p, c)')
           \/ p \notin alive'
  PROVE  LogParts(p)'
<1> USE DEF Typed
<1>1. Heard(p)' = Heard(p)
  BY DEF Heard
<1>2. Ordered(conn, p, Log(p))'
  BY OrderKept DEF Ordered, Fits
<1>3. Known(p)'
  <2> SUFFICES ASSUME NEW s \in Heard(p)
               PROVE  s.conn \in Conn /\ IF s.kind = "received" THEN s.n \in 1 .. conn'[s.conn].read
                                                                ELSE s.n = 0
    BY <1>1 DEF Known
  <2>1. s.conn \in Conn /\ conn[s.conn].owner = p
    BY KnownOwner
  <2>2. /\ conn[s.conn].read \in Nat /\ conn'[s.conn].read \in Nat
        /\ conn[s.conn].read <= conn'[s.conn].read
    BY <2>1 DEF FilesTyped, ConnSet, ConnKeep
  <2>3. IF s.kind = "received" THEN s.n \in 1 .. conn[s.conn].read ELSE s.n = 0
    BY DEF LogParts, Known
  <2> HIDE DEF Typed
  <2> QED BY <2>1, <2>2, <2>3
<1>4. \A kind, c, n : Signal(kind, c, n) \in Heard(p) => conn[c].owner = p
  BY KnownOwner
<1>5. Over(p)'
  <2> SUFFICES ASSUME NEW c \in Conn, Signal("disconnected", c, 0) \in Heard(p)
               PROVE  conn'[c].state = "closed" /\ (\A fd \in Fd : file'[fd].conn # c)
                      /\ ~Leaving(p, c)'
    BY <1>1, PartsThen, Zenon
  <2>1. Over(p) /\ conn[c].owner = p
    BY <1>4 DEF LogParts
  <2>2. conn[c].state = "closed" /\ (\A fd \in Fd : file[fd].conn # c) /\ ~Leaving(p, c)
    BY <2>1, PartsAre, Zenon
  <2> QED BY <2>1, <2>2 DEF ConnKeep
<1>6. Once(p)'
  <2> SUFFICES ASSUME NEW c \in Conn, Signal("connected", c, 0) \in Heard(p) PROVE ~Joining(p, c)'
    BY <1>1, PartsThen, Zenon
  <2>1. Once(p) /\ conn[c].owner = p
    BY <1>4 DEF LogParts
  <2>2. ~Joining(p, c)
    BY <2>1, PartsAre, Zenon
  <2> QED BY <2>1, <2>2
<1>7. Whole(p)'
  <2>a. Heard(p)' = Heard(p) /\ (Whole(p)' <=> \A c \in Conn : conn'[c].owner = p /\ p \in alive' =>
              /\ \A n \in 1 .. conn'[c].read : Signal("received", c, n) \in Heard(p)'
              /\ conn'[c].fd = NoFd => Signal("connected", c, 0) \in Heard(p)' \/ Joining(p, c)')
    BY <1>1, PartsThen, Zenon
  <2> SUFFICES ASSUME NEW c \in Conn, conn'[c].owner = p, p \in alive'
               PROVE  /\ \A n \in 1 .. conn'[c].read : Signal("received", c, n) \in Heard(p)
                      /\ conn'[c].fd = NoFd => Signal("connected", c, 0) \in Heard(p) \/ Joining(p, c)'
    BY <2>a
  <2>1. CASE conn[c].owner = p /\ conn'[c].read = conn[c].read /\ (Joining(p, c) => Joining(p, c)')
    <3>1. conn'[c].fd = conn[c].fd
      BY <2>1 DEF ConnKeep
    <3>2. /\ \A n \in 1 .. conn[c].read : Signal("received", c, n) \in Heard(p)
          /\ conn[c].fd = NoFd => Signal("connected", c, 0) \in Heard(p) \/ Joining(p, c)
      <4>1. Whole(p) /\ p \in alive
        BY DEF LogParts
      <4> QED BY <2>1, <4>1, PartsAre
    <3> QED BY <2>1, <3>1, <3>2
  <2>2. CASE conn'[c].read = 0 /\ (conn'[c].fd = NoFd => Joining(p, c)')
    BY <2>2
  <2> QED BY <2>1, <2>2
<1> HIDE DEF Typed
<1> QED BY <1>2, <1>3, <1>5, <1>6, <1>7 DEF LogParts

\* A step that changes neither the network nor what the threads have in hand.
LEMMA LogStill ==
  ASSUME Typed, FilesTyped', NEW p \in Port, LogParts(p), UNCHANGED network, Log(p)' = Log(p),
         alive' \subseteq alive, \A c \in Conn : Leaving(p, c)' => Leaving(p, c),
         \A c \in Conn : Joining(p, c)' <=> Joining(p, c)
  PROVE  LogParts(p)'
<1>1. \A c \in Conn : conn[c].read <= conn[c].read
  BY DEF Typed, FilesTyped, ConnSet
<1>2. ConnKeep(p)
  BY <1>1 DEF ConnKeep, network
<1>3. \A c \in Conn : conn'[c].owner = p =>
        conn[c].owner = p /\ conn'[c].read = conn[c].read /\ (Joining(p, c) => Joining(p, c)')
  BY DEF network
<1> QED BY <1>2, <1>3, LogKept

\* What the capsule of p has been told of, when it may connect again.
LEMMA WaitedIs ==
  ASSUME SignalsTyped, NEW p \in Port, Patient, Waited(p), GoneOwn(p), p \notin Listener => LogParts(p)
  PROVE  ~Removing("service", p) /\ (p \notin Listener => coming[p] = <<>>)
<1>1. signals[p] \in Seq(SignalSet) /\ coming[p] \in Seq(SignalSet)
  BY DEF SignalsTyped
<1>2. Heard(p) = Range(signals[p]) \cup Range(coming[p])
  BY <1>1, RangeJoin DEF Heard, Log
<1>3. \A c \in Conn : conn[c].owner = p => Signal("disconnected", c, 0) \in Range(signals[p])
  BY DEF Waited
<1>4. ~Removing("service", p)
  <2> SUFFICES ASSUME Removing("service", p) PROVE FALSE
    OBVIOUS
  <2> DEFINE c == at["service"].conn
  <2>1. c \in Conn /\ conn[c].owner = p /\ p \notin Listener
    BY DEF GoneOwn, Finished
  <2>2. Over(p) /\ Signal("disconnected", c, 0) \in Heard(p)
    BY <1>2, <1>3, <2>1 DEF LogParts
  <2> QED BY <2>1, <2>2 DEF Over
<1>5. ASSUME p \notin Listener, coming[p] # <<>> PROVE FALSE
  <2> DEFINE a   == signals[p]
             b   == coming[p]
             log == a \o b
             k   == Len(a) + 1
             s   == b[1]
  <2>2. Ordered(conn, p, log) /\ Known(p)
    BY <1>5 DEF LogParts, Log
  <2>a. a \in Seq(SignalSet) /\ b \in Seq(SignalSet) /\ b # <<>>
    BY <1>1, <1>5
  <2> HIDE DEF a, b
  <2>b. /\ Len(log) = Len(a) + Len(b) /\ Len(a) \in Nat /\ Len(b) \in Nat
        /\ \A i \in 1 .. Len(a) + Len(b) : log[i] = IF i <= Len(a) THEN a[i] ELSE b[i - Len(a)]
    BY <2>a, ConcatProperties
  <2>c. Len(b) # 0
    BY <2>a, EmptySeq
  <2> HIDE DEF log
  <2>d. /\ k \in 1 .. Len(log) /\ log[k] = s /\ 1 \in 1 .. Len(b)
        /\ \A j \in 1 .. Len(a) : j \in 1 .. k - 1 /\ log[j] = a[j]
    BY <2>b, <2>c
  <2>3. /\ k \in 1 .. Len(log) /\ log[k] = s /\ 1 \in 1 .. Len(coming[p])
        /\ \A j \in 1 .. Len(signals[p]) : j \in 1 .. k - 1 /\ log[j] = signals[p][j]
    BY <2>d DEF a, b
  <2>4. s \in Heard(p)
    <3>1. Range(coming[p]) = {coming[p][i] : i \in 1 .. Len(coming[p])}
      BY <1>1, RangeIs
    <3> QED BY <1>2, <2>3, <3>1 DEF b
  <2> HIDE DEF k, s
  <2>5. Fits(conn, p, Before(log, k), s)
    BY <2>2, <2>3 DEF Ordered
  <2>6. Signal("disconnected", s.conn, 0) \in Range(signals[p])
    BY <1>3, <2>2, <2>4, <2>5 DEF Known, Fits
  <2>7. Range(signals[p]) \subseteq Before(log, k)
    <3>1. Range(signals[p]) = {signals[p][i] : i \in 1 .. Len(signals[p])}
      BY <1>1, RangeIs
    <3> QED BY <2>3, <3>1 DEF Before
  <2> QED BY <2>5, <2>6, <2>7 DEF Fits
<1> QED BY <1>4, <1>5

LEMMA GrowsConnKeep ==
  ASSUME FilesTyped, NetGrows, NEW p \in Port,
         \A c \in Conn : conn[c].owner = p => conn'[c].read = conn[c].read
  PROVE  ConnKeep(p)
<1>1. \A c \in Conn : conn[c].read <= conn[c].read
  BY DEF FilesTyped, ConnSet
<1>2. \A c \in Conn : conn[c].state = "closed" /\ (\A fd \in Fd : file[fd].conn # c) =>
        \A fd \in Fd : file'[fd].conn # c
  BY DEF NetGrows
<1>3. ASSUME NEW c \in Conn, conn[c].owner = p
      PROVE  /\ conn'[c].owner = p /\ conn'[c].fd = conn[c].fd
             /\ conn[c].state = "closed" => conn'[c].state = "closed" /\ conn'[c].sent = conn[c].sent
  BY <1>3, Numbers DEF NetGrows
<1> QED BY <1>1, <1>2, <1>3 DEF ConnKeep

LEMMA OrderedOne ==
  ASSUME NEW cn, NEW p, NEW log \in Seq(SignalSet), NEW s \in SignalSet,
         Ordered(cn, p, log), Fits(cn, p, Range(log), s)
  PROVE  Ordered(cn, p, log \o <<s>>) /\ Range(log \o <<s>>) = Range(log) \cup {s}
<1>1. <<s>> \in Seq(SignalSet) /\ Len(<<s>>) = 1 /\ <<s>>[1] = s
  OBVIOUS
<1>2. Range(<<s>>) = {<<s>>[i] : i \in 1 .. Len(<<s>>)}
  BY <1>1, RangeIs
<1>3. 1 .. (1 - 1) = {}
  OBVIOUS
<1> DEFINE more == <<s>>
<1>4. /\ more \in Seq(SignalSet) /\ Len(more) = 1 /\ more[1] = s /\ Range(more) = {s}
      /\ Before(more, 1) = {}
  BY <1>1, <1>2, <1>3 DEF Before
<1> HIDE DEF more
<1>5. \A i \in 1 .. Len(more) : Fits(cn, p, Range(log) \cup Before(more, i), more[i])
  <2>1. \A i \in 1 .. Len(more) : i = 1
    BY <1>4
  <2> QED BY <1>4, <2>1
<1>6. Ordered(cn, p, log \o more)
  BY <1>4, <1>5, OrderedMore
<1>7. Range(log \o more) = Range(log) \cup Range(more)
  BY <1>4, RangeJoin
<1> QED BY <1>4, <1>6, <1>7 DEF more

\* The capsule is told that it is connected.
LEMMA LogConnected ==
  ASSUME Typed, SignalsTyped', NEW p \in Port, LogParts(p), UNCHANGED network, alive' = alive,
         NEW c \in Conn, Joining(p, c), conn[c].owner = p, conn[c].fd = NoFd,
         \E fd \in Fd : file[fd].conn = c,
         Log(p)' = Log(p) \o <<Signal("connected", c, 0)>>,
         \A d \in Conn : Leaving(p, d)' => Leaving(p, d),
         \A d \in Conn : ~Joining(p, d)'
  PROVE  LogParts(p)'
<1> USE DEF Typed
<1> DEFINE s == Signal("connected", c, 0)
<1>1. s \in SignalSet /\ s.kind = "connected" /\ s.conn = c /\ s.n = 0
  BY SignalIs
<1>2. s \notin Heard(p)
  BY PartsAre DEF LogParts
<1>3. Signal("disconnected", c, 0) \notin Heard(p)
  <2>1. Over(p)
    BY DEF LogParts
  <2> QED BY <2>1 DEF Over
<1> HIDE DEF s
<1>4. Fits(conn, p, Heard(p), s)
  BY <1>1, <1>2, <1>3 DEF Fits
<1>6. Log(p) \in Seq(SignalSet) /\ Ordered(conn, p, Log(p)) /\ Log(p)' = Log(p) \o <<s>>
  BY LogTyped DEF LogParts, s
<1>9. Ordered(conn, p, Log(p)') /\ Range(Log(p)') = Range(Log(p)) \cup {s}
  BY <1>1, <1>4, <1>6, OrderedOne DEF Heard
<1>10. Heard(p)' = Heard(p) \cup {s}
  BY <1>9 DEF Heard
<1>11. conn' = conn /\ file' = file
  BY DEF network
<1>12. Ordered(conn, p, Log(p))'
  BY <1>9, <1>11 DEF Ordered, Fits
<1>13. Known(p)'
  <2>1. Known(p)
    BY DEF LogParts
  <2> QED BY <1>1, <1>10, <1>11, <2>1 DEF Known
<1>14. \A d \in Conn : Signal("disconnected", d, 0) # s /\ (Signal("connected", d, 0) = s => d = c)
  BY <1>1, SignalIs
<1>15. Over(p)'
  <2>1. Over(p)
    BY DEF LogParts
  <2>2. Over(p) <=> \A d \in Conn : Signal("disconnected", d, 0) \in Heard(p) =>
              conn[d].state = "closed" /\ (\A fd \in Fd : file[fd].conn # d) /\ ~Leaving(p, d)
    BY PartsAre, Zenon
  <2>3. Over(p)' <=> \A d \in Conn : Signal("disconnected", d, 0) \in Heard(p)' =>
              conn'[d].state = "closed" /\ (\A fd \in Fd : file'[fd].conn # d) /\ ~Leaving(p, d)'
    BY PartsThen, Zenon
  <2> QED BY <1>10, <1>11, <1>14, <2>1, <2>2, <2>3
<1>16. Once(p)'
  BY PartsThen, Zenon
<1>17. Whole(p)'
  <2>1. Whole(p)
    BY DEF LogParts
  <2>2. Whole(p) <=> \A d \in Conn : conn[d].owner = p /\ p \in alive =>
              /\ \A n \in 1 .. conn[d].read : Signal("received", d, n) \in Heard(p)
              /\ conn[d].fd = NoFd => Signal("connected", d, 0) \in Heard(p) \/ Joining(p, d)
    BY PartsAre, Zenon
  <2>3. Whole(p)' <=> \A d \in Conn : conn'[d].owner = p /\ p \in alive' =>
              /\ \A n \in 1 .. conn'[d].read : Signal("received", d, n) \in Heard(p)'
              /\ conn'[d].fd = NoFd => Signal("connected", d, 0) \in Heard(p)' \/ Joining(p, d)'
    BY PartsThen, Zenon
  <2>4. \A d \in Conn : Joining(p, d) => d = c
    BY DEF Joining
  <2> QED BY <1>10, <1>11, <2>1, <2>2, <2>3, <2>4 DEF s
<1> HIDE DEF Typed
<1> QED BY <1>12, <1>13, <1>15, <1>16, <1>17 DEF LogParts

\* The capsule is told that its connection is gone.
LEMMA LogDisconnected ==
  ASSUME Typed, OneDescriptor, NEW p \in Port, LogParts(p), UNCHANGED network, alive' = alive, p \in alive,
         NEW c \in Conn, Leaving(p, c), GoneOwn(p), ~Putting(p),
         Log(p)' = Log(p) \o <<Signal("disconnected", c, 0)>>,
         \A d \in Conn : ~Leaving(p, d)',
         \A d \in Conn : ~Joining(p, d)'
  PROVE  LogParts(p)'
<1> USE DEF Typed
<1> DEFINE s == Signal("disconnected", c, 0)
<1>1. s \in SignalSet /\ s.kind = "disconnected" /\ s.conn = c /\ s.n = 0
  BY SignalIs
<1>2. /\ conn[c].owner = p /\ conn[c].state = "closed" /\ conn[c].read = conn[c].sent
      /\ \A fd \in Fd : file[fd].conn # c
  BY DEF GoneOwn, Leaving, Finished, ConnOf
<1>3. s \notin Heard(p)
  <2>1. Over(p)
    BY DEF LogParts
  <2> QED BY <2>1, PartsAre
<1>4. Whole(p) <=> \A d \in Conn : conn[d].owner = p /\ p \in alive =>
              /\ \A n \in 1 .. conn[d].read : Signal("received", d, n) \in Heard(p)
              /\ conn[d].fd = NoFd => Signal("connected", d, 0) \in Heard(p) \/ Joining(p, d)
  BY PartsAre, Zenon
<1>5. Whole(p) /\ \A d : ~Joining(p, d)
  BY DEF LogParts, Joining
<1>6. conn[c].sent \in Nat
  BY DEF FilesTyped, ConnSet
<1>7. /\ conn[c].fd = NoFd => Signal("connected", c, 0) \in Heard(p)
      /\ conn[c].sent > 0 => Signal("received", c, conn[c].sent) \in Heard(p)
  <2>1. conn[c].sent > 0 => conn[c].sent \in 1 .. conn[c].read
    BY <1>2, <1>6
  <2> QED BY <1>2, <1>4, <1>5, <2>1
<1> HIDE DEF s
<1>8. Fits(conn, p, Heard(p), s)
  BY <1>1, <1>2, <1>3, <1>7 DEF Fits, s
<1>9. Log(p) \in Seq(SignalSet) /\ Ordered(conn, p, Log(p)) /\ Log(p)' = Log(p) \o <<s>>
  BY LogTyped DEF LogParts, s
<1>10. Ordered(conn, p, Log(p)') /\ Range(Log(p)') = Range(Log(p)) \cup {s}
  BY <1>1, <1>8, <1>9, OrderedOne DEF Heard
<1>11. Heard(p)' = Heard(p) \cup {s}
  BY <1>10 DEF Heard
<1>12. conn' = conn /\ file' = file
  BY DEF network
<1>13. Ordered(conn, p, Log(p))'
  BY <1>10, <1>12 DEF Ordered, Fits
<1>14. Known(p)'
  <2>1. Known(p)
    BY DEF LogParts
  <2> QED BY <1>1, <1>11, <1>12, <2>1 DEF Known
<1>15. Over(p)'
  <2>1. Over(p)
    BY DEF LogParts
  <2>2. Over(p) <=> \A d \in Conn : Signal("disconnected", d, 0) \in Heard(p) =>
              conn[d].state = "closed" /\ (\A fd \in Fd : file[fd].conn # d) /\ ~Leaving(p, d)
    BY PartsAre, Zenon
  <2>3. Over(p)' <=> \A d \in Conn : Signal("disconnected", d, 0) \in Heard(p)' =>
              conn'[d].state = "closed" /\ (\A fd \in Fd : file'[fd].conn # d) /\ ~Leaving(p, d)'
    BY PartsThen, Zenon
  <2>4. \A d \in Conn : Signal("disconnected", d, 0) = s => d = c
    BY <1>1, SignalIs
  <2> QED BY <1>2, <1>11, <1>12, <2>1, <2>2, <2>3, <2>4
<1>16. Once(p)'
  BY PartsThen, Zenon
<1>17. Whole(p)'
  <2>1. Whole(p)' <=> \A d \in Conn : conn'[d].owner = p /\ p \in alive' =>
              /\ \A n \in 1 .. conn'[d].read : Signal("received", d, n) \in Heard(p)'
              /\ conn'[d].fd = NoFd => Signal("connected", d, 0) \in Heard(p)' \/ Joining(p, d)'
    BY PartsThen, Zenon
  <2> QED BY <1>4, <1>5, <1>11, <1>12, <2>1
<1> HIDE DEF Typed
<1> QED BY <1>13, <1>14, <1>15, <1>16, <1>17 DEF LogParts

\* The messages to the capsule are purged.
LEMMA LogCut ==
  ASSUME Typed, SignalsTyped', NEW p \in Port, LogParts(p), UNCHANGED network, p \notin alive',
         signals' = signals, coming'[p] = <<>>,
         \A d \in Conn : Leaving(p, d)' => Leaving(p, d),
         \A d \in Conn : Joining(p, d)' => Joining(p, d)
  PROVE  LogParts(p)'
<1> USE DEF Typed
<1>1. signals[p] \in Seq(SignalSet) /\ coming[p] \in Seq(SignalSet)
  BY DEF SignalsTyped
<1>2. Log(p)' = signals[p]
  BY <1>1 DEF Log
<1>3. Ordered(conn, p, Log(p)')
  BY <1>1, <1>2, OrderedPrefix DEF LogParts, Log
<1>4. Heard(p)' \subseteq Heard(p)
  BY <1>1, <1>2, RangeJoin DEF Heard, Log
<1>5. conn' = conn /\ file' = file
  BY DEF network
<1>6. Ordered(conn, p, Log(p))'
  BY <1>3, <1>5 DEF Ordered, Fits
<1>7. Known(p)' /\ Whole(p)'
  BY <1>4, <1>5 DEF LogParts, Known, Whole
<1>8. Over(p)'
  <2>1. Over(p)
    BY DEF LogParts
  <2>2. Over(p) <=> \A d \in Conn : Signal("disconnected", d, 0) \in Heard(p) =>
              conn[d].state = "closed" /\ (\A fd \in Fd : file[fd].conn # d) /\ ~Leaving(p, d)
    BY PartsAre, Zenon
  <2>3. Over(p)' <=> \A d \in Conn : Signal("disconnected", d, 0) \in Heard(p)' =>
              conn'[d].state = "closed" /\ (\A fd \in Fd : file'[fd].conn # d) /\ ~Leaving(p, d)'
    BY PartsThen, Zenon
  <2> QED BY <1>4, <1>5, <2>1, <2>2, <2>3
<1>9. Once(p)'
  <2>1. Once(p)
    BY DEF LogParts
  <2>2. Once(p) <=> \A d \in Conn : Signal("connected", d, 0) \in Heard(p) => ~Joining(p, d)
    BY PartsAre, Zenon
  <2>3. Once(p)' <=> \A d \in Conn : Signal("connected", d, 0) \in Heard(p)' => ~Joining(p, d)'
    BY PartsThen, Zenon
  <2> QED BY <1>4, <2>1, <2>2, <2>3
<1> HIDE DEF Typed
<1> QED BY <1>6, <1>7, <1>8, <1>9 DEF LogParts

\* The capsule is told of the lines that were read.
LEMMA LogLines ==
  ASSUME Typed, FilesTyped', OneDescriptor, NEW p \in Port, LogParts(p), alive' = alive, p \in alive,
         NEW c \in Conn, conn[c].owner = p, \E fd \in Fd : file[fd].conn = c, file' = file,
         \A d \in Conn : /\ d # c => conn'[d] = conn[d]
                         /\ conn'[d].state = conn[d].state /\ conn'[d].owner = conn[d].owner
                         /\ conn'[d].fd = conn[d].fd /\ conn'[d].sent = conn[d].sent
                         /\ d = c => conn'[d].read = conn[d].sent,
         ~Putting(p), Log(p)' = Log(p) \o Lines(c),
         \A d \in Conn : Leaving(p, d)' => Leaving(p, d),
         \A d \in Conn : ~Joining(p, d)'
  PROVE  LogParts(p)'
<1> USE DEF Typed
<1> DEFINE more == Lines(c)
           r == conn[c].read
<1>1. r \in Nat /\ conn[c].sent \in Nat /\ r <= conn[c].sent
  BY DEF FilesTyped, ConnSet, OneDescriptor
<1>2. /\ more \in Seq(SignalSet) /\ Len(more) = conn[c].sent - r
      /\ \A i \in 1 .. Len(more) : more[i] = Signal("received", c, r + i)
  BY <1>1, LinesAre
<1>3. \A d \in Conn : conn[d].read \in Nat /\ conn'[d].read \in Nat /\ conn[d].read <= conn'[d].read
  BY <1>1 DEF FilesTyped, ConnSet
<1>4. ConnKeep(p)
  BY <1>3 DEF ConnKeep
<1> HIDE DEF more, r
<1>5. Ordered(conn', p, Log(p)) /\ Log(p) \in Seq(SignalSet) /\ Log(p)' = Log(p) \o more
  BY <1>4, OrderKept, LogTyped DEF more
<1>6. Whole(p) /\ \A d : ~Joining(p, d)
  BY DEF LogParts, Joining
<1>7. \A d \in Conn : conn[d].owner = p =>
        /\ \A n \in 1 .. conn[d].read : Signal("received", d, n) \in Heard(p)
        /\ conn[d].fd = NoFd => Signal("connected", d, 0) \in Heard(p)
  <2>1. Whole(p) <=> \A d \in Conn : conn[d].owner = p /\ p \in alive =>
              /\ \A n \in 1 .. conn[d].read : Signal("received", d, n) \in Heard(p)
              /\ conn[d].fd = NoFd => Signal("connected", d, 0) \in Heard(p) \/ Joining(p, d)
    BY PartsAre, Zenon
  <2> QED BY <1>6, <2>1
<1>8. ASSUME NEW i \in 1 .. Len(more)
      PROVE  Fits(conn', p, Range(Log(p)) \cup Before(more, i), more[i])
  <2> DEFINE s == Signal("received", c, r + i)
             before == Range(Log(p)) \cup Before(more, i)
  <2>1. more[i] = s /\ s.kind = "received" /\ s.conn = c /\ s.n = r + i /\ i \in Nat \ {0}
    BY <1>1, <1>2, SignalIs
  <2>2. \A x \in Before(more, i) : x.kind = "received" /\ x.n # r + i
    <3>1. \A j \in 1 .. i - 1 : j \in 1 .. Len(more) /\ j # i /\ r + j # r + i
      BY <1>1, <1>2, <2>1
    <3>2. \A j \in 1 .. i - 1 : more[j].kind = "received" /\ more[j].n = r + j
      BY <1>2, <3>1, SignalIs
    <3> QED BY <3>1, <3>2 DEF Before
  <2>3. s \notin Heard(p)
    <3>1. Known(p) /\ ~(r + i \in 1 .. r)
      BY <1>1, <2>1 DEF LogParts
    <3> QED BY <2>1, <3>1 DEF Known, r
  <2>4. Signal("disconnected", c, 0) \notin Heard(p)
    BY DEF LogParts, Over
  <2>5. Signal("disconnected", c, 0).kind = "disconnected"
    BY SignalIs
  <2>6. r + i > 1 => Signal("received", c, r + i - 1) \in before
    <3>1. CASE i = 1
      <4>1. r + i > 1 => r + i - 1 \in 1 .. r
        BY <1>1, <3>1
      <4> QED BY <1>7, <4>1 DEF r, Heard
    <3>2. CASE i # 1
      <4>1. i - 1 \in 1 .. i - 1 /\ i - 1 \in 1 .. Len(more) /\ r + (i - 1) = r + i - 1
        BY <1>1, <1>2, <2>1, <3>2
      <4>2. more[i - 1] = Signal("received", c, r + i - 1)
        BY <1>2, <4>1
      <4> QED BY <4>1, <4>2 DEF Before
    <3> QED BY <3>1, <3>2
  <2>7. conn[c].fd = NoFd => Signal("connected", c, 0) \in before
    BY <1>7 DEF Heard
  <2>8. conn'[c].owner = p /\ conn'[c].fd = conn[c].fd
    OBVIOUS
  <2> HIDE DEF s
  <2>9. s \notin before /\ Signal("disconnected", c, 0) \notin before
    BY <2>1, <2>2, <2>3, <2>4, <2>5 DEF Heard
  <2> HIDE DEF before
  <2>10. Fits(conn', p, before, s)
    <3> DEFINE k == s.kind
               d == s.conn
               n == s.n
    <3>a. k = "received" /\ d = c /\ n = r + i
      BY <2>1, Zenon
    <3> HIDE DEF k, d, n
    <3>1. k = "received" /\ d = c /\ n = r + i /\ n - 1 = r + i - 1
      BY <1>1, <2>1, <3>a
    <3>2. /\ conn'[d].owner = p
          /\ s \notin before /\ Signal("disconnected", d, 0) \notin before
          /\ k # "connected" /\ conn'[d].fd = NoFd => Signal("connected", d, 0) \in before
          /\ k = "received" /\ n > 1 => Signal("received", d, n - 1) \in before
          /\ k # "disconnected"
      BY <2>6, <2>7, <2>8, <2>9, <3>1
    <3> QED BY <3>2, Zenon DEF Fits, k, d, n
  <2> QED BY <2>1, <2>10 DEF before
<1>9. Ordered(conn', p, Log(p)')
  BY <1>2, <1>5, <1>8, OrderedMore
<1>10. Ordered(conn, p, Log(p))'
  BY <1>9 DEF Ordered, Fits
<1>11. Range(more) = {more[i] : i \in 1 .. Len(more)} /\ Heard(p)' = Heard(p) \cup Range(more)
  BY <1>2, <1>5, RangeIs, RangeJoin DEF Heard
<1>12. \A s \in Range(more) : /\ s.kind = "received" /\ s.conn = c
                              /\ s.n \in 1 .. conn'[c].read
  <2>1. ASSUME NEW i \in 1 .. Len(more)
        PROVE  /\ more[i].kind = "received" /\ more[i].conn = c
               /\ more[i].n \in 1 .. conn'[c].read
    <3>1. more[i].kind = "received" /\ more[i].conn = c /\ more[i].n = r + i
      BY <1>2, SignalIs
    <3>2. r + i \in 1 .. conn'[c].read
      BY <1>1, <1>2
    <3> QED BY <3>1, <3>2
  <2> QED BY <1>11, <2>1
<1>13. Known(p)'
  <2>1. Known(p)
    BY DEF LogParts
  <2>2. ASSUME NEW s \in Heard(p)
        PROVE  s.conn \in Conn /\ IF s.kind = "received" THEN s.n \in 1 .. conn'[s.conn].read
                                                          ELSE s.n = 0
    <3>1. s.conn \in Conn /\ IF s.kind = "received" THEN s.n \in 1 .. conn[s.conn].read
                                                          ELSE s.n = 0
      BY <2>1 DEF Known
    <3>2. /\ conn[s.conn].read \in Nat /\ conn'[s.conn].read \in Nat
          /\ conn[s.conn].read <= conn'[s.conn].read
      BY <1>3, <3>1
    <3> HIDE DEF Typed
    <3> QED BY <3>1, <3>2
  <2> QED BY <1>11, <1>12, <2>2 DEF Known
<1>14. \A d \in Conn : Signal("disconnected", d, 0) \notin Range(more)
                       /\ Signal("connected", d, 0) \notin Range(more)
  <2>1. \A d : /\ Signal("disconnected", d, 0).kind # "received"
               /\ Signal("connected", d, 0).kind # "received"
    BY SignalIs
  <2> QED BY <1>12, <2>1
<1>15. Over(p)'
  <2>1. Over(p)
    BY DEF LogParts
  <2>2. Over(p) <=> \A d \in Conn : Signal("disconnected", d, 0) \in Heard(p) =>
              conn[d].state = "closed" /\ (\A fd \in Fd : file[fd].conn # d) /\ ~Leaving(p, d)
    BY PartsAre, Zenon
  <2>3. Over(p)' <=> \A d \in Conn : Signal("disconnected", d, 0) \in Heard(p)' =>
              conn'[d].state = "closed" /\ (\A fd \in Fd : file'[fd].conn # d) /\ ~Leaving(p, d)'
    BY PartsThen, Zenon
  <2> QED BY <1>11, <1>14, <2>1, <2>2, <2>3
<1>16. Once(p)'
  BY PartsThen, Zenon
<1>17. Whole(p)'
  <2>1. Whole(p)' <=> \A d \in Conn : conn'[d].owner = p /\ p \in alive' =>
              /\ \A n \in 1 .. conn'[d].read : Signal("received", d, n) \in Heard(p)'
              /\ conn'[d].fd = NoFd => Signal("connected", d, 0) \in Heard(p)' \/ Joining(p, d)'
    BY PartsThen, Zenon
  <2>2. \A n \in 1 .. conn'[c].read : Signal("received", c, n) \in Heard(p)'
    <3> SUFFICES ASSUME NEW n \in 1 .. conn[c].sent PROVE Signal("received", c, n) \in Heard(p)'
      OBVIOUS
    <3>1. CASE n <= r
      <4>1. n \in 1 .. r
        BY <1>1, <3>1
      <4> QED BY <1>7, <1>11, <4>1 DEF r
    <3>2. CASE n > r
      <4>1. n - r \in 1 .. Len(more) /\ r + (n - r) = n
        BY <1>1, <1>2, <3>2
      <4>2. more[n - r] = Signal("received", c, n)
        BY <1>2, <4>1
      <4> QED BY <1>11, <4>1, <4>2
    <3> QED BY <1>1, <3>1, <3>2
  <2>3. ASSUME NEW d \in Conn, conn'[d].owner = p
        PROVE  /\ \A n \in 1 .. conn'[d].read : Signal("received", d, n) \in Heard(p)'
               /\ conn'[d].fd = NoFd => Signal("connected", d, 0) \in Heard(p)'
    BY <1>7, <1>11, <2>2, <2>3
  <2> QED BY <2>1, <2>3
<1> HIDE DEF Typed
<1> QED BY <1>10, <1>13, <1>15, <1>16, <1>17 DEF LogParts

-----------------------------------------------------------------------------
(* The ports and the logs of patient capsules. *)

TidyMaps == \A p \in Sockets : /\ p \in Ids \/ (Putting(p) /\ pc["user"] = "putId")
                               /\ p \in Slots \/ Putting(p)

TidyThreads == \A p \in Port : /\ Dropping("service", p) => p \notin Sockets
                               /\ Putting(p) => ~Removing("service", p)

TidyLogs == \A p \in Port \ Listener : LogParts(p) /\ (Putting(p) => coming[p] = <<>>)

TidyParts == TidyMaps /\ TidyThreads /\ TidyLogs

LEMMA TidyIs == Tidy <=> (Undisturbed /\ Patient => TidyParts)
BY LogSoundIs DEF Tidy, TidyParts, TidyMaps, TidyThreads, TidyLogs

LEMMA TidyThen ==
  ASSUME Undisturbed' /\ Patient => TidyMaps' /\ TidyThreads' /\ TidyLogs'
  PROVE  Tidy'
<1>1. (Tidy <=> (Undisturbed /\ Patient => TidyParts))'
  BY TidyIs, PTL
<1> QED BY <1>1 DEF TidyParts

\* What the parts of the invariant say together of a state in which no capsule has called
\* disconnect and all wait for the end of their connections.
Calm == /\ Places /\ Iterates /\ NumbersGrow /\ EachDroppedOnce /\ Nested /\ OneDescriptor
        /\ OwnParts /\ TidyParts /\ Patient /\ Undisturbed

LEMMA TidyBegins ==
  ASSUME Typed, Typed', Calm, NEW p \in Port,
         Connect(p) \/ Listen(p) \/ \E fd \in Fd : Attach(p, fd)
  PROVE  TidyMaps' /\ TidyThreads' /\ TidyLogs'
<1> USE DEF Typed
<1>1. NetGrows
  BY BeginsGrow DEF Calm
<1>2. PICK fd \in Fd, c \in Conn \cup {None} :
        /\ Begins(p, fd, c) /\ \A d \in Conn : d # c => conn'[d].read = conn[d].read
        /\ \A d \in Conn : conn'[d].owner # conn[d].owner =>
             conn'[d].owner = p /\ (d = c \/ conn'[d].fd # NoFd) /\ conn'[d].read = 0
        /\ c # None => conn[c] = NoConn /\ conn'[c].owner = p
  <2>1. CASE Connect(p)
    <3>1. PICK fd \in Fd, c \in Conn :
            /\ Begins(p, fd, c) /\ conn[c] = NoConn /\ OthersStay(c) /\ conn'[c].owner = p
            /\ conn'[c].read = 0
      BY <2>1, ConnectDoes
    <3> QED BY <3>1 DEF OthersStay
  <2>2. CASE Listen(p)
    BY <2>2, ListenDoes
  <2>3. ASSUME NEW fd \in Fd, Attach(p, fd)
        PROVE  /\ Begins(p, fd, None) /\ \A d \in Conn : conn'[d].read = conn[d].read
               /\ \A d \in Conn : conn'[d].owner # conn[d].owner =>
                    conn'[d].owner = p /\ conn'[d].fd # NoFd /\ conn'[d].read = 0
    <3>1. PICK c \in Conn :
            /\ Begins(p, fd, None) /\ file[fd].conn = c /\ conn[c].owner = None /\ OthersStay(c)
            /\ conn'[c].owner = p /\ conn'[c].fd = conn[c].fd /\ conn'[c].read = conn[c].read
      BY <2>3, AttachDoes DEF ConnOf
    <3>2. conn[c].read = 0
      BY <3>1 DEF Calm, OwnParts, UnownedRest
    <3>3. conn[c].state # "none"
      BY <3>1, Numbers DEF Calm, OneDescriptor
    <3>4. conn[c].fd # NoFd
      BY <3>1, <3>3, NoConnIs DEF Calm, OneDescriptor
    <3> QED BY <3>1, <3>2, <3>4 DEF OthersStay
  <2> QED BY <2>1, <2>2, <2>3
<1>3. /\ pc["user"] = "idle" /\ Waited(p) /\ pc'["user"] = "putSocket" /\ ServiceStill
      /\ at'["user"].port = p /\ at'["user"].conn = c /\ UNCHANGED <<maps, inbox, alive>>
  BY <1>2 DEF Begins, MayBegin, ServiceStill
<1>4. ~Removing("service", p) /\ (p \notin Listener => coming[p] = <<>>)
  BY <1>3, WaitedIs DEF Calm, OwnParts, TidyParts, TidyLogs
<1>5. Sockets' = Sockets /\ Ids' = Ids /\ Slots' = Slots
  BY <1>3, MapsKept
<1>6. \A q : ~Putting(q) /\ (Putting(q)' <=> q = p)
  BY <1>3 DEF Putting
<1>7. TidyMaps'
  BY <1>5, <1>6 DEF Calm, TidyParts, TidyMaps
<1>8. \A q : /\ Dropping("service", q)' <=> Dropping("service", q)
             /\ Removing("service", q)' <=> Removing("service", q)
  BY <1>3 DEF Dropping, Removing, ServiceStill
<1>9. TidyThreads'
  BY <1>4, <1>5, <1>6, <1>8 DEF Calm, TidyParts, TidyThreads
<1>10. ASSUME NEW q \in Port \ Listener PROVE LogParts(q)' /\ (Putting(q)' => coming'[q] = <<>>)
  <2>1. LogParts(q) /\ (q = p => coming[q] = <<>>)
    BY <1>4 DEF Calm, TidyParts, TidyLogs
  <2>2. Log(q)' = Log(q) /\ coming' = coming
    BY <1>3 DEF Log, inbox
  <2>3. q # None
    BY Numbers
  <2>11. \A d \in Conn : conn[d].owner = q => d # c
    <3>1. \A d \in Conn : d = c => conn[d] = NoConn
      BY <1>2, Numbers
    <3> QED BY <2>3, <3>1, NoConnIs
  <2>4. ConnKeep(q)
    <3>1. ASSUME NEW d \in Conn, conn[d].owner = q PROVE conn'[d].read = conn[d].read
      BY <1>2, <2>11, <3>1
    <3> QED BY <1>1, <3>1, GrowsConnKeep
  <2>5. \A d \in Conn : Leaving(q, d)' => Leaving(q, d)
    BY <1>3, <1>8 DEF Leaving, ServiceStill
  <2>6. \A d \in Conn : ~Joining(q, d) /\ (Joining(q, d)' => q = p /\ d = c)
    BY <1>3, <1>6 DEF Joining
  <2>7. \A d \in Conn : Joining(q, d)' => conn[d].owner # q
    BY <1>2, <2>3, <2>6, Numbers, NoConnIs
  <2>8. p = q => \A d \in Conn : d = c => Joining(q, d)'
    BY <1>3, <1>6 DEF Joining
  <2>9. ASSUME NEW d \in Conn, conn'[d].owner = q
        PROVE  \/ conn[d].owner = q /\ conn'[d].read = conn[d].read
               \/ conn'[d].read = 0 /\ (conn'[d].fd = NoFd => Joining(q, d)')
    <3>1. CASE conn[d].owner = q
      BY <1>2, <2>11, <3>1
    <3>2. CASE conn[d].owner # q
      <4>1. conn'[d].owner = p /\ (d = c \/ conn'[d].fd # NoFd) /\ conn'[d].read = 0
        BY <1>2, <2>9, <3>2
      <4> QED BY <2>8, <2>9, <4>1
    <3> QED BY <3>1, <3>2
  <2>10. LogParts(q)'
    BY <1>3, <2>1, <2>2, <2>4, <2>5, <2>6, <2>7, <2>9, LogKept
  <2> QED BY <1>6, <2>1, <2>2, <2>10
<1> HIDE DEF Typed
<1> QED BY <1>7, <1>9, <1>10 DEF TidyLogs

LEMMA TidyMapsStill ==
  ASSUME TidyMaps, Sockets' \subseteq Sockets, Ids' = Ids, Slots' = Slots, UserStill
  PROVE  TidyMaps'
BY DEF TidyMaps, UserStill, Putting

LEMMA TidyThreadsStill ==
  ASSUME TidyThreads, Sockets' \subseteq Sockets,
         \A p \in Port : /\ Dropping("service", p)' => Dropping("service", p) \/ p \notin Sockets'
                         /\ Removing("service", p)' => Removing("service", p)
                         /\ Putting(p)' => Putting(p)
  PROVE  TidyThreads'
BY DEF TidyThreads

LEMMA TidyLogsStill ==
  ASSUME Typed, FilesTyped', TidyLogs, UNCHANGED network,
         \A p \in Port \ Listener : Log(p)' = Log(p) /\ (Putting(p)' => coming'[p] = coming[p]),
         alive' \subseteq alive,
         \A p \in Port : /\ Putting(p)' => Putting(p)
                         /\ \A c \in Conn : /\ Leaving(p, c)' => Leaving(p, c)
                                            /\ Joining(p, c)' <=> Joining(p, c)
  PROVE  TidyLogs'
<1> SUFFICES ASSUME NEW p \in Port \ Listener
             PROVE  LogParts(p)' /\ (Putting(p)' => coming'[p] = <<>>)
  BY DEF TidyLogs
<1>1. LogParts(p) /\ (Putting(p) => coming[p] = <<>>)
  BY DEF TidyLogs
<1>2. LogParts(p)'
  BY <1>1, LogStill
<1> QED BY <1>1, <1>2

LEMMA StillIs ==
  ASSUME UNCHANGED <<pc, at>>
  PROVE  /\ UserStill /\ ServiceStill
         /\ \A p : /\ Putting(p)' <=> Putting(p)
                   /\ Dropping("service", p)' <=> Dropping("service", p)
                   /\ Removing("service", p)' <=> Removing("service", p)
                   /\ \A c : /\ Leaving(p, c)' <=> Leaving(p, c)
                             /\ Joining(p, c)' <=> Joining(p, c)
BY DEF UserStill, ServiceStill, Putting, Dropping, Removing, Leaving, Joining

\* A call or the environment changes the network, and no connection is read.
LEMMA TidyGrows ==
  ASSUME Typed, FilesTyped', Calm, NetGrows, UNCHANGED <<maps, pc, at, inbox, alive>>,
         \A c \in Conn : \/ conn'[c].owner = conn[c].owner /\ conn'[c].read = conn[c].read
                         \/ conn[c].owner = None /\ conn'[c].owner = None
  PROVE  TidyMaps' /\ TidyThreads' /\ TidyLogs'
<1> USE DEF Typed
<1>1. TidyMaps /\ TidyThreads /\ TidyLogs
  BY DEF Calm, TidyParts
<1>2. TidyMaps' /\ TidyThreads'
  BY <1>1, MapsKept, StillIs, TidyMapsStill, TidyThreadsStill
<1>3. ASSUME NEW p \in Port \ Listener PROVE LogParts(p)' /\ (Putting(p)' => coming'[p] = <<>>)
  <2>1. LogParts(p) /\ (Putting(p) => coming[p] = <<>>)
    BY <1>1 DEF TidyLogs
  <2>2. Log(p)' = Log(p) /\ coming' = coming
    BY DEF Log, inbox
  <2>3. \A c \in Conn : conn[c].owner = p \/ conn'[c].owner = p =>
          conn'[c].owner = conn[c].owner /\ conn'[c].read = conn[c].read
    BY Numbers
  <2>4. ConnKeep(p)
    BY <2>3, GrowsConnKeep
  <2>5. /\ Putting(p)' <=> Putting(p)
        /\ \A c : /\ Leaving(p, c)' <=> Leaving(p, c)
                  /\ Joining(p, c)' <=> Joining(p, c)
    BY StillIs
  <2>6. LogParts(p)'
    BY <2>1, <2>2, <2>3, <2>4, <2>5, LogKept
  <2> QED BY <2>1, <2>2, <2>5, <2>6
<1> HIDE DEF Typed
<1> QED BY <1>2, <1>3 DEF TidyLogs

\* The calls that leave the ports where they are.
LEMMA TidyCalls ==
  ASSUME Typed, Typed', Calm,
         \/ Collect
         \/ \E p \in Port : Fail(p) \/ Send(p) \/ AcceptCall(p) \/ Destroy(p)
         \/ (\E c \in Conn : Peer(c)) \/ (\E fd \in Fd : ClientArrives(fd))
  PROVE  TidyMaps' /\ TidyThreads' /\ TidyLogs'
<1> USE DEF Typed
<1>1. TidyMaps /\ TidyThreads /\ TidyLogs
  BY DEF Calm, TidyParts
<1>2. ASSUME UNCHANGED <<maps, pc, at>> PROVE TidyMaps' /\ TidyThreads'
  BY <1>1, <1>2, MapsKept, StillIs, TidyMapsStill, TidyThreadsStill
<1>3. CASE Collect
  <2>1. UNCHANGED <<maps, pc, at, network, alive>> /\ pc["user"] = "idle"
    BY <1>3, CollectDoes
  <2>2. \A p \in Port : signals'[p] = signals[p] \o coming[p] /\ coming'[p] = <<>>
    BY <1>3, CollectDoes
  <2>3. \A p \in Port : Log(p)' = Log(p) /\ ~Putting(p)'
    <3> TAKE p \in Port
    <3>1. signals[p] \o coming[p] \in Seq(SignalSet)
      BY LogTyped DEF Log
    <3>2. (signals[p] \o coming[p]) \o <<>> = signals[p] \o coming[p]
      BY <3>1, ConcatEmptySeq
    <3> QED BY <2>1, <2>2, <3>2 DEF Log, Putting
  <2>4. TidyLogs'
    BY <1>1, <2>1, <2>3, StillIs, TidyLogsStill
  <2> QED BY <1>2, <2>1, <2>4
<1>4. ASSUME NEW p \in Port, Send(p) \/ AcceptCall(p) PROVE TidyMaps' /\ TidyThreads' /\ TidyLogs'
  <2>1. UNCHANGED <<maps, pc, at, network, alive, inbox>>
    BY <1>4, SendDoes, AcceptCallDoes
  <2>2. \A q \in Port : Log(q)' = Log(q) /\ coming' = coming
    BY <2>1 DEF Log, inbox
  <2>3. TidyLogs'
    BY <1>1, <2>1, <2>2, StillIs, TidyLogsStill
  <2> QED BY <1>2, <2>1, <2>3
<1>5. ASSUME NEW p \in Port, Destroy(p) PROVE TidyMaps' /\ TidyThreads' /\ TidyLogs'
  <2>1. /\ UNCHANGED <<maps, pc, at, network, signals>> /\ alive' = alive \ {p} /\ pc["user"] = "idle"
        /\ coming'[p] = <<>> /\ \A q \in Port : q # p => coming'[q] = coming[q]
    BY <1>5, DestroyDoes
  <2>2. \A q : ~Putting(q)'
    BY <2>1 DEF Putting
  <2>3. ASSUME NEW q \in Port \ Listener PROVE LogParts(q)'
    <3>1. LogParts(q)
      BY <1>1 DEF TidyLogs
    <3>2. CASE q = p
      BY <2>1, <3>1, <3>2, StillIs, LogCut
    <3>3. CASE q # p
      <4>1. Log(q)' = Log(q)
        BY <2>1, <3>3 DEF Log
      <4> QED BY <2>1, <3>1, <4>1, StillIs, LogStill
    <3> QED BY <3>2, <3>3
  <2>4. TidyLogs'
    BY <2>2, <2>3 DEF TidyLogs
  <2> QED BY <1>2, <2>1, <2>4
<1>6. ASSUME NEW p \in Port, Fail(p) PROVE TidyMaps' /\ TidyThreads' /\ TidyLogs'
  <2>1. UNCHANGED <<maps, pc, at, alive, inbox, conn>>
    BY <1>6, FailDoes
  <2>2. NetGrows
    BY <1>6, BeginsGrow DEF Calm
  <2> QED BY <2>1, <2>2, TidyGrows
<1>7. ASSUME NEW c \in Conn, Peer(c) PROVE TidyMaps' /\ TidyThreads' /\ TidyLogs'
  <2>1. UNCHANGED <<maps, pc, at, alive, inbox>>
    BY <1>7, PeerDoes
  <2>2. \A d \in Conn : conn'[d].owner = conn[d].owner /\ conn'[d].read = conn[d].read
    BY <1>7, PeerDoes DEF OthersStay
  <2>3. NetGrows
    BY <1>7, EnvironmentGrows DEF Calm
  <2> QED BY <2>1, <2>2, <2>3, TidyGrows
<1>8. ASSUME NEW fd \in Fd, ClientArrives(fd) PROVE TidyMaps' /\ TidyThreads' /\ TidyLogs'
  <2>1. PICK c \in Conn : /\ conn[c] = NoConn /\ OthersStay(c) /\ conn'[c].owner = None
                          /\ UNCHANGED <<maps, pc, at, alive, inbox>>
    BY <1>8, ClientArrivesDoes
  <2>2. \A d \in Conn : \/ conn'[d].owner = conn[d].owner /\ conn'[d].read = conn[d].read
                        \/ conn[d].owner = None /\ conn'[d].owner = None
    BY <2>1, NoConnIs DEF OthersStay
  <2>3. NetGrows
    BY <1>8, EnvironmentGrows DEF Calm
  <2> QED BY <2>1, <2>2, <2>3, TidyGrows
<1> HIDE DEF Typed
<1> QED BY <1>3, <1>4, <1>5, <1>6, <1>7, <1>8

\* A port is put into the maps.
LEMMA TidyPuts ==
  ASSUME Typed, Typed', Calm, PutSocket \/ PutId \/ PutSlot
  PROVE  TidyMaps' /\ TidyThreads' /\ TidyLogs'
<1> USE DEF Typed
<1>1. TidyMaps /\ TidyThreads /\ TidyLogs /\ Places
  BY DEF Calm, TidyParts
<1>2. PICK p : p = at["user"].port
  OBVIOUS
<1>3. ASSUME ServiceStill
      PROVE  \A q : /\ Dropping("service", q)' <=> Dropping("service", q)
                    /\ Removing("service", q)' <=> Removing("service", q)
                    /\ \A c : Leaving(q, c)' <=> Leaving(q, c)
  BY <1>3 DEF ServiceStill, Dropping, Removing, Leaving
<1>4. CASE PutSocket
  <2>1. /\ pc["user"] = "putSocket" /\ p \in Port /\ pc'["user"] = "putId" /\ at' = at
        /\ pc'["service"] = pc["service"]
        /\ Sockets' = Sockets \cup {p} /\ Ids' = Ids /\ Slots' = Slots
        /\ UNCHANGED <<network, inbox, alive>>
    BY <1>1, <1>2, <1>4, PutSocketDoes
  <2>2. \A q : (Putting(q) <=> q = p) /\ (Putting(q)' <=> q = p)
    BY <1>2, <2>1 DEF Putting
  <2>3. TidyMaps'
    BY <1>1, <2>1, <2>2 DEF TidyMaps
  <2>4. ServiceStill /\ ~Dropping("service", p)
    BY <1>1, <2>1, <2>2 DEF ServiceStill, TidyThreads, Dropping, Removing
  <2>5. TidyThreads'
    BY <1>1, <1>3, <2>1, <2>2, <2>4 DEF TidyThreads
  <2>6. \A q, c : Joining(q, c)' <=> Joining(q, c)
    BY <2>1, <2>2 DEF Joining
  <2>7. \A q \in Port : Log(q)' = Log(q) /\ coming' = coming
    BY <2>1 DEF Log, inbox
  <2>8. TidyLogs'
    BY <1>1, <1>3, <2>1, <2>2, <2>4, <2>6, <2>7, TidyLogsStill
  <2> QED BY <2>3, <2>5, <2>8
<1>5. CASE PutId
  <2>1. /\ pc["user"] = "putId" /\ p \in Port /\ pc'["user"] = "putSlot" /\ at' = at
        /\ pc'["service"] = pc["service"]
        /\ Sockets' = Sockets /\ Ids' = Ids \cup {p} /\ Slots' = Slots
        /\ UNCHANGED <<network, inbox, alive>>
    BY <1>1, <1>2, <1>5, PutIdDoes
  <2>2. \A q : (Putting(q) <=> q = p) /\ (Putting(q)' <=> q = p)
    BY <1>2, <2>1 DEF Putting
  <2>3. TidyMaps'
    BY <1>1, <2>1, <2>2 DEF TidyMaps
  <2>4. ServiceStill
    BY <2>1 DEF ServiceStill
  <2>5. TidyThreads'
    BY <1>1, <1>3, <2>1, <2>2, <2>4 DEF TidyThreads
  <2>6. \A q, c : Joining(q, c)' <=> Joining(q, c)
    BY <2>1, <2>2 DEF Joining
  <2>7. \A q \in Port : Log(q)' = Log(q) /\ coming' = coming
    BY <2>1 DEF Log, inbox
  <2>8. TidyLogs'
    BY <1>1, <1>3, <2>1, <2>2, <2>4, <2>6, <2>7, TidyLogsStill
  <2> QED BY <2>3, <2>5, <2>8
<1>6. CASE PutSlot
  <2>1. /\ pc["user"] = "putSlot" /\ p \in Port /\ pc'["user"] = "idle"
        /\ pc'["service"] = pc["service"] /\ at'["service"] = at["service"]
        /\ Sockets' = Sockets /\ Ids' = Ids /\ Slots' = Slots \cup {p}
        /\ UNCHANGED <<network, alive>>
    BY <1>1, <1>2, <1>6, PutSlotDoes
  <2>2. \A q : (Putting(q) <=> q = p) /\ ~Putting(q)'
    BY <1>2, <2>1 DEF Putting
  <2>3. TidyMaps'
    BY <1>1, <2>1, <2>2 DEF TidyMaps
  <2>4. ServiceStill
    BY <2>1 DEF ServiceStill
  <2>5. TidyThreads'
    BY <1>1, <1>3, <2>1, <2>2, <2>4 DEF TidyThreads
  <2>6. ASSUME NEW q \in Port \ Listener PROVE LogParts(q)'
    <3>1. LogParts(q) /\ (Putting(q) => coming[q] = <<>>)
      BY <1>1 DEF TidyLogs
    <3>2. ASSUME Log(q)' = Log(q), q # p \/ at["user"].conn = None PROVE LogParts(q)'
      <4>1. \A c \in Conn : ~Joining(q, c) /\ ~Joining(q, c)'
        BY <1>2, <2>2, <3>2, Numbers DEF Joining
      <4> QED BY <1>3, <2>1, <2>4, <3>1, <3>2, <4>1, LogStill
    <3>3. CASE at["user"].conn = None
      <4>1. UNCHANGED inbox
        BY <1>1, <1>2, <1>6, <3>3, PutSlotDoes
      <4>2. Log(q)' = Log(q)
        BY <4>1 DEF Log, inbox
      <4> QED BY <3>2, <3>3, <4>2
    <3>4. CASE at["user"].conn # None
      <4> DEFINE c == at["user"].conn
                 s == Signal("connected", c, 0)
      <4>1. Tells(p, s)
        BY <1>1, <1>2, <1>6, <3>4, PutSlotDoes
      <4>2. c \in Conn /\ s \in SignalSet
        <5>1. at["user"] \in AtSet
          BY DEF ThreadsTyped, Thread
        <5>2. c \in Conn
          BY <3>4, <5>1 DEF AtSet
        <5> QED BY <5>2, SignalIs
      <4>3. CASE q # p
        <5>1. Log(q)' = Log(q)
          BY <4>1, <4>3 DEF Log, Tells
        <5> QED BY <3>2, <4>3, <5>1
      <4>4. CASE q = p
        <5>1. Joining(q, c) /\ PutOwn(q)
          BY <1>2, <2>2, <4>4 DEF Joining, Calm, OwnParts
        <5>2. at["user"].fd \in Fd
          BY <2>1 DEF Calm, Places
        <5>3. conn[c].owner = q /\ conn[c].fd = NoFd /\ \E fd \in Fd : file[fd].conn = c
          BY <2>2, <3>4, <4>4, <5>1, <5>2 DEF PutOwn, Own, ConnOf
        <5>4. Log(q)' = Log(q) \o <<s>>
          <6>1. signals[q] \in Seq(SignalSet) /\ coming[q] = <<>>
            BY <2>2, <3>1, <4>4 DEF SignalsTyped
          <6>2. signals'[q] = Append(signals[q], s) /\ coming'[q] = <<>>
            BY <4>1, <4>4, <6>1 DEF Tells
          <6> HIDE DEF s
          <6>3. Append(signals[q], s) \in Seq(SignalSet) /\ Append(signals[q], s) = signals[q] \o <<s>>
            BY <4>2, <6>1, AppendProperties, AppendIsConcat
          <6>4. Append(signals[q], s) \o <<>> = (signals[q] \o <<>>) \o <<s>>
            BY <6>1, <6>3, ConcatEmptySeq
          <6> QED BY <6>1, <6>2, <6>4 DEF Log
        <5>5. \A d \in Conn : Leaving(q, d)' => Leaving(q, d)
          BY <1>3, <2>4
        <5>6. \A d \in Conn : ~Joining(q, d)'
          BY <2>2 DEF Joining
        <5> QED BY <2>1, <3>1, <4>2, <5>1, <5>3, <5>4, <5>5, <5>6, LogConnected
      <4> QED BY <4>3, <4>4
    <3> QED BY <3>3, <3>4
  <2>7. TidyLogs'
    BY <2>2, <2>6 DEF TidyLogs
  <2> QED BY <2>3, <2>5, <2>7
<1> HIDE DEF Typed
<1> QED BY <1>4, <1>5, <1>6

LEMMA TidyUser ==
  ASSUME Typed, Typed', Places, Iterates, NumbersGrow, EachDroppedOnce, Nested, OneDescriptor,
         SocketsOwn, Tidy, UserMoves
  PROVE  Tidy'
<1> SUFFICES ASSUME Undisturbed', Patient PROVE TidyMaps' /\ TidyThreads' /\ TidyLogs'
  BY TidyThen
<1>1. ASSUME left' = left PROVE Calm
  BY <1>1, SocketsOwnIs, TidyIs DEF Undisturbed, Calm
<1>2. ASSUME \/ Collect
             \/ \E p \in Port : Fail(p) \/ Send(p) \/ AcceptCall(p) \/ Destroy(p)
             \/ (\E c \in Conn : Peer(c)) \/ (\E fd \in Fd : ClientArrives(fd))
      PROVE  TidyMaps' /\ TidyThreads' /\ TidyLogs'
  <2>1. left' = left
    BY <1>2 DEF Collect, Fail, Send, AcceptCall, Destroy, Peer, ClientArrives, history
  <2> QED BY <1>1, <1>2, <2>1, TidyCalls
<1>3. ASSUME NEW p \in Port, Connect(p) \/ Listen(p) \/ \E fd \in Fd : Attach(p, fd)
      PROVE  TidyMaps' /\ TidyThreads' /\ TidyLogs'
  <2>1. left' = left
    BY <1>3 DEF Connect, Listen, Attach, history
  <2> QED BY <1>1, <1>3, <2>1, TidyBegins
<1>4. ASSUME PutSocket \/ PutId \/ PutSlot PROVE TidyMaps' /\ TidyThreads' /\ TidyLogs'
  <2>1. left' = left
    BY <1>4 DEF PutSocket, PutId, PutSlot, history
  <2> QED BY <1>1, <1>4, <2>1, TidyPuts
<1>5. CloseSocket("user") \/ RemoveSocket("user") \/ RemoveId("user") \/ RemoveSlot("user") => FALSE
  <2>1. ASSUME CloseSocket("user") \/ RemoveSocket("user") \/ RemoveId("user") \/ RemoveSlot("user")
        PROVE  FALSE
    <3>1. /\ pc["user"] \in {"close", "removeSocket", "removeId", "removeSlot"}
          /\ left' = left
      BY <2>1 DEF CloseSocket, RemoveSocket, RemoveId, RemoveSlot, history
    <3> QED BY <3>1 DEF Nested, Undisturbed
  <2> QED BY <2>1
<1>6. ASSUME NEW p \in Port, DisconnectCall(p) PROVE FALSE
  <2>1. left' = left \cup {p}
    BY <1>6, DisconnectCallDoes DEF Typed
  <2> QED BY <2>1 DEF Undisturbed
<1> QED BY <1>2, <1>3, <1>4, <1>5, <1>6 DEF UserMoves

\* A step of the service that delivers nothing and leaves the network alone.
LEMMA TidyQuiet ==
  ASSUME Typed, FilesTyped', Calm, UserStill, UNCHANGED <<network, inbox, alive>>,
         Sockets' \subseteq Sockets, Slots' = Slots, \A p \in Sockets' : p \in Ids => p \in Ids',
         \A p : /\ Dropping("service", p)' => Dropping("service", p) \/ p \notin Sockets'
                /\ Removing("service", p)' => Removing("service", p)
                /\ \A c : Leaving(p, c)' => Leaving(p, c)
  PROVE  TidyMaps' /\ TidyThreads' /\ TidyLogs'
<1>1. TidyMaps /\ TidyThreads /\ TidyLogs
  BY DEF Calm, TidyParts
<1>2. \A p : /\ Putting(p)' <=> Putting(p)
             /\ \A c : Joining(p, c)' <=> Joining(p, c)
  BY DEF UserStill, Putting, Joining
<1>3. TidyMaps'
  BY <1>1, <1>2 DEF TidyMaps, UserStill
<1>4. TidyThreads'
  BY <1>1, <1>2, TidyThreadsStill
<1>5. \A p \in Port : Log(p)' = Log(p) /\ coming' = coming
  BY DEF Log, inbox
<1>6. TidyLogs'
  BY <1>1, <1>2, <1>5, TidyLogsStill
<1> QED BY <1>3, <1>4, <1>6

LEMMA NothingGoes ==
  ASSUME pc'["service"] \notin {"removeSocket", "removeId", "removeSlot"}
  PROVE  \A p : /\ ~Dropping("service", p)' /\ ~Removing("service", p)'
                /\ \A c : ~Leaving(p, c)'
BY DEF Dropping, Removing, Leaving

\* The steps of the service that find, write and take out.
LEMMA TidyFinds ==
  ASSUME Typed, Typed', Calm,
         \/ TakeMessage \/ Write \/ Lock \/ Visit \/ FindSocket \/ Unlock \/ Drop
         \/ RemoveSocket("service") \/ RemoveId("service")
  PROVE  TidyMaps' /\ TidyThreads' /\ TidyLogs'
<1> USE DEF Typed
<1>1. Places /\ Iterates /\ TidyThreads
  BY DEF Calm, TidyParts
<1>2. ASSUME UNCHANGED <<maps, network, inbox, alive>>, UserStill,
             pc'["service"] \notin {"removeSocket", "removeId", "removeSlot"}
      PROVE  TidyMaps' /\ TidyThreads' /\ TidyLogs'
  BY <1>2, MapsKept, NothingGoes, TidyQuiet
<1>3. CASE TakeMessage
  <2>1. /\ UNCHANGED <<maps, network, inbox, alive>> /\ UserStill
        /\ pc'["service"] \in {pc["service"], "write"} /\ pc["service"] = "send"
    BY <1>3, TakeMessageDoes DEF UserStill
  <2> QED BY <1>2, <2>1
<1>4. CASE Write
  <2>1. UNCHANGED <<maps, network, inbox, alive>> /\ UserStill /\ pc'["service"] = "send"
    BY <1>1, <1>4, WriteDoes DEF UserStill, Rests
  <2> QED BY <1>2, <2>1
<1>5. CASE Lock
  <2>1. UNCHANGED <<maps, network, inbox, alive>> /\ UserStill /\ pc'["service"] = "visit"
    BY <1>5, LockDoes DEF UserStill
  <2> QED BY <1>2, <2>1
<1>6. CASE Unlock
  <2>1. UNCHANGED <<maps, network, inbox, alive>> /\ UserStill /\ pc'["service"] = "drop"
    BY <1>6, UnlockDoes DEF UserStill
  <2> QED BY <1>2, <2>1
<1>7. CASE FindSocket
  <2>1. /\ UNCHANGED <<maps, network, inbox, alive>> /\ UserStill
        /\ pc'["service"] \in {pc["service"], "recv"} /\ pc["service"] = "getSocket"
    BY <1>1, <1>7, FindSocketDoes DEF UserStill
  <2> QED BY <1>2, <2>1
<1>8. CASE Drop
  <2>1. /\ UNCHANGED <<maps, network, inbox, alive>> /\ UserStill
        /\ pc'["service"] \in {pc["service"], "close"} /\ pc["service"] = "drop"
    BY <1>8, DropDoes DEF UserStill
  <2> QED BY <1>2, <2>1
<1>9. CASE Visit
  <2>1. PICK p : p = slotIdMap[index].key
    OBVIOUS
  <2>2. /\ UNCHANGED <<network, inbox, alive>> /\ UserStill /\ Slots' = Slots
        /\ pc'["service"] \in {"visit", "getSocket"}
        /\ p \in alive => Sockets' = Sockets /\ Ids' = Ids
        /\ p \notin alive => Sockets' = Sockets \ {p} /\ Ids' = Ids \ {p}
    BY <1>1, <1>9, <2>1, VisitDoes DEF UserStill
  <2> QED BY <2>2, NothingGoes, TidyQuiet
<1>10. CASE RemoveSocket("service")
  <2>1. PICK p : p = at["service"].port
    OBVIOUS
  <2>2. /\ pc["service"] = "removeSocket" /\ pc'["service"] = "removeId" /\ at' = at /\ UserStill
        /\ Sockets' = Sockets \ {p} /\ Ids' = Ids /\ Slots' = Slots
        /\ UNCHANGED <<network, inbox, alive>>
    BY <1>1, <1>10, <2>1, RemoveSocketDoes DEF UserStill, Thread
  <2>3. \A q : /\ Dropping("service", q)' => q \notin Sockets'
               /\ Removing("service", q)' => Removing("service", q)
               /\ \A c : Leaving(q, c)' => Leaving(q, c)
    BY <2>1, <2>2 DEF Dropping, Removing, Leaving
  <2> QED BY <2>2, <2>3, TidyQuiet
<1>11. CASE RemoveId("service")
  <2>1. PICK p : p = at["service"].port
    OBVIOUS
  <2>2. /\ pc["service"] = "removeId" /\ pc'["service"] = "removeSlot" /\ at' = at /\ UserStill
        /\ Sockets' = Sockets /\ Ids' = Ids \ {p} /\ Slots' = Slots /\ p \in Port
        /\ UNCHANGED <<network, inbox, alive>>
    BY <1>1, <1>11, <2>1, RemoveIdDoes DEF UserStill, Thread
  <2>3. p \notin Sockets
    BY <1>1, <2>1, <2>2 DEF TidyThreads, Dropping
  <2>4. \A q : /\ Dropping("service", q)' => Dropping("service", q)
               /\ Removing("service", q)' => Removing("service", q)
               /\ \A c : Leaving(q, c)' => Leaving(q, c)
    BY <2>1, <2>2 DEF Dropping, Removing, Leaving
  <2> QED BY <2>2, <2>3, <2>4, TidyQuiet
<1> HIDE DEF Typed
<1> QED BY <1>3, <1>4, <1>5, <1>6, <1>7, <1>8, <1>9, <1>10, <1>11

\* A client is accepted: no capsule that connects notices.
LEMMA TidyAccept ==
  ASSUME Typed, Typed', Calm, Accept
  PROVE  TidyMaps' /\ TidyThreads' /\ TidyLogs'
<1> USE DEF Typed
<1>1. TidyMaps /\ TidyThreads /\ TidyLogs
  BY DEF Calm, TidyParts
<1>2. /\ pc["service"] = "drop" /\ pc'["service"] = "send" /\ UserStill
      /\ UNCHANGED <<maps, alive>>
  BY AcceptDoes DEF UserStill
<1>3. CASE UNCHANGED <<network, inbox>>
  BY <1>2, <1>3, MapsKept, NothingGoes, TidyQuiet
<1>4. CASE ~UNCHANGED <<network, inbox>>
  <2>1. PICK c \in Conn, p \in Listener :
           /\ OthersStay(c) /\ conn'[c].owner = conn[c].owner /\ conn'[c].read = conn[c].read
           /\ Sends(p, <<Signal("connected", c, 0)>>)
    BY <1>4, AcceptDoes
  <2>2. NetGrows
    BY AcceptGrows DEF Calm
  <2>3. \A d \in Conn : conn'[d].owner = conn[d].owner /\ conn'[d].read = conn[d].read
    BY <2>1 DEF OthersStay
  <2>4. \A q : /\ Putting(q)' <=> Putting(q)
               /\ \A d : Joining(q, d)' <=> Joining(q, d)
    BY <1>2 DEF UserStill, Putting, Joining
  <2>5. ASSUME NEW q \in Port \ Listener PROVE LogParts(q)' /\ (Putting(q)' => coming'[q] = <<>>)
    <3>1. LogParts(q) /\ (Putting(q) => coming[q] = <<>>)
      BY <1>1 DEF TidyLogs
    <3>2. Log(q)' = Log(q) /\ coming'[q] = coming[q]
      <4>1. q # p
        OBVIOUS
      <4> QED BY <2>1, <4>1 DEF Log, Sends
    <3>3. ConnKeep(q)
      BY <2>2, <2>3, GrowsConnKeep
    <3>4. \A d : ~Leaving(q, d)'
      BY <1>2, NothingGoes
    <3>5. LogParts(q)'
      BY <1>2, <2>3, <2>4, <3>1, <3>2, <3>3, <3>4, LogKept
    <3> QED BY <2>4, <3>1, <3>2, <3>5
  <2>6. TidyMaps' /\ TidyThreads'
    BY <1>1, <1>2, <2>4, MapsKept, NothingGoes, TidyMapsStill, TidyThreadsStill
  <2> QED BY <2>5, <2>6 DEF TidyLogs
<1> HIDE DEF Typed
<1> QED BY <1>3, <1>4

\* The service closes the socket of a connection.
LEMMA TidyClose ==
  ASSUME Typed, Typed', Calm, CloseSocket("service")
  PROVE  TidyMaps' /\ TidyThreads' /\ TidyLogs'
<1> USE DEF Typed
<1>1. TidyMaps /\ TidyThreads /\ TidyLogs /\ Places
  BY DEF Calm, TidyParts
<1>2. PICK p, fd : p = at["service"].port /\ fd = at["service"].fd
  OBVIOUS
<1>3. /\ pc["service"] = "close" /\ p \in Port /\ fd \in Fd
      /\ pc'["service"] = "removeSocket" /\ at'["service"].port = p
      /\ at'["service"].conn = file[fd].conn
      /\ UserStill /\ FileBecomes(fd, "free", None)
      /\ UNCHANGED <<maps, inbox, alive>>
  BY <1>1, <1>2, CloseSocketDoes DEF UserStill, Thread
<1>4. \A c \in Conn : /\ conn'[c].fd = conn[c].fd /\ conn'[c].sent = conn[c].sent
                      /\ conn'[c].read = conn[c].read /\ conn'[c].owner = conn[c].owner
                      /\ conn[c].state = "closed" => conn'[c].state = "closed"
  BY <1>1, <1>2, CloseSocketDoes DEF Thread
<1>5. \A q : /\ Putting(q)' <=> Putting(q)
             /\ \A d : Joining(q, d)' <=> Joining(q, d)
  BY <1>3 DEF UserStill, Putting, Joining
<1>6. TidyMaps'
  BY <1>1, <1>3, MapsKept, TidyMapsStill
<1>7. TidyThreads'
  <2>1. \A q : ~Dropping("service", q)' /\ (Removing("service", q)' => q = p)
    BY <1>3 DEF Dropping, Removing
  <2>2. ~Putting(p)
    BY <1>2, <1>3 DEF Calm, Nested, Closing
  <2> QED BY <1>5, <2>1, <2>2 DEF TidyThreads
<1>8. ASSUME NEW q \in Port \ Listener PROVE LogParts(q)' /\ (Putting(q)' => coming'[q] = <<>>)
  <2>1. LogParts(q) /\ (Putting(q) => coming[q] = <<>>)
    BY <1>1 DEF TidyLogs
  <2>2. Log(q)' = Log(q) /\ coming' = coming
    BY <1>3 DEF Log, inbox
  <2>3. ConnKeep(q)
    <3>1. \A c \in Conn : conn[c].read <= conn'[c].read
      BY <1>4 DEF FilesTyped, ConnSet
    <3>2. \A c \in Conn, f \in Fd : file'[f].conn = c => file[f].conn = c
      BY <1>3, Numbers DEF FileBecomes
    <3> QED BY <1>4, <3>1, <3>2 DEF ConnKeep
  <2>4. \A c \in Conn : Leaving(q, c)' => \E f \in Fd : file[f].conn = c
    BY <1>3 DEF Leaving
  <2>5. LogParts(q)'
    BY <1>3, <1>4, <1>5, <2>1, <2>2, <2>3, <2>4, LogKept
  <2> QED BY <1>5, <2>1, <2>2, <2>5
<1> HIDE DEF Typed
<1> QED BY <1>6, <1>7, <1>8 DEF TidyLogs

LEMMA LogMore ==
  ASSUME SignalsTyped, NEW p \in Port, NEW more \in Seq(SignalSet), signals'[p] = signals[p],
         coming'[p] = coming[p] \o more
  PROVE  Log(p)' = Log(p) \o more
<1> DEFINE a == signals[p]
           b == coming[p]
<1>1. a \in Seq(SignalSet) /\ b \in Seq(SignalSet)
  BY DEF SignalsTyped
<1> HIDE DEF a, b
<1>2. (a \o b) \o more = a \o (b \o more)
  BY <1>1, ConcatAssociative
<1> QED BY <1>2 DEF Log, a, b

\* The service reads the lines that have arrived.
LEMMA TidyRecv ==
  ASSUME Typed, Typed', Calm, Recv
  PROVE  TidyMaps' /\ TidyThreads' /\ TidyLogs'
<1> USE DEF Typed
<1>1. TidyMaps /\ TidyThreads /\ TidyLogs /\ Places
  BY DEF Calm, TidyParts
<1>2. PICK p, fd, c : p = at["service"].port /\ fd = at["service"].fd /\ c = file[fd].conn
  OBVIOUS
<1>3. /\ pc["service"] = "recv" /\ p \in Port /\ fd \in Fd /\ c \in Conn \cup {None}
      /\ Rests("visit") /\ Got(c) \in Seq(SignalSet)
      /\ p \in alive => Sends(p, Got(c))
      /\ p \notin alive => UNCHANGED inbox
      /\ c = None => conn' = conn
      /\ UNCHANGED <<maps, file, alive>>
  BY <1>1, <1>2, RecvDoes
<1>4. \A d \in Conn :
        /\ d # c => conn'[d] = conn[d]
        /\ conn'[d].state = conn[d].state /\ conn'[d].owner = conn[d].owner
        /\ conn'[d].fd = conn[d].fd /\ conn'[d].sent = conn[d].sent
        /\ d = c => conn'[d].read = conn[d].sent
  BY <1>1, <1>2, RecvDoes
<1>5. UserStill /\ pc'["service"] = "visit"
  BY <1>3 DEF Rests, UserStill
<1>6. \A q : /\ Putting(q)' <=> Putting(q)
             /\ \A d : Joining(q, d)' <=> Joining(q, d)
  BY <1>5 DEF UserStill, Putting, Joining
<1>7. TidyMaps' /\ TidyThreads'
  BY <1>1, <1>3, <1>5, <1>6, MapsKept, NothingGoes, TidyMapsStill, TidyThreadsStill
<1>8. ~Putting(p)
  <2>1. p \in Slots
    <3>1. slotLocked /\ index <= Len(slotIdMap) /\ slotIdMap[index].key = p
      BY <1>2, <1>3 DEF Calm, Iterates
    <3>2. index \in 1 .. Len(slotIdMap) + 1
      BY <3>1 DEF Calm, Iterates
    <3>3. index \in 1 .. Len(slotIdMap)
      <4>1. Len(slotIdMap) \in Nat
        BY DEF MapsTyped
      <4> HIDE DEF Typed
      <4> QED BY <3>1, <3>2, <4>1
    <3> QED BY <3>1, <3>3, SlotAt
  <2> QED BY <1>3, <2>1 DEF Calm, Nested, Dropping
<1>9. IF p \in Listener THEN c = None ELSE c # None /\ conn[c].owner = p
  <2>1. p \in Sockets /\ GetSocket(p) = fd
    BY <1>2, <1>3 DEF Calm, OwnParts, HandOwn
  <2>2. Own(p, fd)
    BY <1>3, <2>1 DEF Calm, OwnParts, OwnSockets, SocketOwn
  <2>3. file[fd].kind = "listen" => file[fd].conn = None
    BY <1>3 DEF Calm, OneDescriptor
  <2> QED BY <1>2, <1>3, <2>2, <2>3 DEF Own, Listening, ConnOf
<1>10. \A d \in Conn : conn[d].read \in Nat /\ conn[d].read <= conn'[d].read
  <2>1. \A d \in Conn : /\ conn[d].read \in Nat /\ conn[d].read <= conn[d].sent
                        /\ conn[d].read <= conn[d].read
    BY DEF FilesTyped, ConnSet, Calm, OneDescriptor
  <2> QED BY <1>4, <2>1
<1>11. \A q \in Port : ConnKeep(q)
  BY <1>3, <1>4, <1>10 DEF ConnKeep
<1>12. \A q, d : ~Leaving(q, d)'
  BY <1>5, NothingGoes
<1>13. ASSUME NEW q \in Port \ Listener PROVE LogParts(q)' /\ (Putting(q)' => coming'[q] = <<>>)
  <2>1. LogParts(q) /\ (Putting(q) => coming[q] = <<>>)
    BY <1>1 DEF TidyLogs
  <2>2. CASE q = p /\ p \in alive
    <3>1. c \in Conn /\ conn[c].owner = p /\ Got(c) = Lines(c)
      BY <1>3, <1>9, <2>2 DEF Got
    <3>2. Log(q)' = Log(q) \o Lines(c)
      <4>1. Lines(c) \in Seq(SignalSet)
        BY <1>3, <3>1
      <4>2. signals'[q] = signals[q] /\ coming'[q] = coming[q] \o Lines(c)
        BY <1>3, <2>2, <3>1 DEF Sends
      <4> QED BY <4>1, <4>2, LogMore
    <3>3. \A d : ~Joining(q, d)'
      BY <1>6, <1>8, <2>2 DEF Joining
    <3>4. \E f \in Fd : file[f].conn = c
      BY <1>2, <1>3
    <3>5. OneDescriptor
      BY DEF Calm
    <3>6. file' = file /\ alive' = alive
      BY <1>3
    <3>7. LogParts(q)'
      BY <1>4, <1>8, <1>12, <2>1, <2>2, <3>1, <3>2, <3>3, <3>4, <3>5, <3>6, LogLines
    <3> QED BY <1>6, <1>8, <2>2, <3>7
  <2>3. ASSUME q # p \/ p \notin alive PROVE LogParts(q)' /\ (Putting(q)' => coming'[q] = <<>>)
    <3>1. Log(q)' = Log(q) /\ coming'[q] = coming[q]
      BY <1>3, <2>3 DEF Log, Sends, inbox
    <3>2. \A d \in Conn : conn'[d].owner = q =>
            \/ conn[d].owner = q /\ conn'[d].read = conn[d].read
            \/ q \notin alive'
      BY <1>3, <1>4, <1>9, <2>3, Numbers
    <3>3. LogParts(q)'
      BY <1>3, <1>6, <1>11, <1>12, <2>1, <3>1, <3>2, LogKept
    <3> QED BY <1>6, <2>1, <3>1, <3>3
  <2> QED BY <2>2, <2>3
<1> HIDE DEF Typed
<1> QED BY <1>7, <1>13 DEF TidyLogs

\* The service has taken a port out of the maps, and says so.
LEMMA TidyForgets ==
  ASSUME Typed, Typed', Calm, RemoveSlot("service")
  PROVE  TidyMaps' /\ TidyThreads' /\ TidyLogs'
<1> USE DEF Typed
<1>1. TidyMaps /\ TidyThreads /\ TidyLogs /\ Places
  BY DEF Calm, TidyParts
<1>2. PICK p, c : p = at["service"].port /\ c = at["service"].conn
  OBVIOUS
<1>3. /\ pc["service"] = "removeSlot" /\ p \in Port
      /\ pc'["service"] = "drop" /\ UserStill
      /\ Sockets' = Sockets /\ Ids' = Ids /\ Slots' = Slots \ {p}
      /\ p \notin alive => UNCHANGED inbox
      /\ p \in alive => Sends(p, <<Signal("disconnected", c, 0)>>)
      /\ UNCHANGED <<network, alive>>
  BY <1>1, <1>2, RemoveSlotDoes DEF UserStill, Thread
<1>4. Removing("service", p) /\ Dropping("service", p) /\ \A d : Leaving(p, d) <=> d = c
  BY <1>2, <1>3 DEF Removing, Dropping, Leaving
<1>5. p \notin Sockets /\ ~Putting(p)
  BY <1>1, <1>3, <1>4 DEF TidyThreads
<1>6. \A q : /\ Putting(q)' <=> Putting(q)
             /\ \A d : Joining(q, d)' <=> Joining(q, d)
  BY <1>3 DEF UserStill, Putting, Joining
<1>7. TidyMaps'
  BY <1>1, <1>3, <1>5, <1>6 DEF TidyMaps, UserStill
<1>8. TidyThreads'
  BY <1>1, <1>3, <1>6, NothingGoes, TidyThreadsStill
<1>9. GoneOwn(p)
  BY <1>3 DEF Calm, OwnParts
<1>10. c \in Conn
  BY <1>2, <1>4, <1>9 DEF GoneOwn, Finished
<1>11. \A q, d : ~Leaving(q, d)'
  BY <1>3, NothingGoes
<1>12. ASSUME NEW q \in Port \ Listener PROVE LogParts(q)' /\ (Putting(q)' => coming'[q] = <<>>)
  <2>1. LogParts(q) /\ (Putting(q) => coming[q] = <<>>)
    BY <1>1 DEF TidyLogs
  <2>2. CASE q = p /\ p \in alive
    <3> DEFINE end == <<Signal("disconnected", c, 0)>>
    <3>1. Log(q)' = Log(q) \o end
      <4>1. end \in Seq(SignalSet)
        <5>1. Signal("disconnected", c, 0) \in SignalSet
          BY <1>10, SignalIs
        <5> QED BY <5>1
      <4>2. signals'[q] = signals[q] /\ coming'[q] = coming[q] \o end
        BY <1>3, <2>2 DEF Sends
      <4> HIDE DEF end
      <4> QED BY <4>1, <4>2, LogMore
    <3>2. \A d : ~Joining(q, d)'
      BY <1>5, <1>6, <2>2 DEF Joining
    <3>3. OneDescriptor
      BY DEF Calm
    <3>4. LogParts(q)'
      BY <1>3, <1>4, <1>5, <1>9, <1>10, <1>11, <2>1, <2>2, <3>1, <3>2, <3>3, LogDisconnected
    <3> QED BY <1>5, <1>6, <2>2, <3>4
  <2>3. ASSUME q # p \/ p \notin alive PROVE LogParts(q)' /\ (Putting(q)' => coming'[q] = <<>>)
    <3>1. Log(q)' = Log(q) /\ coming'[q] = coming[q]
      BY <1>3, <2>3 DEF Log, Sends, inbox
    <3>2. LogParts(q)'
      BY <1>3, <1>6, <1>11, <2>1, <3>1, LogStill
    <3> QED BY <1>6, <2>1, <3>1, <3>2
  <2> QED BY <2>2, <2>3
<1> HIDE DEF Typed
<1> QED BY <1>7, <1>8, <1>12 DEF TidyLogs

LEMMA TidyService ==
  ASSUME Typed, Typed', Places, Iterates, NumbersGrow, EachDroppedOnce, Nested, OneDescriptor,
         SocketsOwn, Tidy, ServiceMoves
  PROVE  Tidy'
<1> SUFFICES ASSUME Undisturbed', Patient PROVE TidyMaps' /\ TidyThreads' /\ TidyLogs'
  BY TidyThen
<1>1. left' = left
  <2>1. CASE Write
    BY <2>1, WriteDoes DEF Typed, history
  <2>2. CASE ~Write
    BY <2>2 DEF ServiceMoves, TakeMessage, Lock, Visit, FindSocket, Recv, Unlock, Drop, Accept,
                CloseSocket, RemoveSocket, RemoveId, RemoveSlot, history
  <2> QED BY <2>1, <2>2
<1>2. Calm
  BY <1>1, SocketsOwnIs, TidyIs DEF Undisturbed, Calm
<1> QED BY <1>2, TidyFinds, TidyAccept, TidyClose, TidyRecv, TidyForgets DEF ServiceMoves

-----------------------------------------------------------------------------
(* The invariant *)

LEMMA RangeNone ==
  ASSUME NEW S
  PROVE  \A s \in Seq(S) : Len(s) = 0 => Range(s) = {}
<1> SUFFICES ASSUME NEW s \in Seq(S), Len(s) = 0 PROVE Range(s) = {}
  OBVIOUS
<1>1. Range(s) = {s[i] : i \in 1 .. Len(s)}
  BY RangeIs
<1> QED BY <1>1

LEMMA Begin ==
  ASSUME Init
  PROVE  Typed /\ pc["user"] = "idle" /\ pc["service"] = "send" /\ Sockets = {} /\ Ids = {} /\ Slots = {}
         /\ \A t \in Thread : at[t] = Idle
<1>1. MapsTyped /\ Sockets = {} /\ Ids = {} /\ Slots = {}
  <2>1. portSocketMap = Map!Empty /\ portIdMap = Map!Empty /\ slotIdMap = Map!Empty
    BY DEF Init
  <2>2. Map!Empty = <<>>
    BY DEF Map!Empty
  <2>3. Paired(Map!Empty)
    <3>1. Sound(Map!Empty, Port)
      BY EmptyIs
    <3>2. Entries(Map!Empty) = {}
      BY <2>2 DEF Entries
    <3> QED BY <3>1, <3>2 DEF Paired
  <2>4. Sound(Map!Empty, Fd) /\ Map!Keys(Map!Empty) = {}
    BY EmptyIs
  <2> QED BY <2>1, <2>3, <2>4, MapsSound DEF Sockets, Ids, Slots
<1>2. QueuesTyped /\ SignalsTyped
  BY DEF Init, QueuesTyped, SignalsTyped
<1>3. pc["user"] = "idle" /\ pc["service"] = "send" /\ \A t \in Thread : at[t] = Idle
  BY DEF Init, Thread
<1>4. ThreadsTyped
  <2>1. pc \in [Thread -> Label]
    BY DEF Init, Thread, Label
  <2>2. Idle \in AtSet
    BY DEF Idle, AtSet
  <2>3. at = [t \in Thread |-> Idle]
    BY DEF Init
  <2> QED BY <2>1, <2>2, <2>3 DEF ThreadsTyped
<1>5. FilesTyped
  <2>1. file = [fd \in Fd |-> Free] /\ conn = [c \in Conn |-> NoConn]
    BY DEF Init
  <2> QED BY <2>1, FreeIs, NoConnIs DEF FilesTyped
<1>6. HistoryTyped
  BY DEF Init, HistoryTyped
<1>7. LoopTyped
  <2>1. Cardinality(Port) \in Nat
    BY <1>1, SlotCount
  <2>2. slotLocked = FALSE /\ index = 0
    BY DEF Init
  <2>3. \A n \in Nat : 0 \in 0 .. n + 1
    OBVIOUS
  <2> QED BY <2>1, <2>2, <2>3 DEF LoopTyped
<1> QED BY <1>1, <1>2, <1>3, <1>4, <1>5, <1>6, <1>7 DEF Typed

LEMMA BeginOwn == ASSUME Init PROVE OwnParts
<1>1. pc["user"] = "idle" /\ pc["service"] = "send" /\ Sockets = {}
  BY Begin
<1>2. outQueue = <<>> /\ toDisconnect = <<>> /\ written = [p \in Port |-> <<>>]
      /\ conn = [c \in Conn |-> NoConn]
  BY DEF Init
<1>3. OwnSockets
  BY <1>1 DEF OwnSockets
<1>4. Range(toDisconnect) = {}
  <2>1. Len(toDisconnect) = 0 /\ toDisconnect \in Seq(Port)
    BY <1>2
  <2> QED BY <2>1, RangeNone
<1>5. \A p \in Port : PutOwn(p) /\ EndOwn(p) /\ GoneOwn(p)
  BY <1>1, <1>4 DEF PutOwn, EndOwn, GoneOwn, Putting, Removing
<1>6. HandOwn
  BY <1>1 DEF HandOwn
<1>7. UnownedRest
  BY <1>2, NoConnIs DEF UnownedRest
<1>8. OwnWritten
  BY <1>2 DEF OwnWritten
<1>9. QueueServed
  BY <1>2 DEF QueueServed
<1> QED BY <1>3, <1>5, <1>6, <1>7, <1>8, <1>9 DEF OwnParts

LEMMA BeginTidy == ASSUME Init PROVE TidyParts
<1>1. /\ pc["user"] = "idle" /\ pc["service"] = "send" /\ Sockets = {}
      /\ conn = [c \in Conn |-> NoConn] /\ signals = [p \in Port |-> <<>>]
      /\ coming = [p \in Port |-> <<>>]
  BY Begin DEF Init
<1>2. \A p : ~Putting(p) /\ ~Removing("service", p) /\ ~Dropping("service", p)
  BY <1>1 DEF Putting, Removing, Dropping
<1>3. TidyMaps /\ TidyThreads
  BY <1>1, <1>2 DEF TidyMaps, TidyThreads
<1>4. ASSUME NEW p \in Port \ Listener PROVE LogParts(p)
  <2>1. Log(p) = <<>> /\ Len(Log(p)) = 0 /\ Log(p) \in Seq(SignalSet)
    BY <1>1 DEF Log
  <2>2. Heard(p) = {}
    BY <2>1, RangeNone DEF Heard
  <2>3. Ordered(conn, p, Log(p))
    BY <2>1 DEF Ordered
  <2>4. \A c \in Conn : conn[c].owner # p
    BY <1>1, NoConnIs, Numbers
  <2> QED BY <2>2, <2>3, <2>4 DEF LogParts, Known, Over, Once, Whole
<1> QED BY <1>2, <1>3, <1>4 DEF TidyParts, TidyLogs

LEMMA BeginInv == Init => Inv
<1> SUFFICES ASSUME Init PROVE Inv
  OBVIOUS
<1>1. /\ pc["user"] = "idle" /\ pc["service"] = "send" /\ Sockets = {} /\ Ids = {} /\ Slots = {}
      /\ Typed /\ at["service"] = Idle /\ at["user"] = Idle
  BY Begin DEF Thread
<1>2. /\ outQueue = <<>> /\ toDisconnect = <<>> /\ written = [p \in Port |-> <<>>]
      /\ slotLocked = FALSE /\ index = 0
      /\ file = [fd \in Fd |-> Free] /\ conn = [c \in Conn |-> NoConn]
      /\ ended.why = "no"
  BY DEF Init
<1>3. TypeOK
  BY <1>1, TypedIs
<1>4. Places
  BY <1>1 DEF Places, Thread, Idle
<1>5. Iterates
  BY <1>1, <1>2 DEF Iterates
<1>6. NumbersGrow
  BY <1>1, <1>2 DEF NumbersGrow
<1>7. EachDroppedOnce
  BY <1>1, <1>2 DEF EachDroppedOnce
<1>8. Nested
  <2>1. Len(toDisconnect) = 0 /\ toDisconnect \in Seq(Port)
    BY <1>2
  <2>2. Range(toDisconnect) = {}
    BY <2>1, RangeNone
  <2> QED BY <1>1, <2>2 DEF Nested, Putting, Closing, Dropping
<1>9. OneDescriptor
  <2>1. /\ \A fd \in Fd : file[fd].kind = "free" /\ file[fd].conn = None
        /\ \A c \in Conn : conn[c] = NoConn
    BY <1>2, FreeIs
  <2>2. NoConn.state = "none" /\ NoConn.read <= NoConn.sent
    BY NoConnIs
  <2> QED BY <2>1, <2>2 DEF OneDescriptor
<1>10. SocketsOwn
  BY BeginOwn, SocketsOwnIs
<1>11. Tidy
  BY BeginTidy, TidyIs
<1>12. EndsOnlyAfterLoss
  BY <1>2 DEF EndsOnlyAfterLoss
<1> QED BY <1>3, <1>4, <1>5, <1>6, <1>7, <1>8, <1>9, <1>10, <1>11, <1>12 DEF Inv

LEMMA StillInv == ASSUME Inv, UNCHANGED vars PROVE Inv'
<1>0. /\ UNCHANGED <<maps, queues, network, loop, inbox, history, calls, alive, pc, at, ended>>
      /\ UNCHANGED <<portSocketMap, portIdMap, slotIdMap, outQueue, acceptRequests, toDisconnect,
                     file, conn, slotLocked, index, coming, signals, written, asked, left>>
  BY DEF vars, maps, queues, network, loop, inbox, history
<1>1. TypeOK'
  BY <1>0 DEF Inv, TypeOK
<1>2. Places'
  BY <1>0 DEF Inv, Places
<1>3. Iterates'
  BY <1>0 DEF Inv, Iterates
<1>4. NumbersGrow'
  BY <1>0 DEF Inv, NumbersGrow
<1>5. EachDroppedOnce'
  BY <1>0 DEF Inv, EachDroppedOnce
<1>6. \A p : /\ Putting(p)' <=> Putting(p)
             /\ Closing("service", p)' <=> Closing("service", p)
             /\ Dropping("service", p)' <=> Dropping("service", p)
             /\ Removing("service", p)' <=> Removing("service", p)
             /\ GetSocket(p)' = GetSocket(p)
             /\ Lost(p)' <=> Lost(p)
  BY <1>0 DEF Putting, Closing, Dropping, Removing, GetSocket, Lost
<1>7. Sockets' = Sockets /\ Ids' = Ids /\ Slots' = Slots
  BY <1>0 DEF Sockets, Ids, Slots
<1>8. Nested'
  BY <1>0, <1>6, <1>7 DEF Inv, Nested
<1>9. OneDescriptor'
  BY <1>0 DEF Inv, OneDescriptor
<1>10. SocketsOwn'
  <2> SUFFICES ASSUME Undisturbed' PROVE OwnParts'
    BY SocketsOwnThen DEF OwnParts
  <2>1. OwnParts
    BY <1>0, SocketsOwnIs DEF Inv, Undisturbed
  <2>2. \A p, fd : Own(p, fd)' <=> Own(p, fd)
    BY <1>0 DEF Own, Listening, ConnOf
  <2>3. OwnSockets'
    BY <1>0, <1>6, <1>7, <2>1, <2>2 DEF OwnParts, OwnSockets, SocketOwn
  <2>4. \A p \in Port : PutOwn(p)'
    BY <1>0, <1>6, <2>1, <2>2 DEF OwnParts, PutOwn, ConnOf
  <2>5. \A p \in Port : EndOwn(p)' /\ GoneOwn(p)'
    BY <1>0, <1>6, <2>1 DEF OwnParts, EndOwn, GoneOwn, ConnOf, Finished
  <2>6. HandOwn'
    BY <1>0, <1>7, <2>1 DEF OwnParts, HandOwn, GetSocket
  <2>7. UnownedRest' /\ OwnWritten'
    BY <1>0, <2>1 DEF OwnParts, UnownedRest, OwnWritten
  <2>8. QueueServed'
    BY <1>0, <1>6, <1>7, <2>1 DEF OwnParts, QueueServed, Lost
  <2> QED BY <2>3, <2>4, <2>5, <2>6, <2>7, <2>8 DEF OwnParts
<1>11. Tidy'
  <2> SUFFICES ASSUME Undisturbed', Patient PROVE TidyMaps' /\ TidyThreads' /\ TidyLogs'
    BY TidyThen
  <2>1. Typed /\ Calm
    BY <1>0, TypedIs, SocketsOwnIs, TidyIs DEF Inv, Undisturbed, Calm
  <2>2. FilesTyped'
    BY <1>0, <2>1 DEF Typed, FilesTyped
  <2> QED BY <1>0, <1>7, <2>1, <2>2, StillIs, TidyQuiet
<1>12. EndsOnlyAfterLoss'
  BY <1>0 DEF Inv, EndsOnlyAfterLoss, Lost, Undisturbed
<1> QED BY <1>1, <1>2, <1>3, <1>4, <1>5, <1>8, <1>9, <1>10, <1>11, <1>12 DEF Inv

LEMMA StepInv == ASSUME Inv, Next PROVE Inv'
<1>1. /\ Typed /\ Places /\ Iterates /\ NumbersGrow /\ EachDroppedOnce /\ Nested /\ OneDescriptor
      /\ SocketsOwn /\ Tidy /\ EndsOnlyAfterLoss /\ Running /\ (UserMoves \/ ServiceMoves)
  BY TypedIs, Moves DEF Inv, Next
<1>2. Typed'
  BY <1>1, TypedUser, TypedService
<1>3. TypeOK'
  <2>1. (TypeOK <=> Typed)'
    BY TypedIs, PTL
  <2> QED BY <1>2, <2>1
<1>4. Places'
  BY <1>1, PlacesUser, PlacesService
<1>5. Iterates'
  BY <1>1, IteratesUser, IteratesService
<1>6. NumbersGrow'
  BY <1>1, NumbersUser, NumbersService
<1>7. EachDroppedOnce'
  BY <1>1, DroppedUser, DroppedService
<1>8. Nested'
  BY <1>1, NestedUser, NestedService
<1>9. OneDescriptor'
  BY <1>1, DescriptorUser, DescriptorService
<1>10. SocketsOwn'
  BY <1>1, <1>2, OwnUser, OwnService
<1>11. Tidy'
  BY <1>1, <1>2, TidyUser, TidyService
<1>12. EndsOnlyAfterLoss'
  BY <1>1, EndsStep
<1> QED BY <1>3, <1>4, <1>5, <1>6, <1>7, <1>8, <1>9, <1>10, <1>11, <1>12 DEF Inv

\* The two threads, the capsules and their peers keep the invariant: in particular, a
\* connection has at most one descriptor, a port is disconnected at most once for an end
\* of its connection, and, until some capsule calls disconnect, no thread reads, writes or
\* closes the descriptor of somebody else for a port.
THEOREM Invariance == Spec => []Inv
<1>1. Inv /\ [Next]_vars => Inv'
  BY StillInv, StepInv
<1> QED BY <1>1, BeginInv, PTL DEF Spec

\* The maps stay sorted, as the bisection needs, whatever the threads put in and take
\* out, and all variables have the values that the program gives them.
THEOREM Typing == Spec => []TypeOK
<1>1. Inv => TypeOK
  BY DEF Inv
<1> QED BY <1>1, Invariance, PTL

\* The messages of a port leave in the order in which its capsule sent them, none twice,
\* and on a connection of its own, as long as no capsule has called disconnect.
THEOREM Written == Spec => []WrittenInOrder
<1>1. Inv => WrittenInOrder
  <2> SUFFICES ASSUME Inv, NEW p \in Port, NEW i \in DOMAIN written[p]
               PROVE  /\ i > 1 => written[p][i - 1].n < written[p][i].n
                      /\ Undisturbed => conn[written[p][i].conn].owner = p
    BY DEF WrittenInOrder
  <2>1. written[p] \in Seq(WrittenSet)
    BY TypedIs DEF Inv, Typed, HistoryTyped
  <2>2. i \in 1 .. Len(written[p]) /\ (i > 1 => i - 1 \in 1 .. i - 1)
    BY <2>1
  <2>3. NumbersGrow /\ (Undisturbed => OwnWritten)
    BY SocketsOwnIs DEF Inv, OwnParts
  <2> QED BY <2>2, <2>3 DEF NumbersGrow, OwnWritten
<1> QED BY <1>1, Invariance, PTL

\* The service ends the process over a message only if its port's connection was closed, or
\* some capsule has called disconnect, and over a socket it reads only for a port whose
\* capsule has called disconnect.
THEOREM Endings == Spec => []EndsOnlyAfterLoss
<1>1. Inv => EndsOnlyAfterLoss
  BY DEF Inv
<1> QED BY <1>1, Invariance, PTL

\* The three maps agree while nothing is being put in or taken out, and every socket in
\* them is open and its port's own, until some capsule calls disconnect; this takes
\* capsules that wait for the end of their last connection before they connect again.
THEOREM Agreement == Patient => (Spec => []MapsAgree)
<1>1. Patient /\ Inv => MapsAgree
  <2> SUFFICES ASSUME Patient, Inv, Undisturbed, pc["user"] = "idle", at["service"].conn = None,
                      NEW p \in alive
               PROVE  /\ p \in Ids <=> p \in Sockets
                      /\ p \in Slots <=> p \in Sockets
                      /\ p \in Sockets => Own(p, GetSocket(p))
    BY DEF MapsAgree, Own, Ids, Slots, Sockets
  <2>1. p \in Port \ left
    BY TypedIs DEF Inv, Typed, HistoryTyped, Undisturbed
  <2>2. OwnParts /\ TidyParts
    BY SocketsOwnIs, TidyIs DEF Inv
  <2>3. ~Removing("service", p)
    <3>1. GoneOwn(p)
      BY <2>1, <2>2 DEF OwnParts
    <3> QED BY <3>1, Numbers DEF GoneOwn, Finished
  <2>4. ~Putting(p)
    BY DEF Putting
  <2>5. p \in Sockets => p \in Ids /\ p \in Slots
    BY <2>2, <2>4 DEF TidyParts, TidyMaps
  <2>6. Nested
    BY DEF Inv
  <2>7. (p \in Ids => p \in Sockets) /\ (p \in Slots => p \in Sockets)
    BY <2>1, <2>3, <2>6 DEF Nested, Dropping, Removing
  <2>8. p \in Sockets => Own(p, GetSocket(p))
    BY <2>2, <2>3 DEF OwnParts, OwnSockets, SocketOwn, Removing
  <2> QED BY <2>5, <2>7, <2>8
<1>2. ASSUME Patient PROVE Spec => []MapsAgree
  <2>1. Inv => MapsAgree
    BY <1>1, <1>2
  <2> QED BY <2>1, Invariance, PTL
<1> QED BY <1>2

\* A capsule that connects is told that its connection stands, each line of the peer, in
\* order, and the end, once and last, until some capsule calls disconnect; this takes
\* capsules that wait for the end of their last connection before they connect again.
THEOREM Telling == Patient => (Spec => []SignalsInOrder)
<1>1. Patient /\ Inv => SignalsInOrder
  <2> SUFFICES ASSUME Patient, Inv, Undisturbed, NEW p \in Port \ Listener
               PROVE  ToldInOrder(p, signals[p])
    BY DEF SignalsInOrder
  <2>1. Ordered(conn, p, signals[p] \o coming[p])
    BY TidyIs DEF Inv, TidyParts, TidyLogs, LogParts, Log
  <2>2. signals[p] \in Seq(SignalSet) /\ coming[p] \in Seq(SignalSet)
    BY TypedIs DEF Inv, Typed, SignalsTyped
  <2>3. Ordered(conn, p, signals[p])
    BY <2>1, <2>2, OrderedPrefix
  <2> QED BY <2>3, ToldIs
<1>2. ASSUME Patient PROVE Spec => []SignalsInOrder
  <2>1. Inv => SignalsInOrder
    BY <1>1, <1>2
  <2> QED BY <2>1, Invariance, PTL
<1> QED BY <1>2
=============================================================================
