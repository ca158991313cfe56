----------------------------- MODULE PointerMap -----------------------------
(***************************************************************************)
(* A UMLRTHashMap whose keys are pointers, compared by their difference,   *)
(* which compareValue returns as an int: portToName of UMLRTProtocol and   *)
(* timerQueues are such maps.  As long as all keys lie closer together     *)
(* than half of the range of an int, the map is a dictionary.              *)
(***************************************************************************)
EXTENDS Integers, Sequences

CONSTANTS Key,     \* addresses
          Object,  \* addresses of other things
          Bits     \* the width of an int

ASSUME WidthAssumption == Bits \in Nat \ {0}

ASSUME SpanAssumption ==
  /\ Key \subseteq Nat /\ Object \subseteq Nat \ {0}
  /\ \A k1, k2 \in Key : k1 - k2 < 2 ^ (Bits - 1)

Null == 0

AsInt(n, bits) ==
  LET low == n % 2 ^ bits IN IF low < 2 ^ (bits - 1) THEN low ELSE low - 2 ^ bits

\* Mutant of CompareValue: the difference is kept in one bit less.
CompareShort(k1, k2) == AsInt(k1 - k2, Bits - 1)

CompareValue(k1, k2) == AsInt(k1 - k2, Bits)

Map == INSTANCE HashMap WITH Compare <- CompareValue, Missing <- Null

VARIABLES map,     \* the array
          answer   \* what the last operation returned

Init == map = Map!Empty /\ answer = Null

Insert(key, object) == map' = Map!Insert(map, key, object) /\ answer' = Null

Remove(key) ==
  /\ map' = Map!Remove(map, key)
  /\ answer' = IF Map!Found(map, key) THEN map[Map!Locate(map, key) + 1].key ELSE Null

GetObject(key) == answer' = Map!GetObject(map, key) /\ UNCHANGED map

Next ==
  \E key \in Key : Remove(key) \/ GetObject(key) \/ \E object \in Object : Insert(key, object)

Spec == Init /\ [][Next]_<<map, answer>>

-----------------------------------------------------------------------------
Content == [k \in Map!Keys(map) |-> (CHOOSE e \in {map[i] : i \in DOMAIN map} : e.key = k).object]

Promise == INSTANCE Dictionary WITH content <- Content, Missing <- Null

\* Searching by bisection and shifting entries give what a dictionary gives: no key is
\* lost, doubled, or found under another one.
ImplementsDictionary == Promise!Spec
=============================================================================
