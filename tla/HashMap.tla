------------------------------ MODULE HashMap ------------------------------
(***************************************************************************)
(* UMLRTHashMap, which is not hashed: an array of entries in the order of  *)
(* their keys, searched by bisection.  A map is the sequence of its        *)
(* entries; locations count from 0, as in the code.  Every operation       *)
(* holds the map's mutex, so each is one step of the modules that use it.  *)
(***************************************************************************)
EXTENDS Integers, Sequences

Ext == INSTANCE SequencesExt

CONSTANTS Compare(_, _),  \* the comparison given to the constructor
          Missing         \* the NULL that getObject returns for no entry

Empty == <<>>

Entry(key, object) == [key |-> key, object |-> object]

Keys(map) == {map[i].key : i \in 1 .. Len(map)}

\* locate: the location of the key, or where it belongs.
Locate(map, key) ==
  LET size == Len(map)
      order(location) == Compare(map[location + 1].key, key)
      Between[range \in (0 .. size) \X (-1 .. size - 1)] ==
        LET min == range[1]  max == range[2]  mid == (min + max) \div 2 IN
        CASE min > max /\ min < size - 1 /\ order(min) < 0 -> min + 1
          [] min > max /\ ~(min < size - 1 /\ order(min) < 0) -> min
          [] min <= max /\ order(mid) = 0 -> mid
          [] min <= max /\ order(mid) < 0 ->
               IF mid + 1 >= size THEN size ELSE Between[<<mid + 1, max>>]
          [] OTHER -> IF mid - 1 < 0 THEN 0 ELSE Between[<<min, mid - 1>>]
  IN Between[<<0, size - 1>>]

Found(map, key) ==
  LET location == Locate(map, key)
  IN  location < Len(map) /\ Compare(map[location + 1].key, key) = 0

GetObject(map, key) ==
  IF Found(map, key) THEN map[Locate(map, key) + 1].object ELSE Missing

\* Mutant of Insert: one place too far, as if locate gave the entry before.
InsertAfter(map, key, object) ==
  LET i == Locate(map, key) + 1
  IN  IF Found(map, key) THEN [map EXCEPT ![i].object = object]
      ELSE IF i > Len(map) THEN Append(map, Entry(key, object))
      ELSE Ext!InsertAt(map, i + 1, Entry(key, object))

\* insert: an entry that exists keeps its key and gets the new object.
Insert(map, key, object) ==
  LET i == Locate(map, key) + 1
  IN  IF Found(map, key) THEN [map EXCEPT ![i].object = object]
      ELSE Ext!InsertAt(map, i, Entry(key, object))

Remove(map, key) ==
  IF Found(map, key) THEN Ext!RemoveAt(map, Locate(map, key) + 1) ELSE map

\* What the bisection needs: each key is before the next one.
InOrder(map) ==
  \A i \in 1 .. Len(map) - 1 : Compare(map[i].key, map[i + 1].key) < 0
=============================================================================
