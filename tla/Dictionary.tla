----------------------------- MODULE Dictionary -----------------------------
(***************************************************************************)
(* What a UMLRTHashMap promises: at most one object for each key, the last *)
(* one inserted, until the key is removed.                                 *)
(***************************************************************************)
EXTENDS Functions

CONSTANTS Key, Object, Missing

VARIABLES content,  \* object by key
          answer    \* what the last operation returned

Init == content = <<>> /\ answer = Missing

Insert(key, object) ==
  /\ content' = [k \in DOMAIN content \cup {key} |-> IF k = key THEN object ELSE content[k]]
  /\ answer' = Missing

Remove(key) ==
  /\ content' = Restrict(content, DOMAIN content \ {key})
  /\ answer' = IF key \in DOMAIN content THEN key ELSE Missing

GetObject(key) ==
  /\ answer' = IF key \in DOMAIN content THEN content[key] ELSE Missing
  /\ UNCHANGED content

Next ==
  \E key \in Key : Remove(key) \/ GetObject(key) \/ \E object \in Object : Insert(key, object)

Spec == Init /\ [][Next]_<<content, answer>>
=============================================================================
