------------------------------ MODULE MCFrame ------------------------------
(* Instances of Frame: two controllers, the first of which runs the main   *)
(* program, with its slots, and two capsules.                              *)
EXTENDS Frame, TLC

CONSTANTS A, B, o1, o2, p1, x1, x2

TwoControllers == {A, B}
TwoCapsules    == {x1, x2}
TwoSlots       == {o1, o2}
OneSlot        == {o1}
OnePlug        == {p1}
NoPlug         == {}
Both           == {"fixed", "plug"}
FixedOnly      == {"fixed"}
Main           == [s \in OptSlot \cup PlugSlot |-> A]
Alike          == Permutations(TwoSlots) \cup Permutations(TwoCapsules)
=============================================================================
