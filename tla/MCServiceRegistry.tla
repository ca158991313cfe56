------------------------- MODULE MCServiceRegistry -------------------------
(* Instances of ServiceRegistry: four SAPs, one of them automatic and      *)
(* locked, and two SPPs with one and two far ends.                         *)
EXTENDS ServiceRegistry, TLC

CONSTANTS a1, a2, a3, a4, p1, p2, alarm, clock

Saps       == {a1, a2, a3, a4}
Spps       == {p1, p2}
Services   == {alarm, clock}
FarEnds    == p1 :> 1 @@ p2 :> 2
LockedSaps == {a3}
AutoNames  == [p \in {a1, a2, a4, p1, p2} |-> NONE] @@ a3 :> alarm
All        == Saps \X Spps
=============================================================================
