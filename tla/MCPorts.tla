------------------------------ MODULE MCPorts ------------------------------
(* Instances of Ports: a home that is linked to a plugin slot, two of another *)
(* class with a larger port, of which one is linked to Main as is the other  *)
(* plugin slot.                                                              *)
EXTENDS Ports

CONSTANTS main, a, c, d, p1, p2

Homes  == {a, c, d}
Plugs  == {p1, p2}
Far    == {a, c}
Bigger == {c, d}
Widths == [s \in {main} \cup Homes \cup Plugs |-> IF s = main THEN 2 ELSE 1]
Links  == {<<End(main, 1), End(p2, 1)>>, <<End(main, 2), End(d, 1)>>,
           <<End(a, 1), End(p1, 1)>>}
=============================================================================
