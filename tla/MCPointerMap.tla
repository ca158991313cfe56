---------------------------- MODULE MCPointerMap ----------------------------
(* Instance of PointerMap: six addresses that span just under half of the   *)
(* range of an int.                                                         *)
EXTENDS PointerMap

Keys    == {1, 2, 4, 5, 7, 8}
Objects == {20, 21}
=============================================================================
