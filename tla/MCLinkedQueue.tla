--------------------------- MODULE MCLinkedQueue ---------------------------
(* A small instance of LinkedQueue: port instances 0 and 1.  No action     *)
(* tells the elements apart but by the lists they are on, so exchanging    *)
(* them is a symmetry.                                                     *)
EXTENDS LinkedQueue, TLC

CONSTANTS r1, m1, m2, m3, m4

Remotes  == {r1}
Elements == {m1, m2, m3, m4}
Indexes  == {0, 1}
OneId    == {0}
TwoIds   == {0, 1}

Symmetry == Permutations(Elements)
=============================================================================
