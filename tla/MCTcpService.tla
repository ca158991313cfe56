---------------------------- MODULE MCTcpService ----------------------------
(* Instances of TcpService: one or two capsules that connect, or attach,    *)
(* and one that listens.                                                    *)
EXTENDS TcpService, TLC

Ports     == {1, 2}
First     == {1}
Second    == {2}
Three     == {1, 2, 3}
Third     == {3}
Nobody    == {}
Two       == 3 .. 4
ThreeFds  == 3 .. 5
=============================================================================
