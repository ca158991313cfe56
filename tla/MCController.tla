---------------------------- MODULE MCController ----------------------------
(* A small instance of Controller: one remote thread beside the            *)
(* controller's own, which sends as a remote one does at first, one timer. *)
EXTENDS Controller

CONSTANTS r1, t1

Thread1  == {r1}
Timer1   == {t1}
Exit     == {"exit"}
=============================================================================
