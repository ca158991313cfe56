------------------------------ MODULE MCTimers ------------------------------
(* Small instances of Timers: two controllers, two timers.                 *)
EXTENDS Timers, TLC

CONSTANTS c1, c2, t1, t2

Two       == {c1, c2}
Timers2   == {t1, t2}
Forward   == {1}
Also      == {TRUE, FALSE}
Delays1   == {1, 2}
=============================================================================
