-------------------------- MODULE MCSignalElement --------------------------
(* Small instances of SignalElement: two threads, two elements.            *)
EXTENDS SignalElement, TLC

CONSTANTS a, b, s1, s2, s3, e1, e2

Threads  == {a, b}
Signals  == {s1, s2, s3}
Elements == {e1, e2}
Sizes    == {"small", "large"}

Symmetry == Permutations(Threads) \cup Permutations(Signals) \cup Permutations(Elements)
=============================================================================
