--------------------------- MODULE MCTimerManager ---------------------------
(* Small instances of TimerManager.  Loopers are interchangeable, and so   *)
(* are clients; the symmetry is used where only safety is checked.         *)
EXTENDS TimerManager, TLC

CONSTANTS t1, t2, l1, l2, c1, c2

Symmetry == Permutations(Looper) \cup Permutations(Client)
=============================================================================
