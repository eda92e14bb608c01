----------------------------- MODULE MCScheduler -----------------------------
(* Small instances of Scheduler: the threads and jobs the configurations    *)
(* build the constants from.                                               *)
EXTENDS Scheduler, TLC

CONSTANTS w1, w2, j1, j2, caller

\* Workers and jobs are interchangeable.
Symmetry == Permutations({w1, w2}) \cup Permutations({j1, j2})
==============================================================================
