------------------------------ MODULE MCHookIO ------------------------------
(* Instances of HookIO for TLC. *)
EXTENDS HookIO, TLC

CONSTANTS f1, f2, s1, s2

MCAccepted == s1 :> 0

\* The fibers are interchangeable.
Symmetry == Permutations(Fiber)

=============================================================================
