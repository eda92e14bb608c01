----------------------------- MODULE MCIOManager -----------------------------
(* Small instances of IOManager.                                           *)
EXTENDS IOManager, TLC

CONSTANTS f1, f2, f3, l1, l2
==============================================================================
