----------------------------- MODULE MCIdleLoop -----------------------------
(* Small instances of IdleLoop.                                            *)
EXTENDS IdleLoop, TLC

CONSTANTS w1, w2, owner

\* One thread with more work; two threads and an owner who adds timers.
OneAndTwo ==
    {[threads |-> {w1}, ownerTimers |-> FALSE, work |-> 4],
     [threads |-> {w1, w2}, ownerTimers |-> TRUE, work |-> 2]}

\* The pools of the questions that have a negative answer.
Single == {[threads |-> {w1}, ownerTimers |-> FALSE, work |-> 1]}
=============================================================================
