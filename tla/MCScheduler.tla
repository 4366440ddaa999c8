---------------------------- MODULE MCScheduler ----------------------------
(* Scheduler with two loops on one instance and a third on another. *)
EXTENDS Scheduler

CONSTANTS i1, i2, l1, l2, l3

MCHome == [l \in Loops |-> IF l = l3 THEN i2 ELSE i1]
=============================================================================
