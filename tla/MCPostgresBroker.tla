-------------------------- MODULE MCPostgresBroker --------------------------
(* Small instances of PostgresBroker for TLC. *)
EXTENDS PostgresBroker, TLC

CONSTANTS h2, order

\* h2 subscribes to "*", every other handler to orders only.
MCPattern == [h \in Handlers |-> IF h = h2 THEN Kinds ELSE {order}]

MCSymmetry == Permutations(Replicas)
=============================================================================
