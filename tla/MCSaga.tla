------------------------------- MODULE MCSaga -------------------------------
(* Small instances of Saga for TLC. *)
EXTENDS Saga

Def(deps, comp, groups, p, attempts, dup) ==
  [depends_on |-> deps, compensable |-> comp, group |-> groups, policy |-> p,
   max_attempts |-> attempts, duplicate |-> dup]

Ungrouped(n) == [i \in 1..n |-> NoGroup]

\* Every dependency graph over three steps, self, unknown (0) and cyclic
\* dependencies included, with a sequential rollback.
MCGraphs ==
  {Def(deps, 1..3, Ungrouped(3), "BestEffort", 1, dup) :
     deps \in [1..3 -> SUBSET (0..3)], dup \in {FALSE}}
  \cup {Def(<<{}, {1}, dep>>, {1, 3}, Ungrouped(3), "StopOnError", 1, TRUE) : dep \in {{}, {2}}}

\* Four steps in insertion order and in a diamond declared backwards.
Shapes == {<<{}, {}, {}, {}>>, <<{2, 3}, {4}, {4}, {}>>}

\* Every policy, with and without a gap in the compensations; groups that are
\* contiguous in the execution order and groups that are not.
MCPolicies ==
  {Def(deps, comp, groups, p, 2, FALSE) :
     deps \in Shapes, comp \in {1..4, {1, 3, 4}},
     groups \in {<<"g", "g", NoGroup, "h">>, <<NoGroup, "g", "g", NoGroup>>, <<"g", "h", "g", "h">>},
     p \in Policies}

\* Long enough for the rollback's circuit to open with work left.
MCLong ==
  {Def([i \in 1..6 |-> {}], 1..6, Ungrouped(6), "CircuitBreaker", 1, FALSE)}

MCSagas == MCGraphs \cup MCPolicies \cup MCLong
=============================================================================
