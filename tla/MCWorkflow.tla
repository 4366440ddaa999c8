----------------------------- MODULE MCWorkflow -----------------------------
(***************************************************************************)
(* Workflow on small definitions: every acyclic and cyclic graph over three*)
(* plain nodes, and hand-picked definitions with gates and tasks.          *)
(***************************************************************************)
EXTENDS Workflow

Shape(deps, ff, comp, gates) ==
  [depends_on |-> deps, fire_and_forget |-> ff, condition |-> {}, compensatable |-> comp,
   gate |-> gates, stop_on_error |-> FALSE, duplicate |-> FALSE]

Plain == <<NoGate, NoGate, NoGate>>

\* Every graph over three nodes, one of which may be fire-and-forget.
Graphs3 ==
  { Shape(<<a, b, c>>, ff, {1, 2, 3}, Plain) :
      a \in SUBSET {2, 3}, b \in SUBSET {1, 3}, c \in SUBSET {1, 2}, ff \in {{}, {1}} }

\* Conditions, policies, and names that are refused.
Variants ==
  { [Shape(<<{}, {}, {1, 2}, {3}>>, ff, {1, 2, 3}, Plain \o <<NoGate>>)
       EXCEPT !.condition = cond, !.stop_on_error = stop] :
      ff \in {{}, {2}}, cond \in {{2}, {3}}, stop \in BOOLEAN }
  \cup { [Shape(<<{}, {1}>>, {}, {}, <<NoGate, NoGate>>) EXCEPT !.duplicate = TRUE],
         Shape(<<{}, {0}>>, {}, {}, <<NoGate, NoGate>>) }

Wait(mode, signals, timer, timeout) ==
  [mode |-> mode, signals |-> signals, timer |-> timer, timeout |-> timeout]

One(s) == Wait("all", <<s>>, FALSE, FALSE)

\* Receivers that compete for signals within and across waves and tasks.
Gates ==
  { Shape(<<{}, {}, {1}>>, ff, {1, 2, 3}, <<g1, g2, g3>>) :
      ff \in {{}, {1}, {2}},
      g1 \in {One("s1"), Wait("any", <<"s1", "s2">>, FALSE, FALSE)},
      g2 \in {NoGate, One("s1"), Wait("all", <<"s1", "s2">>, FALSE, TRUE)},
      g3 \in {One("s2"), Wait("any", <<"s2", "s1">>, TRUE, FALSE)} }

MCWorkflows == Graphs3 \cup Variants \cup Gates
=============================================================================
