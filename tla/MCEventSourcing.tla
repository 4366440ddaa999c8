--------------------------- MODULE MCEventSourcing ---------------------------
(***************************************************************************)
(* The parts of crates/eventsourcing in one run.  The repository and the   *)
(* projections are explored under two kinds of load: all writers competing *)
(* for one aggregate, with enough events for two snapshots of it, beside   *)
(* the poll; and one writer of several aggregates beside the poll and one  *)
(* rebuild.  The outbox shares no state with them: it has behaviours of    *)
(* its own, in which they rest in their initial state.                     *)
(***************************************************************************)
EXTENDS Projections, Outbox

VARIABLE load  \* who is active in this behaviour, and the events it raises

esVars == <<rvars, pvars>>

Some(S) == {CHOOSE x \in S : TRUE}

Loads ==
  { [writers |-> Writers, aggs |-> Some(Aggregates), callers |-> {"drive"},
     events |-> MaxEvents] }
  \cup
  { [writers |-> Some(Writers), aggs |-> Aggregates, callers |-> {"drive", rebuild},
     events |-> MaxEvents - 1] : rebuild \in {"replay", "replay_all"} }

\* The load of a behaviour of the outbox.
Relaying == [writers |-> {}, aggs |-> {}, callers |-> {}, events |-> 0]

MCInit == ProjInit /\ OutboxInit /\ load \in Loads \cup {Relaying}

MCNext ==
  /\ \/ /\ \E w \in load.writers : Writer(w) /\ mem'[w].agg \in load.aggs
        /\ raised' <= load.events
        /\ UNCHANGED <<pvars, outboxVars>>
     \/ \E k \in load.callers : Caller(k) /\ UNCHANGED outboxVars
     \/ load = Relaying /\ OutboxNext /\ UNCHANGED esVars
  /\ UNCHANGED load

\* The fairness of FairProjSpec and OutboxFairSpec.
MCSpec ==
  /\ MCInit /\ [][MCNext]_<<esVars, outboxVars, load>>
  /\ WF_esVars("drive" \in load.callers /\ Poll)
  /\ \A r \in Relays : /\ WF_outboxVars(load = Relaying /\ RelayStep(r))
                       /\ WF_outboxVars(load = Relaying /\ StopStep(r))
=============================================================================
