------------------------------ MODULE EventLog ------------------------------
(***************************************************************************)
(* What an event-sourced repository promises, without versions, snapshots  *)
(* or pages: per aggregate one log that only grows, and writers that read  *)
(* the whole log in one step and may extend it only while it still is what *)
(* they read.                                                              *)
(***************************************************************************)
EXTENDS Sequences, SequencesExt

CONSTANTS
  Aggregates,  \* ids of the aggregates
  Writers,     \* callers that load, change and save aggregates
  NoView       \* the view of a writer that holds no aggregate

VARIABLES
  log,   \* per aggregate: its committed events, in order
  view   \* per writer: the aggregate it holds and the log that it was read from

logvars == <<log, view>>

LogInit ==
  /\ log = [a \in Aggregates |-> <<>>]
  /\ view = [w \in Writers |-> NoView]

\* A writer takes a consistent copy of one aggregate.
Read(w, a) ==
  /\ view[w] = NoView
  /\ view' = [view EXCEPT ![w] = [agg |-> a, base |-> log[a]]]
  /\ UNCHANGED log

\* A writer extends the log it has read; the events are new to every log.
Commit(w) ==
  /\ view[w] # NoView
  /\ LET a == view[w].agg
     IN  /\ view[w].base = log[a]
         /\ IsStrictPrefix(log[a], log'[a])
         /\ \A b \in Aggregates \ {a} : log'[b] = log[b]
         /\ \A i \in DOMAIN log'[a] :
              i > Len(log[a]) => \A b \in Aggregates : log'[a][i] \notin ToSet(log[b])
         /\ view' = [view EXCEPT ![w].base = log'[a]]

Drop(w) ==
  /\ view' = [view EXCEPT ![w] = NoView]
  /\ UNCHANGED log

LogNext == \E w \in Writers : (\E a \in Aggregates : Read(w, a)) \/ Commit(w) \/ Drop(w)

LogSpec == LogInit /\ [][LogNext]_logvars
=============================================================================
