---------------------------- MODULE Projections ----------------------------
(***************************************************************************)
(* The read side of crates/eventsourcing composed with the repository: a   *)
(* ProjectionRunner whose projections are fed, all at the same time, by    *)
(* the poll that calls drive_once(), by replay_all() and by replay() of    *)
(* one aggregate, while writers append to the store.                       *)
(*                                                                         *)
(* An event is its position in the global log, which is also its cursor    *)
(* key.  A projection is idempotent, as its doc demands: what counts is    *)
(* the set of events it has applied.                                       *)
(***************************************************************************)
EXTENDS EventRepository

CONSTANTS
  NumProjections,  \* projections, 1..NumProjections in registration order
  Tenant,          \* the aggregates whose events pass the tenant filter
  BatchSize

ASSUME ProjectionsAssumption ==
  /\ NumProjections \in Nat \ {0}
  /\ Tenant \subseteq Aggregates
  /\ BatchSize \in Nat \ {0}

VARIABLES
  todo,    \* per caller: the events it has fetched and not yet applied
  next,    \* per caller: the projection that gets the first of them
  cursor,  \* of drive_once() and replay_all(): the last event fully applied
  applied  \* per projection: the events it has applied

pvars == <<todo, next, cursor, applied>>

\* drive_once() in a poll, replay_all() and replay().
Callers == {"drive", "replay_all", "replay"}

ProjInit ==
  /\ RepoInit
  /\ todo = [k \in Callers |-> {}]
  /\ next = [k \in Callers |-> 1]
  /\ cursor = [k \in Callers |-> 0]
  /\ applied = [p \in 1..NumProjections |-> {}]

\* stream_all(): the next page of the tenant's events after the cursor.
StreamAll(after) ==
  LET rest == {i \in DOMAIN all : i > after /\ all[i].agg \in Tenant}
  IN  {i \in rest : Cardinality({j \in rest : j < i}) < BatchSize}

\* Mutant of FetchPage: only a full page is worth a call.
FetchPageWhenFull(k) ==
  /\ k # "replay" /\ todo[k] = {} /\ Cardinality(StreamAll(cursor[k])) = BatchSize
  /\ todo' = [todo EXCEPT ![k] = StreamAll(cursor[k])]
  /\ UNCHANGED <<next, cursor, applied, rvars>>

\* drive_once() and each turn of replay_all() fetch a page.
FetchPage(k) ==
  /\ k # "replay" /\ todo[k] = {} /\ StreamAll(cursor[k]) # {}
  /\ todo' = [todo EXCEPT ![k] = StreamAll(cursor[k])]
  /\ UNCHANGED <<next, cursor, applied, rvars>>

\* replay_all() returns once the stream is drained; a later call starts anew.
Drained ==
  /\ todo["replay_all"] = {} /\ cursor["replay_all"] > 0
  /\ StreamAll(cursor["replay_all"]) = {}
  /\ cursor' = [cursor EXCEPT !["replay_all"] = 0]
  /\ UNCHANGED <<todo, next, applied, rvars>>

\* replay() loads the whole stream of one aggregate.
FetchStream(a) ==
  /\ todo["replay"] = {} /\ streams[a] # <<>>
  /\ todo' = [todo EXCEPT !["replay"] = {i \in DOMAIN all : all[i].agg = a}]
  /\ UNCHANGED <<next, cursor, applied, rvars>>

\* The event whose turn it is: events are applied in the order of the log.
Turn(k, e) == e \in todo[k] /\ \A d \in todo[k] : e <= d

\* Mutant of ApplyOk: the loop over the projections runs one too far.
ApplyOkPastLast(k) ==
  \E e \in todo[k] :
    /\ Turn(k, e)
    /\ applied' = [applied EXCEPT ![next[k]] = @ \cup {e}]
    /\ next' = [next EXCEPT ![k] = @ + 1]
    /\ UNCHANGED <<todo, cursor, rvars>>

\* The projection that is next accepts the event; past the last projection
\* the event is done and the cursor moves onto it.
ApplyOk(k) ==
  \E e \in todo[k] :
    /\ Turn(k, e)
    /\ applied' = [applied EXCEPT ![next[k]] = @ \cup {e}]
    /\ IF next[k] < NumProjections
       THEN next' = [next EXCEPT ![k] = @ + 1] /\ UNCHANGED <<todo, cursor>>
       ELSE /\ next' = [next EXCEPT ![k] = 1]
            /\ todo' = [todo EXCEPT ![k] = @ \ {e}]
            /\ cursor' = IF k = "replay" THEN cursor ELSE [cursor EXCEPT ![k] = e]
    /\ UNCHANGED rvars

\* Mutant of ApplyErr: the poll goes on with the event after the failed one.
ApplyErrSkips(k) ==
  /\ Fault
  /\ todo' = [todo EXCEPT ![k] = {}]
  /\ next' = [next EXCEPT ![k] = 1]
  /\ \E e \in todo[k] :
       /\ Turn(k, e)
       /\ cursor' = [cursor EXCEPT ![k] = IF k = "drive" THEN e ELSE 0]
  /\ UNCHANGED <<applied, streams, all, snapshots, pc, mem, raised>>

\* It fails: the rest of the page is dropped.  drive_once() keeps the cursor
\* it has reached, replay_all() returns the error in its place.
ApplyErr(k) ==
  /\ todo[k] # {} /\ Fault
  /\ todo' = [todo EXCEPT ![k] = {}]
  /\ next' = [next EXCEPT ![k] = 1]
  /\ cursor' = [cursor EXCEPT ![k] = IF k = "drive" THEN @ ELSE 0]
  /\ UNCHANGED <<applied, streams, all, snapshots, pc, mem, raised>>

-----------------------------------------------------------------------------
Caller(k) ==
  \/ FetchPage(k) \/ ApplyOk(k) \/ ApplyErr(k)
  \/ k = "replay_all" /\ Drained
  \/ k = "replay" /\ \E a \in Aggregates : FetchStream(a)

ProjNext ==
  \/ RepoNext /\ UNCHANGED pvars
  \/ \E k \in Callers : Caller(k)

ProjSpec == ProjInit /\ [][ProjNext]_<<rvars, pvars>>

Poll == FetchPage("drive") \/ ApplyOk("drive")

\* The application keeps calling drive_once(), and projections return.
FairProjSpec == ProjSpec /\ WF_<<rvars, pvars>>(Poll)

-----------------------------------------------------------------------------
(* Properties *)

ProjTypeOK ==
  /\ RepoTypeOK
  /\ todo \in [Callers -> SUBSET DOMAIN all]
  /\ next \in [Callers -> 1..NumProjections]
  /\ cursor \in [Callers -> 0..Len(all)]
  /\ applied \in [1..NumProjections -> SUBSET DOMAIN all]

\* Wherever projections fail and whichever of the three callers overtakes
\* another: the cursor never passes an event that a projection still lacks,
\* no projection has an event of an aggregate without every earlier event of
\* that aggregate, and none is ahead of a projection registered before it.
NoProjectionGap ==
  \A p \in 1..NumProjections :
    /\ \A i \in 1..cursor["drive"] : all[i].agg \in Tenant => i \in applied[p]
    /\ \A i \in applied[p] : \A j \in 1..i : all[j].agg = all[i].agg => j \in applied[p]
    /\ p > 1 => applied[p] \subseteq applied[p - 1]

\* Every event of the tenant that is appended reaches every projection, also
\* when projections fail on the way.
CatchesUp ==
  \A i \in EventIds :
    (i \in DOMAIN all /\ all[i].agg \in Tenant) ~> \A p \in 1..NumProjections : i \in applied[p]
=============================================================================
