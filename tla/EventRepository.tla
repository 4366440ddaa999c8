--------------------------- MODULE EventRepository ---------------------------
(***************************************************************************)
(* Event-sourced aggregates of crates/eventsourcing: the event store with  *)
(* its optimistic append, the repository that loads an aggregate from a    *)
(* snapshot and the events after it, and the snapshot store whose save     *)
(* replaces whatever is there.                                             *)
(*                                                                         *)
(* An event is a number given when it is raised, with the version the      *)
(* aggregate stamps on it.  The state of an aggregate is the sequence of   *)
(* the events folded into it, so that a lost, repeated or misplaced event  *)
(* shows.  Each call on a store is one step: the memory store runs it      *)
(* under its lock, the SQL store in one transaction.                       *)
(***************************************************************************)
EXTENDS Integers, Sequences, FiniteSets

LOCAL INSTANCE SequencesExt

CONSTANTS
  Aggregates,       \* ids of the aggregates
  Writers,          \* callers of the repository
  None,             \* no snapshot, no view
  SnapshotInterval, \* snapshot_interval of with_snapshots()
  Reload,           \* the caller drops an aggregate whose save() failed
  MaxEvents,        \* bound: events raised in a behaviour
  MaxPending,       \* bound: uncommitted events of an aggregate
  MaxFaults         \* bound: calls on stores and projections that fail

ASSUME RepositoryAssumption ==
  /\ Aggregates # {} /\ None \notin [agg : Aggregates, base : Seq(Nat)]
  /\ SnapshotInterval \in Nat \ {0}
  /\ Reload \in BOOLEAN
  /\ MaxEvents \in Nat /\ MaxPending \in Nat /\ MaxFaults \in Nat

VARIABLES
  streams,   \* per aggregate: its stored events
  all,       \* the global log: aggregate and version, in append order
  snapshots, \* per aggregate: the latest snapshot
  pc,        \* per writer: where its load() or save() is
  mem,       \* per writer: the aggregate it holds
  raised,    \* events raised so far, the source of event numbers
  faults     \* calls that failed

rvars == <<streams, all, snapshots, pc, mem, raised, faults>>

Ids(events) == [i \in DOMAIN events |-> events[i].id]

\* A fresh root: version 0, nothing buffered.
NewRoot(a) == [agg |-> a, version |-> 0, state |-> <<>>, uncommitted |-> <<>>]

\* What a writer that holds no aggregate leaves in mem.
NoRoot == NewRoot(CHOOSE a \in Aggregates : TRUE)

RepoInit ==
  /\ streams = [a \in Aggregates |-> <<>>]
  /\ all = <<>>
  /\ snapshots = [a \in Aggregates |-> None]
  /\ pc = [w \in Writers |-> "idle"]
  /\ mem = [w \in Writers |-> NoRoot]
  /\ raised = 0
  /\ faults = 0

Fault == faults < MaxFaults /\ faults' = faults + 1

Goto(w, label) == pc' = [pc EXCEPT ![w] = label]

-----------------------------------------------------------------------------
(* load() *)

\* The latest snapshot is restored, and its version becomes the root's.
LoadSnapshot(w, a) ==
  /\ pc[w] = "idle"
  /\ mem' = [mem EXCEPT ![w] =
       IF snapshots[a] = None THEN NewRoot(a)
       ELSE [NewRoot(a) EXCEPT !.version = snapshots[a].version,
                               !.state = snapshots[a].payload]]
  /\ Goto(w, "loading")
  /\ UNCHANGED <<streams, all, snapshots, raised, faults>>

\* Mutant of LoadAfter: the event of the snapshot's own version is replayed too.
LoadAfterInclusive(a, since) ==
  LET older == {i \in DOMAIN streams[a] : streams[a][i].version < since}
  IN  SubSeq(streams[a], Cardinality(older) + 1, Len(streams[a]))

\* The events of later versions.  They are the last of the stream: it is in
\* version order.
LoadAfter(a, since) ==
  LET older == {i \in DOMAIN streams[a] : streams[a][i].version <= since}
  IN  SubSeq(streams[a], Cardinality(older) + 1, Len(streams[a]))

\* The events after the snapshot are folded in.  With neither snapshot nor
\* event load() returns None and the caller starts with a new root, which is
\* what mem then holds.
LoadEvents(w) ==
  /\ pc[w] = "loading"
  /\ LET events == LoadAfter(mem[w].agg, mem[w].version)
     IN  mem' = [mem EXCEPT ![w].state = @ \o Ids(events),
                            ![w].version = IF events = <<>> THEN @
                                           ELSE events[Len(events)].version]
  /\ Goto(w, "held")
  /\ UNCHANGED <<streams, all, snapshots, raised, faults>>

-----------------------------------------------------------------------------
(* The aggregate in memory *)

\* A command raises an event and applies it.
Raise(w) ==
  /\ pc[w] = "held"
  /\ raised < MaxEvents /\ Len(mem[w].uncommitted) < MaxPending
  /\ raised' = raised + 1
  /\ mem' = [mem EXCEPT ![w].version = @ + 1,
                        ![w].state = Append(@, raised'),
                        ![w].uncommitted =
                          Append(@, [id |-> raised', version |-> mem[w].version + 1])]
  /\ UNCHANGED <<streams, all, snapshots, pc, faults>>

\* The aggregate goes out of scope, load() returns an error, its future or that of
\* save() is dropped, or the process crashes between two store calls.
Abandon(w) ==
  /\ pc[w] # "idle"
  /\ Goto(w, "idle")
  /\ mem' = [mem EXCEPT ![w] = NoRoot]
  /\ UNCHANGED <<streams, all, snapshots, raised, faults>>

-----------------------------------------------------------------------------
(* save() *)

Pending(w) == Len(mem[w].uncommitted)
Expected(w) == mem[w].version - Pending(w)

\* The head append() compares with: stream length, or MAX(version) in SQL.
HeadVersion(a) == Len(streams[a])

\* The batch crosses a multiple of the interval.
Crossed(w) == mem[w].version \div SnapshotInterval > Expected(w) \div SnapshotInterval

Accepts(w) == Expected(w) = HeadVersion(mem[w].agg)

\* append() succeeds: the drained events enter the stream and the global log.
\* An append that is committed although the caller is told of an error is this
\* step followed by Abandon, which drops the aggregate.
SaveAppend(w) ==
  /\ pc[w] = "held" /\ Pending(w) > 0
  /\ Accepts(w)
  /\ LET a == mem[w].agg
         events == mem[w].uncommitted
     IN  /\ streams' = [streams EXCEPT ![a] = @ \o events]
         /\ all' = all \o [i \in DOMAIN events |-> [agg |-> a, version |-> events[i].version]]
  /\ mem' = [mem EXCEPT ![w].uncommitted = <<>>]
  /\ Goto(w, IF Crossed(w) THEN "snapshot" ELSE "held")
  /\ UNCHANGED <<snapshots, raised, faults>>

\* save() returns an error: the aggregate stays as it is, or the caller drops
\* it to load it again.
SaveFails(w) ==
  IF Reload
  THEN Goto(w, "idle") /\ mem' = [mem EXCEPT ![w] = NoRoot]
  ELSE Goto(w, "held") /\ mem' = [mem EXCEPT ![w].uncommitted = <<>>]

\* Mutant of SaveConflict: the snapshot is written although append() failed.
SaveConflictSnapshots(w) ==
  /\ pc[w] = "held" /\ Pending(w) > 0
  /\ ~Accepts(w)
  /\ mem' = [mem EXCEPT ![w].uncommitted = <<>>]
  /\ Goto(w, IF Crossed(w) THEN "snapshot" ELSE "held")
  /\ UNCHANGED <<streams, all, snapshots, raised, faults>>

\* append() finds another head: Concurrency, after the buffer was drained.
SaveConflict(w) ==
  /\ pc[w] = "held" /\ Pending(w) > 0
  /\ ~Accepts(w)
  /\ SaveFails(w)
  /\ UNCHANGED <<streams, all, snapshots, raised, faults>>

\* append() cannot reach the database: nothing is stored, the buffer drained.
SaveAppendErr(w) ==
  /\ pc[w] = "held" /\ Pending(w) > 0
  /\ Fault
  /\ SaveFails(w)
  /\ UNCHANGED <<streams, all, snapshots, raised>>

\* The snapshot of the in-memory state replaces the one stored, which may be
\* of a later version.
SaveSnapshot(w) ==
  /\ pc[w] = "snapshot"
  /\ snapshots' = [snapshots EXCEPT ![mem[w].agg] =
                     [version |-> mem[w].version, payload |-> mem[w].state]]
  /\ Goto(w, "held")
  /\ UNCHANGED <<streams, all, mem, raised, faults>>

\* The snapshot store fails: save() returns an error although the events are
\* stored.
SaveSnapshotErr(w) ==
  /\ pc[w] = "snapshot"
  /\ Fault
  /\ SaveFails(w)
  /\ UNCHANGED <<streams, all, snapshots, raised>>

-----------------------------------------------------------------------------
Writer(w) ==
  \/ \E a \in Aggregates : LoadSnapshot(w, a)
  \/ LoadEvents(w) \/ Raise(w) \/ Abandon(w)
  \/ SaveAppend(w) \/ SaveConflict(w) \/ SaveAppendErr(w)
  \/ SaveSnapshot(w) \/ SaveSnapshotErr(w)

RepoNext == \E w \in Writers : Writer(w)

RepoSpec == RepoInit /\ [][RepoNext]_rvars

-----------------------------------------------------------------------------
(* Properties *)

EventIds == 1..MaxEvents
Versions == 0..MaxEvents

RepoTypeOK ==
  /\ streams \in [Aggregates -> Seq([id : EventIds, version : Versions])]
  /\ all \in Seq([agg : Aggregates, version : Versions])
  /\ snapshots \in [Aggregates -> {None} \cup [version : Versions, payload : Seq(EventIds)]]
  /\ pc \in [Writers -> {"idle", "loading", "held", "snapshot"}]
  /\ mem \in [Writers -> [agg : Aggregates, version : Versions, state : Seq(EventIds),
                          uncommitted : Seq([id : EventIds, version : Versions])]]
  /\ raised \in 0..MaxEvents
  /\ faults \in 0..MaxFaults

\* A snapshot, whoever wrote it last and however late, is the fold of exactly
\* the first `version` events of the stream, and a snapshot is taken only of
\* events that are stored; so load() may start from any of them.
SnapshotFaithful ==
  \A a \in Aggregates :
    snapshots[a] # None =>
      /\ snapshots[a].version > 0
      /\ snapshots[a].version = Len(snapshots[a].payload)
      /\ IsPrefix(snapshots[a].payload, Ids(streams[a]))

\* The doc of AggregateRoot::raise: "The event is buffered until
\* EventStore::append persists it".  An event that an aggregate in memory has
\* folded in is in its stream or still in its buffer.
BufferedUntilPersisted ==
  \A w \in Writers :
    pc[w] # "idle" =>
      \A e \in ToSet(mem[w].state) :
        \/ e \in ToSet(Ids(streams[mem[w].agg]))
        \/ e \in ToSet(Ids(mem[w].uncommitted))

\* The log a writer's aggregate was built from.
Base(w) == SubSeq(mem[w].state, 1, Len(mem[w].state) - Pending(w))

Log == INSTANCE EventLog WITH
  NoView <- None,
  log <- [a \in Aggregates |-> Ids(streams[a])],
  view <- [w \in Writers |-> IF pc[w] \in {"held", "snapshot"}
                             THEN [agg |-> mem[w].agg, base |-> Base(w)] ELSE None]

\* Versions, snapshots and the two reads of load() give what EventLog says:
\* load() returns one consistent copy of the stream although a snapshot and
\* the events after it are read apart, and save() extends exactly the history
\* the aggregate was built from, never one that only has the same length.
ImplementsEventLog == Log!LogSpec
=============================================================================
