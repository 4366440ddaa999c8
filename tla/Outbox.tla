-------------------------------- MODULE Outbox --------------------------------
(***************************************************************************)
(* The transactional outbox of crates/eventsourcing: enqueue(), start(),   *)
(* stop() and the background relay, with callers that start and stop it at *)
(* the same time.                                                          *)
(*                                                                         *)
(* start() runs under the task mutex and is one step.  stop() takes the    *)
(* handle under the mutex, then signals, then awaits the task: three       *)
(* steps.  The poll interval ends at some moment.                          *)
(***************************************************************************)
EXTENDS Integers, Sequences, FiniteSets

CONSTANTS
  MaxStarts,    \* bound: relay tasks that start() spawns
  MaxRecords,   \* bound: records enqueued
  MaxAttempts   \* max_attempts

ASSUME OutboxAssumption ==
  /\ MaxStarts \in Nat /\ MaxRecords \in Nat /\ MaxAttempts \in Nat \ {0}

VARIABLES
  records,  \* the queue: attempts and delivered of each record, newest last
  task,     \* the handle that start() stores
  stop,     \* the value of the watch channel
  handle,   \* per relay: who has its handle
  at,       \* per relay: where relay_loop() is
  batch,    \* per relay: those of its copy of the pending records still to publish
  raced     \* start() spawned a relay while a stop() was under way (history)

outboxVars == <<records, task, stop, handle, at, batch, raced>>

Relays == 1..MaxStarts
NoRelay == 0

Live == {r \in Relays : at[r] \in {"checking", "publishing", "waiting"}}
Stopping == {r \in Relays : handle[r] \in {"taken", "awaited"}}

\* The relay tasks are numbered in the order of their spawning.
Fresh(r) == at[r] = "unborn" /\ \A q \in 1..(r - 1) : at[q] # "unborn"

\* send() on the watch channel: without a receiver, and only a live relay has
\* one, it fails and leaves the value alone.
Send(value) == stop' = IF Live # {} THEN value ELSE stop

Unsettled(rec) == ~rec.delivered /\ rec.attempts < MaxAttempts

OutboxInit ==
  /\ records = <<>>
  /\ task = NoRelay
  /\ stop = FALSE
  /\ handle = [r \in Relays |-> "none"]
  /\ at = [r \in Relays |-> "unborn"]
  /\ batch = [r \in Relays |-> {}]
  /\ raced = FALSE

-----------------------------------------------------------------------------
(* The callers *)

Enqueue ==
  /\ Len(records) < MaxRecords
  /\ records' = Append(records, [attempts |-> 0, delivered |-> FALSE])
  /\ UNCHANGED <<task, stop, handle, at, batch, raced>>

\* Mutant of Start: a second start() is not a no-op.
StartAgain(r) ==
  /\ Fresh(r)
  /\ Send(FALSE)
  /\ task' = r
  /\ handle' = [handle EXCEPT ![r] = "task"]
  /\ at' = [at EXCEPT ![r] = "checking"]
  /\ raced' = (raced \/ Stopping # {})
  /\ UNCHANGED <<records, batch>>

\* start() with no handle stored: resets the stop, if the send can, and spawns
\* a relay with a receiver of its own.  With a handle it is a no-op, whether
\* that relay still runs or not.
Start(r) ==
  /\ task = NoRelay /\ Fresh(r)
  /\ Send(FALSE)
  /\ task' = r
  /\ handle' = [handle EXCEPT ![r] = "task"]
  /\ at' = [at EXCEPT ![r] = "checking"]
  /\ raced' = (raced \/ Stopping # {})
  /\ UNCHANGED <<records, batch>>

\* stop(), first part: the handle is taken.  Without one stop() is a no-op.
StopTake(r) ==
  /\ task = r
  /\ task' = NoRelay
  /\ handle' = [handle EXCEPT ![r] = "taken"]
  /\ UNCHANGED <<records, stop, at, batch, raced>>

\* stop(), second part.
StopSignal(r) ==
  /\ handle[r] = "taken"
  /\ Send(TRUE)
  /\ handle' = [handle EXCEPT ![r] = "awaited"]
  /\ UNCHANGED <<records, task, at, batch, raced>>

\* stop() returns: the task has ended.
StopJoin(r) ==
  /\ handle[r] = "awaited" /\ at[r] = "ended"
  /\ handle' = [handle EXCEPT ![r] = "joined"]
  /\ UNCHANGED <<records, task, stop, at, batch, raced>>

-----------------------------------------------------------------------------
(* relay_loop() *)

\* The top of the loop sees the stop.
RelayExit(r) ==
  /\ at[r] = "checking" /\ stop
  /\ at' = [at EXCEPT ![r] = "ended"]
  /\ UNCHANGED <<records, task, stop, handle, batch, raced>>

\* Mutant of RelayScan: exhausted records are tried again.
RelayScanAll(r) ==
  /\ at[r] = "checking" /\ ~stop
  /\ batch' = [batch EXCEPT ![r] = {i \in DOMAIN records : ~records[i].delivered}]
  /\ at' = [at EXCEPT ![r] = "publishing"]
  /\ UNCHANGED <<records, task, stop, handle, raced>>

\* The pending records are copied under the lock.
RelayScan(r) ==
  /\ at[r] = "checking" /\ ~stop
  /\ batch' = [batch EXCEPT ![r] = {i \in DOMAIN records : Unsettled(records[i])}]
  /\ at' = [at EXCEPT ![r] = "publishing"]
  /\ UNCHANGED <<records, task, stop, handle, raced>>

\* The for loop over the copy is at record i: oldest first.
Publishes(r, i) ==
  /\ at[r] = "publishing" /\ i \in batch[r] /\ \A j \in batch[r] : i <= j
  /\ batch' = [batch EXCEPT ![r] = @ \ {i}]

\* The sink takes the event.
PublishOk(r) ==
  /\ \E i \in batch[r] :
       Publishes(r, i) /\ records' = [records EXCEPT ![i].delivered = TRUE]
  /\ UNCHANGED <<task, stop, handle, at, raced>>

\* Mutant of PublishErr: the attempt is counted before and after the call.
PublishErrTwice(r) ==
  /\ \E i \in batch[r] :
       Publishes(r, i) /\ records' = [records EXCEPT ![i].attempts = @ + 2]
  /\ UNCHANGED <<task, stop, handle, at, raced>>

\* Mutant of PublishErr: the failed attempt is not counted.
PublishErrUncounted(r) ==
  /\ \E i \in batch[r] : Publishes(r, i)
  /\ UNCHANGED <<records, task, stop, handle, at, raced>>

\* The sink fails: one attempt more.
PublishErr(r) ==
  /\ \E i \in batch[r] :
       Publishes(r, i) /\ records' = [records EXCEPT ![i].attempts = @ + 1]
  /\ UNCHANGED <<task, stop, handle, at, raced>>

RelaySleep(r) ==
  /\ at[r] = "publishing" /\ batch[r] = {}
  /\ at' = [at EXCEPT ![r] = "waiting"]
  /\ UNCHANGED <<records, task, stop, handle, batch, raced>>

\* Mutant of RelayWake: the interval alone ends the wait, and the loop scans
\* without looking at the stop.
RelayWakeBlind(r) ==
  /\ at[r] = "waiting"
  /\ at' = [at EXCEPT ![r] = "publishing"]
  /\ UNCHANGED <<records, task, stop, handle, batch, raced>>

\* changed() or the interval ends the wait: changed() leaves the loop if the
\* value is now true, and so does the top of the loop after the interval.
RelayWake(r) ==
  /\ at[r] = "waiting"
  /\ at' = [at EXCEPT ![r] = IF stop THEN "ended" ELSE "checking"]
  /\ UNCHANGED <<records, task, stop, handle, batch, raced>>

-----------------------------------------------------------------------------
RelayStep(r) ==
  \/ RelayExit(r) \/ RelayScan(r) \/ PublishOk(r) \/ PublishErr(r)
  \/ RelaySleep(r) \/ RelayWake(r)

StopStep(r) == StopSignal(r) \/ StopJoin(r)

OutboxNext ==
  \/ Enqueue
  \/ \E r \in Relays : Start(r) \/ StopTake(r) \/ StopStep(r) \/ RelayStep(r)

OutboxSpec == OutboxInit /\ [][OutboxNext]_outboxVars

\* Tasks are scheduled, the sink answers and the poll interval ends.
OutboxFairSpec ==
  /\ OutboxSpec
  /\ \A r \in Relays : WF_outboxVars(RelayStep(r)) /\ WF_outboxVars(StopStep(r))

-----------------------------------------------------------------------------
(* Properties *)

\* Record i is neither delivered nor a dead letter, and the outbox is started.
Waiting(i) == i \in DOMAIN records /\ Unsettled(records[i]) /\ task # NoRelay

OutboxTypeOK ==
  /\ records \in Seq([attempts : 0..(MaxAttempts + MaxStarts - 1), delivered : BOOLEAN])
  /\ Len(records) <= MaxRecords
  /\ task \in Relays \cup {NoRelay}
  /\ stop \in BOOLEAN
  /\ handle \in [Relays -> {"none", "task", "taken", "awaited", "joined"}]
  /\ at \in [Relays -> {"unborn", "checking", "publishing", "waiting", "ended"}]
  /\ batch \in [Relays -> SUBSET DOMAIN records]
  /\ raced \in BOOLEAN

\* start() and stop() may be called in any order and number: as long as no
\* start() falls into a stop() that is under way, at most one relay is alive,
\* and it is the one that is stored in `task` or being stopped.
OneRelay ==
  ~raced => /\ Cardinality(Live) <= 1
            /\ \A r \in Live : r = task \/ r \in Stopping

\* A record that is delivered is not published again, and a dead letter stays
\* one: the copy a relay works from is stale only if there are two relays.
SettledIsFinal ==
  [][\A i \in DOMAIN records :
       ~raced /\ ~Unsettled(records[i]) => records'[i] = records[i]]_outboxVars

\* From the first start() to the first stop(), every record that is enqueued is
\* delivered or becomes a dead letter, whatever the sink does.
RecordsSettle ==
  \A i \in 1..MaxRecords : Waiting(i) /\ task = 1 ~> ~Waiting(i) \/ task # 1

\* What stop() and relay_loop() say of the signal: it is retained, so a stop is
\* never missed and stop() returns once its relay has exited.
StopNeverMissed ==
  \A r \in Relays : r \in Stopping ~> r \notin Stopping

\* stop() waits for its relay, and the relay observes the stop wherever it is
\* in its cycle, as long as no start() falls into a stop(): see the run of
\* StopNeverMissed for one that does.
StopReturns ==
  \A r \in Relays : r \in Stopping ~> r \notin Stopping \/ raced

\* What start() is for, and what its comment says of "restarting after a
\* previous stop": a started outbox settles its records, whether it is the
\* first start or a later one, as long as the calls do not overlap.
RestartRelays ==
  \A i \in 1..MaxRecords : Waiting(i) ~> ~Waiting(i) \/ raced
=============================================================================
