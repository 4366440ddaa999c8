--------------------------- MODULE PostgresBroker ---------------------------
(***************************************************************************)
(* The Postgres event broker of crates/eda-postgres: a durable outbox      *)
(* table, one cursor row for a consumer group, NOTIFY wake-ups with a poll *)
(* fallback, and one drain task per replica gated by a session-scoped      *)
(* advisory lock.                                                          *)
(*                                                                         *)
(* One consumer group is modelled, shared by all Replicas (processes).     *)
(* Every replica owns one query connection (`client`) that carries its     *)
(* inserts, its drain queries and its advisory lock, and one LISTEN        *)
(* connection.  The query connection is never re-established; the LISTEN   *)
(* connection is.                                                          *)
(*                                                                         *)
(* A row's destination and event type are abstracted to a `kind`: Selected *)
(* is the set of kinds the group's destination filter lets through, and    *)
(* Pattern[h] the set of kinds the glob of handler h matches.              *)
(***************************************************************************)
EXTENDS Integers, FiniteSets

CONSTANTS
  Replicas,   \* processes that share the consumer group
  Handlers,   \* (pattern, handler) pairs the application may register
  Kinds,      \* abstraction of (destination, event_type)
  Pattern,    \* Pattern[h]: the kinds handler h's glob matches
  Selected,   \* the kinds inside the configured destinations
  BatchSize,  \* LIMIT of the batch query (100 in the code)
  MaxEvents,  \* bound: rows ever inserted in the outbox
  MaxFaults,  \* bound: handler failures, lost connections, crashes, closes
  NoOne       \* value of the advisory lock when it is free

ASSUME BrokerAssumption ==
  /\ Kinds # {}
  /\ Pattern \in [Handlers -> SUBSET Kinds]
  /\ Selected \subseteq Kinds
  /\ BatchSize \in Nat \ {0}
  /\ MaxEvents \in Nat
  /\ MaxFaults \in Nat
  /\ NoOne \notin Replicas

VARIABLES
  row, kind, by,  \* the outbox table by BIGSERIAL id: state, kind, publisher
  nextId,         \* the BIGSERIAL sequence
  last_event_id,  \* the group's cursor row in firefly_eda_offsets
  lock,           \* session holding the group's advisory lock
  started, closed, subscriptions,  \* the broker's State
  client,         \* is the query connection alive
  listening,      \* is the LISTEN session alive
  wake,           \* the permit of the tokio Notify
  pc,             \* where the drain task of a replica is
  offset,         \* drain_one_batch: the cursor it read
  last_dispatched,\* drain_one_batch: highest id dispatched without error
  batch,          \* drain_one_batch: fetched ids not dispatched yet
  full_page,      \* drain_one_batch: the page reached BatchSize
  matched,        \* dispatch: handlers of the current row still to call
  faults,         \* bound on environment faults
  handled,        \* history: <<id, h>> that returned Ok
  missed,         \* history: <<id, h>> not yet registered when id was dispatched
  cleared,        \* history: <<id, h>> dispatched after close() removed the handlers
  late            \* history: ids that became visible behind a fetched page

rowVars    == <<row, kind, by>>
dbVars     == <<rowVars, nextId, last_event_id, lock>>
stateVars  == <<started, closed, subscriptions, client, listening, wake>>
taskVars   == <<pc, offset, last_dispatched, batch, full_page, matched>>
histVars   == <<handled, missed, cleared, late>>
vars       == <<dbVars, stateVars, taskVars, faults, histVars>>

Ids == 1..MaxEvents

\* "fresh" rows are committed but their publisher has not issued NOTIFY yet.
RowState == {"free", "pending", "void", "fresh", "sent"}

Visible(i) == row[i] \in {"fresh", "sent"}

\* Mutant of Eligible: the batch query re-reads the row at the cursor.
EligibleFromCursor(o) == {i \in Ids : i >= o /\ Visible(i) /\ kind[i] \in Selected}

\* Rows the batch query returns when nothing limits it.
Eligible(o) == {i \in Ids : i > o /\ Visible(i) /\ kind[i] \in Selected}

\* SELECT ... WHERE id > o ORDER BY id LIMIT BatchSize.
SelectBatch(o) ==
  LET rows == Eligible(o)
  IN  {i \in rows : Cardinality({j \in rows : j < i}) < BatchSize}

\* Program points at which the drain task has a fetched page in memory.
InPage == {"dispatch", "handler", "advance"}
PcState == {"idle", "run", "drain", "batch", "unlock", "wait", "done"} \cup InPage

\* The locals of drain_one_batch and dispatch go out of scope.
DropLocals(r) ==
  /\ offset' = [offset EXCEPT ![r] = 0]
  /\ last_dispatched' = [last_dispatched EXCEPT ![r] = 0]
  /\ batch' = [batch EXCEPT ![r] = {}]
  /\ full_page' = [full_page EXCEPT ![r] = FALSE]
  /\ matched' = [matched EXCEPT ![r] = {}]

\* A session runs one statement at a time: while an INSERT of the replica is
\* unfinished, its other statements wait behind it in the pipeline.
SessionFree(r) == \A i \in Ids : ~(by[i] = r /\ row[i] = "pending")

Release(r) == IF lock = r THEN NoOne ELSE lock

\* What the server does with the unfinished inserts of a session that ended,
\* and the publisher with the NOTIFYs it can no longer send.
AbandonRows(r) ==
  [i \in Ids |-> IF by[i] = r /\ row[i] = "pending" THEN "void"
                 ELSE IF by[i] = r /\ row[i] = "fresh" THEN "sent"
                 ELSE row[i]]

Init ==
  /\ row = [i \in Ids |-> "free"]
  /\ kind = [i \in Ids |-> CHOOSE k \in Kinds : TRUE]
  /\ by = [i \in Ids |-> NoOne]
  /\ nextId = 1
  /\ last_event_id = 0
  /\ lock = NoOne
  /\ started = [r \in Replicas |-> FALSE]
  /\ closed = [r \in Replicas |-> FALSE]
  /\ subscriptions = [r \in Replicas |-> {}]
  /\ client = [r \in Replicas |-> FALSE]
  /\ listening = [r \in Replicas |-> FALSE]
  /\ wake = [r \in Replicas |-> FALSE]
  /\ pc = [r \in Replicas |-> "idle"]
  /\ offset = [r \in Replicas |-> 0]
  /\ last_dispatched = [r \in Replicas |-> 0]
  /\ batch = [r \in Replicas |-> {}]
  /\ full_page = [r \in Replicas |-> FALSE]
  /\ matched = [r \in Replicas |-> {}]
  /\ faults = 0
  /\ handled = {}
  /\ missed = {}
  /\ cleared = {}
  /\ late = {}

-----------------------------------------------------------------------------
(* The broker's public operations *)

\* start(): runs under the state write lock, so it is one step.
Start(r) ==
  /\ ~started[r] /\ ~closed[r]
  /\ started' = [started EXCEPT ![r] = TRUE]
  /\ client' = [client EXCEPT ![r] = TRUE]
  /\ listening' = [listening EXCEPT ![r] = TRUE]
  /\ wake' = [wake EXCEPT ![r] = TRUE]
  /\ pc' = [pc EXCEPT ![r] = "run"]
  /\ UNCHANGED <<dbVars, closed, subscriptions, offset, last_dispatched,
                 batch, full_page, matched, faults, histVars>>

\* subscribe_pattern(): refused once closed; always pokes the drain loop.
Subscribe(r, h) ==
  /\ ~closed[r] /\ h \notin subscriptions[r]
  /\ subscriptions' = [subscriptions EXCEPT ![r] = @ \cup {h}]
  /\ wake' = [wake EXCEPT ![r] = TRUE]
  /\ UNCHANGED <<dbVars, started, closed, client, listening, taskVars, faults,
                 histVars>>

\* publish(), first half: the INSERT draws an id from the sequence.
PublishInsert(r, k) ==
  /\ client[r] /\ SessionFree(r)
  /\ nextId \in Ids
  /\ row' = [row EXCEPT ![nextId] = "pending"]
  /\ kind' = [kind EXCEPT ![nextId] = k]
  /\ by' = [by EXCEPT ![nextId] = r]
  /\ nextId' = nextId + 1
  /\ UNCHANGED <<last_event_id, lock, stateVars, taskVars, faults, histVars>>

\* A row that becomes visible now is late: the cursor, a page in memory or a
\* handler is already beyond its id.
Overtaken(i) ==
  \/ i <= last_event_id
  \/ \E p \in handled : i < p[1]
  \/ \E r \in Replicas : pc[r] \in InPage /\ \E j \in batch[r] \cup {last_dispatched[r]} : i < j

\* The insert commits and its row becomes visible.
PublishCommit(i) ==
  /\ row[i] = "pending"
  /\ row' = [row EXCEPT ![i] = "fresh"]
  /\ late' = IF Overtaken(i) THEN late \cup {i} ELSE late
  /\ UNCHANGED <<kind, by, nextId, last_event_id, lock, stateVars, taskVars, faults,
                 handled, missed, cleared>>

\* publish(), second half: NOTIFY pokes every replica whose LISTEN is up.
PublishNotify(i) ==
  /\ row[i] = "fresh" /\ client[by[i]]
  /\ row' = [row EXCEPT ![i] = "sent"]
  /\ wake' = [r \in Replicas |-> wake[r] \/ listening[r]]
  /\ UNCHANGED <<kind, by, nextId, last_event_id, lock, started, closed, subscriptions,
                 client, listening, taskVars, faults, histVars>>

\* close(), first half: the state write-lock section, then notify_waiters.
CloseMark(r) ==
  /\ ~closed[r] /\ faults < MaxFaults
  /\ faults' = faults + 1
  /\ closed' = [closed EXCEPT ![r] = TRUE]
  /\ started' = [started EXCEPT ![r] = FALSE]
  /\ subscriptions' = [subscriptions EXCEPT ![r] = {}]
  /\ pc' = [pc EXCEPT ![r] = IF @ = "wait" THEN "run" ELSE @]
  /\ UNCHANGED <<dbVars, client, listening, wake, offset, last_dispatched,
                 batch, full_page, matched, histVars>>

\* close(), second half: the tasks are aborted and the connections dropped.
CloseAbort(r) ==
  /\ closed[r] /\ (client[r] \/ listening[r] \/ pc[r] # "done")
  /\ pc' = [pc EXCEPT ![r] = "done"]
  /\ client' = [client EXCEPT ![r] = FALSE]
  /\ listening' = [listening EXCEPT ![r] = FALSE]
  /\ lock' = Release(r)
  /\ row' = AbandonRows(r)
  /\ DropLocals(r)
  /\ UNCHANGED <<kind, by, nextId, last_event_id, started, closed, subscriptions, wake,
                 faults, histVars>>

-----------------------------------------------------------------------------
(* The drain task: run, drain, drain_one_batch and dispatch *)

\* Top of run(): a closed broker ends the task, one without subscriptions
\* goes straight to waiting.
RunLoop(r) ==
  /\ pc[r] = "run"
  /\ pc' = [pc EXCEPT ![r] = IF closed[r] THEN "done"
                             ELSE IF subscriptions[r] = {} THEN "wait" ELSE "drain"]
  /\ UNCHANGED <<dbVars, stateVars, offset, last_dispatched, batch, full_page,
                 matched, faults, histVars>>

\* Mutant of TryLock: the answer of pg_try_advisory_lock is ignored.
TryLockUngated(r) ==
  /\ pc[r] = "drain" /\ (subscriptions[r] # {} => SessionFree(r))
  /\ LET got == client[r] /\ subscriptions[r] # {} IN
     /\ lock' = IF got THEN r ELSE lock
     /\ pc' = [pc EXCEPT ![r] = IF got THEN "batch" ELSE "wait"]
  /\ UNCHANGED <<rowVars, nextId, last_event_id, stateVars, offset,
                 last_dispatched, batch, full_page, matched, faults, histVars>>

\* drain(): pg_try_advisory_lock.  A lost client makes the query fail; a lock
\* held elsewhere makes drain() return; both lead to the wait.
TryLock(r) ==
  /\ pc[r] = "drain" /\ (subscriptions[r] # {} => SessionFree(r))
  /\ LET got == client[r] /\ lock = NoOne /\ subscriptions[r] # {} IN
     /\ lock' = IF got THEN r ELSE lock
     /\ pc' = [pc EXCEPT ![r] = IF got THEN "batch" ELSE "wait"]
  /\ UNCHANGED <<rowVars, nextId, last_event_id, stateVars, offset,
                 last_dispatched, batch, full_page, matched, faults, histVars>>

\* drain_one_batch(): read the cursor and fetch one page behind it.
FetchBatch(r) ==
  /\ pc[r] = "batch" /\ (~closed[r] => SessionFree(r))
  /\ LET page == IF client[r] /\ ~closed[r] THEN SelectBatch(last_event_id) ELSE {} IN
     /\ batch' = [batch EXCEPT ![r] = page]
     /\ full_page' = [full_page EXCEPT ![r] = Cardinality(page) >= BatchSize]
     /\ offset' = [offset EXCEPT ![r] = last_event_id]
     /\ last_dispatched' = [last_dispatched EXCEPT ![r] = last_event_id]
     /\ pc' = [pc EXCEPT ![r] = IF page = {} THEN "unlock" ELSE "dispatch"]
  /\ UNCHANGED <<dbVars, stateVars, matched, faults, histVars>>

\* Mutant of NextRow: the batch query has no ORDER BY.
NextRowAnyOrder(r, i) == i \in batch[r]

\* The page is dispatched in id order: i is its next row.
NextRow(r, i) == i \in batch[r] /\ \A j \in batch[r] : i <= j

\* The handlers of r whose glob matches row i, and those it has not registered.
Matching(r, i) == {h \in subscriptions[r] : kind[i] \in Pattern[h]}
Unregistered(r, i) ==
  {h \in Handlers \ subscriptions[r] : kind[i] \in Pattern[h]}

\* The row at the front of the page was dispatched without error.
RowDone(r, i) ==
  /\ last_dispatched' = [last_dispatched EXCEPT ![r] = i]
  /\ batch' = [batch EXCEPT ![r] = @ \ {i}]
  /\ pc' = [pc EXCEPT ![r] = IF batch[r] = {i} THEN "advance" ELSE "dispatch"]

\* dispatch(): snapshot the matching handlers of the next row.  With none,
\* dispatch returns Ok at once.  A handler that is not there is one the
\* application has not registered yet, or one that close() has removed.
DispatchRow(r, i) ==
  /\ pc[r] = "dispatch" /\ NextRow(r, i)
  /\ LET absent == {<<i, h>> : h \in Unregistered(r, i)}
     IN  IF closed[r] THEN cleared' = cleared \cup absent /\ UNCHANGED missed
                      ELSE missed' = missed \cup absent /\ UNCHANGED cleared
  /\ matched' = [matched EXCEPT ![r] = Matching(r, i)]
  /\ IF Matching(r, i) = {}
     THEN RowDone(r, i)
     ELSE pc' = [pc EXCEPT ![r] = "handler"] /\ UNCHANGED <<last_dispatched, batch>>
  /\ UNCHANGED <<dbVars, stateVars, offset, full_page, faults, handled, late>>

\* One handler of the snapshot returns Ok.
HandlerOk(r, i, h) ==
  /\ pc[r] = "handler" /\ NextRow(r, i) /\ h \in matched[r]
  /\ handled' = handled \cup {<<i, h>>}
  /\ matched' = [matched EXCEPT ![r] = @ \ {h}]
  /\ IF matched[r] = {h}
     THEN RowDone(r, i)
     ELSE UNCHANGED <<pc, last_dispatched, batch>>
  /\ UNCHANGED <<dbVars, stateVars, offset, full_page, faults, missed, cleared, late>>

\* Mutant of HandlerErr: the failing row counts as dispatched.
HandlerErrSwallowed(r) ==
  /\ pc[r] = "handler" /\ faults < MaxFaults
  /\ faults' = faults + 1
  /\ \E i \in Ids : NextRow(r, i) /\ RowDone(r, i)
  /\ matched' = [matched EXCEPT ![r] = {}]
  /\ UNCHANGED <<dbVars, stateVars, offset, full_page, histVars>>

\* A handler fails or exceeds HANDLER_TIMEOUT: the page is abandoned.
HandlerErr(r) ==
  /\ pc[r] = "handler" /\ faults < MaxFaults
  /\ faults' = faults + 1
  /\ pc' = [pc EXCEPT ![r] = "advance"]
  /\ matched' = [matched EXCEPT ![r] = {}]
  /\ UNCHANGED <<dbVars, stateVars, offset, last_dispatched, batch, full_page,
                 histVars>>

\* Mutant of AdvanceCursor: the cursor names the next id, not the last one.
AdvanceCursorPastEnd(r) ==
  /\ pc[r] = "advance" /\ (last_dispatched[r] > offset[r] => SessionFree(r))
  /\ last_event_id' = IF client[r] /\ last_dispatched[r] > offset[r]
                      THEN last_dispatched[r] + 1 ELSE last_event_id
  /\ pc' = [pc EXCEPT ![r] = "unlock"]
  /\ UNCHANGED <<rowVars, nextId, lock, stateVars, offset, last_dispatched, batch,
                 full_page, matched, faults, histVars>>

\* UPDATE_OFFSET, guarded in SQL against rewinding; a lost client fails it.
AdvanceCursor(r) ==
  /\ pc[r] = "advance" /\ (last_dispatched[r] > offset[r] => SessionFree(r))
  /\ last_event_id' = IF /\ client[r] /\ last_dispatched[r] > offset[r]
                         /\ last_event_id < last_dispatched[r]
                      THEN last_dispatched[r] ELSE last_event_id
  /\ pc' = [pc EXCEPT ![r] = "unlock"]
  /\ UNCHANGED <<rowVars, nextId, lock, stateVars, offset, last_dispatched, batch,
                 full_page, matched, faults, histVars>>

\* pg_advisory_unlock, then the self re-poke after a full, fully dispatched page.
Unlock(r) ==
  /\ pc[r] = "unlock" /\ SessionFree(r)
  /\ lock' = IF client[r] THEN Release(r) ELSE lock
  /\ wake' = [wake EXCEPT ![r] = @ \/ (client[r] /\ full_page[r] /\ batch[r] = {})]
  /\ DropLocals(r)
  /\ pc' = [pc EXCEPT ![r] = "wait"]
  /\ UNCHANGED <<rowVars, nextId, last_event_id, started, closed, subscriptions,
                 client, listening, faults, histVars>>

\* The select! of run(): consume the wake permit ...
Woken(r) ==
  /\ pc[r] = "wait" /\ ~closed[r] /\ wake[r]
  /\ wake' = [wake EXCEPT ![r] = FALSE]
  /\ pc' = [pc EXCEPT ![r] = "run"]
  /\ UNCHANGED <<dbVars, started, closed, subscriptions, client, listening,
                 offset, last_dispatched, batch, full_page, matched, faults,
                 histVars>>

\* Mutant of PollTimeout: the poll runs only while the LISTEN session is down.
PollTimeoutUnlistened(r) ==
  /\ pc[r] = "wait" /\ ~closed[r] /\ ~listening[r]
  /\ pc' = [pc EXCEPT ![r] = "run"]
  /\ UNCHANGED <<dbVars, stateVars, offset, last_dispatched, batch, full_page,
                 matched, faults, histVars>>

\* ... or time out after poll_interval.
PollTimeout(r) ==
  /\ pc[r] = "wait" /\ ~closed[r]
  /\ pc' = [pc EXCEPT ![r] = "run"]
  /\ UNCHANGED <<dbVars, stateVars, offset, last_dispatched, batch, full_page,
                 matched, faults, histVars>>

\* run() re-checks `closed` after the drain, before it waits.
WaitClosed(r) ==
  /\ pc[r] = "wait" /\ closed[r]
  /\ pc' = [pc EXCEPT ![r] = "done"]
  /\ UNCHANGED <<dbVars, stateVars, offset, last_dispatched, batch, full_page,
                 matched, faults, histVars>>

-----------------------------------------------------------------------------
(* Faults of the environment *)

\* The LISTEN session ends; NOTIFYs sent meanwhile never reach the replica.
ListenerDrop(r) ==
  /\ listening[r] /\ faults < MaxFaults
  /\ faults' = faults + 1
  /\ listening' = [listening EXCEPT ![r] = FALSE]
  /\ UNCHANGED <<dbVars, started, closed, subscriptions, client, wake,
                 taskVars, histVars>>

\* The supervise loop reconnects and listens again, without a catch-up poke.
ListenerReconnect(r) ==
  /\ started[r] /\ ~closed[r] /\ ~listening[r]
  /\ listening' = [listening EXCEPT ![r] = TRUE]
  /\ UNCHANGED <<dbVars, started, closed, subscriptions, client, wake,
                 taskVars, faults, histVars>>

\* The query connection is lost: the server ends the session, and with it the
\* advisory lock.  The drain task keeps running the handlers it has started.
ClientLost(r) ==
  /\ client[r] /\ faults < MaxFaults
  /\ faults' = faults + 1
  /\ client' = [client EXCEPT ![r] = FALSE]
  /\ lock' = Release(r)
  /\ row' = AbandonRows(r)
  /\ UNCHANGED <<kind, by, nextId, last_event_id, started, closed, subscriptions,
                 listening, wake, taskVars, histVars>>

\* The process crashes at any point and a new one takes its place.
Crash(r) ==
  /\ pc[r] # "idle" /\ faults < MaxFaults
  /\ faults' = faults + 1
  /\ started' = [started EXCEPT ![r] = FALSE]
  /\ closed' = [closed EXCEPT ![r] = FALSE]
  /\ subscriptions' = [subscriptions EXCEPT ![r] = {}]
  /\ client' = [client EXCEPT ![r] = FALSE]
  /\ listening' = [listening EXCEPT ![r] = FALSE]
  /\ wake' = [wake EXCEPT ![r] = FALSE]
  /\ pc' = [pc EXCEPT ![r] = "idle"]
  /\ DropLocals(r)
  /\ lock' = Release(r)
  /\ row' = AbandonRows(r)
  /\ UNCHANGED <<kind, by, nextId, last_event_id, histVars>>

-----------------------------------------------------------------------------
DrainTask(r) ==
  \/ RunLoop(r) \/ TryLock(r) \/ FetchBatch(r) \/ HandlerErr(r)
  \/ \E i \in Ids : DispatchRow(r, i) \/ \E h \in Handlers : HandlerOk(r, i, h)
  \/ AdvanceCursor(r) \/ Unlock(r)
  \/ Woken(r) \/ PollTimeout(r) \/ WaitClosed(r)

Next ==
  \/ \E r \in Replicas :
       \/ Start(r) \/ CloseMark(r) \/ CloseAbort(r) \/ DrainTask(r)
       \/ ListenerDrop(r) \/ ListenerReconnect(r) \/ ClientLost(r) \/ Crash(r)
       \/ \E h \in Handlers : Subscribe(r, h)
       \/ \E k \in Kinds : PublishInsert(r, k)
  \/ \E i \in Ids : PublishCommit(i) \/ PublishNotify(i)

Spec == Init /\ [][Next]_vars

\* The drain task is a spawned tokio task, the sleeps of its loop end and its
\* handlers are bounded by HANDLER_TIMEOUT, so it always takes its next step;
\* the server finishes the statement a live session runs.
\* Nothing obliges an application to publish, subscribe or close, nor the
\* network to fail.
FairSpec ==
  /\ Spec
  /\ \A r \in Replicas : WF_vars(DrainTask(r))
  /\ \A i \in Ids : WF_vars(PublishCommit(i))

-----------------------------------------------------------------------------
(* Properties *)

TypeOK ==
  /\ row \in [Ids -> RowState]
  /\ kind \in [Ids -> Kinds]
  /\ by \in [Ids -> Replicas \cup {NoOne}]
  /\ nextId \in 1..(MaxEvents + 1)
  /\ last_event_id \in 0..MaxEvents
  /\ lock \in Replicas \cup {NoOne}
  /\ started \in [Replicas -> BOOLEAN]
  /\ closed \in [Replicas -> BOOLEAN]
  /\ subscriptions \in [Replicas -> SUBSET Handlers]
  /\ client \in [Replicas -> BOOLEAN]
  /\ listening \in [Replicas -> BOOLEAN]
  /\ wake \in [Replicas -> BOOLEAN]
  /\ pc \in [Replicas -> PcState]
  /\ offset \in [Replicas -> 0..MaxEvents]
  /\ last_dispatched \in [Replicas -> 0..MaxEvents]
  /\ batch \in [Replicas -> SUBSET Ids]
  /\ full_page \in [Replicas -> BOOLEAN]
  /\ matched \in [Replicas -> SUBSET Handlers]
  /\ faults \in 0..MaxFaults
  /\ handled \subseteq Ids \X Handlers
  /\ missed \subseteq Ids \X Handlers
  /\ cleared \subseteq Ids \X Handlers
  /\ late \subseteq Ids

\* Row i is one the group must hand to h.
Owed(i, h) == Visible(i) /\ kind[i] \in Selected \cap Pattern[h]

\* The cursor never passes a visible row without each matching handler having
\* returned Ok for it: through crashes, lost connections, failing handlers and
\* drain tasks of several replicas.  Three exceptions are part of the code: a
\* row that became visible behind a page already fetched (late), a handler the
\* application registered only afterwards (missed), and a page whose handlers
\* close() removed while it was being dispatched (cleared).  Late and cleared
\* rows are what AtLeastOnce does not excuse.
NoSilentSkip ==
  \A i \in Ids, h \in Handlers :
    Owed(i, h) /\ i <= last_event_id =>
      <<i, h>> \in handled \cup missed \cup cleared \/ i \in late

\* A handler first sees the rows of the group in id order, late, missed and
\* cleared rows excepted: before it has returned Ok for one row it has returned
\* Ok for every earlier visible row it is owed, whichever replica ran it.
OrderedFirstDelivery ==
  \A i, j \in Ids, h \in Handlers :
    /\ <<i, h>> \in handled /\ j < i /\ Owed(j, h)
    => <<j, h>> \in handled \cup missed \cup cleared \/ j \in late

\* Single drainer per group: a drain task that has a page in memory and a
\* connection to write with works from the current cursor, so no stale page
\* of another replica can move the cursor.
SingleDrainer ==
  \A r \in Replicas :
    client[r] /\ pc[r] \in InPage => lock = r /\ offset[r] = last_event_id

\* Without a fault no handler runs twice for a row, however the drain tasks of
\* the replicas interleave: two pages of one group never overlap.
DuplicateOnlyAfterFault ==
  \A r \in Replicas :
    faults = 0 /\ pc[r] = "handler" =>
      \A i \in Ids, h \in matched[r] : NextRow(r, i) => <<i, h>> \notin handled

\* The documented guarantee for the handlers that are registered: the cursor
\* is advanced only after each of them has returned Ok, with no exception for
\* rows that commit late nor for handlers that close() removes.
AtLeastOnce ==
  \A i \in Ids, h \in Handlers :
    Owed(i, h) /\ i <= last_event_id => <<i, h>> \in handled \cup missed

\* A replica that can drain: connected, with a subscription, not closing.
Healthy(r) == client[r] /\ subscriptions[r] # {} /\ ~closed[r]

\* Poll fallback: as long as some replica stays healthy from some time on, the
\* cursor reaches every row that became visible in time, even when its NOTIFY
\* was lost.
NeverStuck ==
  (\E r \in Replicas : <>[]Healthy(r)) =>
    \A i \in Ids :
      (Visible(i) /\ kind[i] \in Selected) ~> (last_event_id >= i)
=============================================================================
