------------------------ MODULE PostgresBrokerProofs ------------------------
(***************************************************************************)
(* Safety of PostgresBroker for every number of replicas, handlers, rows,  *)
(* faults and every page size.                                             *)
(***************************************************************************)
EXTENDS PostgresBroker, FiniteSetTheorems, TLAPS

\* The drain task is between the lock query and the end of the unlock query.
Locked == InPage \cup {"batch", "unlock"}

\* Every handler owed row j has returned Ok for it, or the row is excused.
Settled(j) ==
  j \in late \/ \A h \in Handlers : Owed(j, h) => <<j, h>> \in handled \cup missed \cup cleared

\* Rows beyond the sequence have not been inserted.
SequenceInv == \A i \in Ids : i >= nextId => row[i] = "free"

\* A Locked task with a live session owns the advisory lock.
LockInv == \A r \in Replicas : client[r] /\ pc[r] \in Locked => lock = r

\* A page in memory lies beyond the last row dispatched, which lies at or
\* beyond the cursor value it was fetched with; its rows are visible.
PageInv ==
  \A r \in Replicas :
    pc[r] \in InPage =>
      /\ offset[r] <= last_dispatched[r]
      /\ offset[r] <= last_event_id
      /\ offset[r] < last_dispatched[r] => Visible(last_dispatched[r])
      /\ \A i \in batch[r] : last_dispatched[r] < i /\ Visible(i)

\* Every row between the cursor a page was fetched with and the end of the
\* page is still in the page or settled.
CoverInv ==
  \A r \in Replicas :
    pc[r] \in InPage =>
      \A j \in Ids :
        /\ offset[r] < j
        /\ j \notin batch[r]
        /\ \E k \in batch[r] \cup {last_dispatched[r]} : j <= k
        => Settled(j)

\* While the handlers of a row run, the ones not in the snapshot any more have
\* returned Ok or were not registered.
SnapshotInv ==
  \A r \in Replicas :
    pc[r] = "handler" =>
      \A i \in Ids, h \in Handlers \ matched[r] :
        NextRow(r, i) /\ Owed(i, h) => <<i, h>> \in handled \cup missed \cup cleared

\* The drain task of r belongs to a broker that was started and has its session.
Sound(r) == ~closed[r] /\ (pc[r] # "idle" => client[r] /\ started[r])

\* Until the first fault all of them do.
SessionInv == faults = 0 => \A r \in Replicas : Sound(r)

\* A delivery that no page repeats: the cursor is past its row, or the page in
\* memory is, or the handler has left the snapshot of the page's next row.
Behind(i, h) ==
  \/ i <= last_event_id
  \/ \E r \in Replicas :
       /\ pc[r] \in InPage
       /\ i <= last_dispatched[r] \/ (pc[r] = "handler" /\ NextRow(r, i) /\ h \notin matched[r])

\* Until the first fault all deliveries are behind.
DeliveredInv ==
  faults = 0 => \A i \in Ids, h \in Handlers : <<i, h>> \in handled => Behind(i, h)

\* The inductive invariant.
IInv ==
  /\ TypeOK
  /\ SequenceInv
  /\ LockInv
  /\ PageInv
  /\ CoverInv
  /\ SnapshotInv
  /\ SingleDrainer
  /\ NoSilentSkip
  /\ OrderedFirstDelivery
  /\ SessionInv
  /\ DeliveredInv

-----------------------------------------------------------------------------
(* Type correctness *)

\* A fresh schema and replicas that have not started have the right types.
LEMMA TypeInit == Init => TypeOK
BY BrokerAssumption
   DEF Init, TypeOK, Ids, RowState, PcState, InPage

\* Finishing a row of the page keeps the drain task's locals well-typed.
LEMMA RowDoneType ==
  ASSUME TypeOK, NEW r \in Replicas, NEW i \in Ids, RowDone(r, i)
  PROVE  /\ pc' \in [Replicas -> PcState]
         /\ last_dispatched' \in [Replicas -> 0..MaxEvents]
         /\ batch' \in [Replicas -> SUBSET Ids]
<1>1. pc' \in [Replicas -> PcState]
  BY DEF TypeOK, RowDone, PcState, InPage
<1>2. last_dispatched' \in [Replicas -> 0..MaxEvents]
  BY BrokerAssumption DEF TypeOK, RowDone, Ids
<1>3. batch' \in [Replicas -> SUBSET Ids]
  BY DEF TypeOK, RowDone
<1>4. QED
  BY <1>1, <1>2, <1>3

\* Every operation of the broker, drain step and fault keeps the types.
LEMMA TypeStep == TypeOK /\ [Next]_vars => TypeOK'
<1> SUFFICES ASSUME TypeOK, [Next]_vars PROVE TypeOK'
  OBVIOUS
<1> USE BrokerAssumption DEF TypeOK, Ids, PcState, InPage
<1>1. ASSUME NEW r \in Replicas, Start(r) PROVE TypeOK'
  BY <1>1 DEF Start, rowVars, dbVars, histVars
<1>2. ASSUME NEW r \in Replicas, NEW h \in Handlers, Subscribe(r, h) PROVE TypeOK'
  BY <1>2 DEF Subscribe, rowVars, dbVars, taskVars, histVars
<1>3. ASSUME NEW r \in Replicas, NEW k \in Kinds, PublishInsert(r, k) PROVE TypeOK'
  BY <1>3 DEF PublishInsert, stateVars, taskVars, histVars, RowState
<1>4. ASSUME NEW i \in Ids, PublishCommit(i) PROVE TypeOK'
  BY <1>4 DEF PublishCommit, stateVars, taskVars, RowState
<1>5. ASSUME NEW i \in Ids, PublishNotify(i) PROVE TypeOK'
  BY <1>5 DEF PublishNotify, taskVars, histVars, RowState
<1>6. ASSUME NEW r \in Replicas, CloseMark(r) PROVE TypeOK'
  BY <1>6 DEF CloseMark, rowVars, dbVars, histVars
<1>7. ASSUME NEW r \in Replicas, CloseAbort(r) PROVE TypeOK'
  BY <1>7 DEF CloseAbort, Release, AbandonRows, RowState, DropLocals, histVars
<1>8. ASSUME NEW r \in Replicas, RunLoop(r) PROVE TypeOK'
  BY <1>8 DEF RunLoop, rowVars, dbVars, stateVars, histVars
<1>9. ASSUME NEW r \in Replicas, TryLock(r) PROVE TypeOK'
  BY <1>9 DEF TryLock, rowVars, stateVars, histVars
<1>10. ASSUME NEW r \in Replicas, FetchBatch(r) PROVE TypeOK'
  BY <1>10 DEF FetchBatch, SelectBatch, Eligible, rowVars, dbVars, stateVars, histVars
<1>11. ASSUME NEW r \in Replicas, NEW i \in Ids, DispatchRow(r, i) PROVE TypeOK'
  <2>1. {<<i, h>> : h \in Unregistered(r, i)} \subseteq Ids \X Handlers
    BY DEF Unregistered
  <2>2. Matching(r, i) \subseteq Handlers
    BY DEF Matching
  <2>3. CASE Matching(r, i) = {}
    <3>1. RowDone(r, i)
      BY <1>11, <2>3 DEF DispatchRow
    <3>2. /\ pc' \in [Replicas -> PcState]
          /\ last_dispatched' \in [Replicas -> 0..MaxEvents]
          /\ batch' \in [Replicas -> SUBSET Ids]
      BY <3>1, RowDoneType
    <3>3. QED
      BY <1>11, <2>1, <2>2, <3>2 DEF DispatchRow, rowVars, dbVars, stateVars
  <2>4. CASE Matching(r, i) # {}
    BY <1>11, <2>1, <2>2, <2>4 DEF DispatchRow, rowVars, dbVars, stateVars
  <2>5. QED
    BY <2>3, <2>4
<1>12. ASSUME NEW r \in Replicas, NEW i \in Ids, NEW h \in Handlers,
              HandlerOk(r, i, h)
       PROVE TypeOK'
  <2>1. CASE matched[r] = {h}
    <3>1. RowDone(r, i)
      BY <1>12, <2>1 DEF HandlerOk
    <3>2. /\ pc' \in [Replicas -> PcState]
          /\ last_dispatched' \in [Replicas -> 0..MaxEvents]
          /\ batch' \in [Replicas -> SUBSET Ids]
      BY <3>1, RowDoneType
    <3>3. /\ handled' \subseteq Ids \X Handlers
          /\ matched' \in [Replicas -> SUBSET Handlers]
      BY <1>12 DEF HandlerOk
    <3>4. UNCHANGED <<dbVars, stateVars, offset, full_page, faults, missed, cleared, late>>
      BY <1>12 DEF HandlerOk
    <3>5. QED
      BY <3>2, <3>3, <3>4 DEF rowVars, dbVars, stateVars
  <2>2. CASE matched[r] # {h}
    BY <1>12, <2>2, SMTT(30) DEF HandlerOk, rowVars, dbVars, stateVars
  <2>3. QED
    BY <2>1, <2>2
<1>13. ASSUME NEW r \in Replicas, HandlerErr(r) PROVE TypeOK'
  BY <1>13 DEF HandlerErr, rowVars, dbVars, stateVars, histVars
<1>14. ASSUME NEW r \in Replicas, AdvanceCursor(r) PROVE TypeOK'
  BY <1>14 DEF AdvanceCursor, rowVars, stateVars, histVars
<1>15. ASSUME NEW r \in Replicas, Unlock(r) PROVE TypeOK'
  BY <1>15 DEF Unlock, rowVars, Release, DropLocals, histVars
<1>16. ASSUME NEW r \in Replicas, Woken(r) \/ PollTimeout(r) \/ WaitClosed(r)
       PROVE TypeOK'
  BY <1>16, ZenonT(60) DEF Woken, PollTimeout, WaitClosed, rowVars, dbVars, stateVars, histVars
<1>17. ASSUME NEW r \in Replicas, ListenerDrop(r) \/ ListenerReconnect(r)
       PROVE TypeOK'
  <2>1. CASE ListenerDrop(r)
    BY <2>1 DEF ListenerDrop, rowVars, dbVars, taskVars, histVars
  <2>2. CASE ListenerReconnect(r)
    BY <2>2 DEF ListenerReconnect, rowVars, dbVars, taskVars, histVars
  <2>3. QED
    BY <1>17, <2>1, <2>2
<1>18. ASSUME NEW r \in Replicas, ClientLost(r) PROVE TypeOK'
  BY <1>18 DEF ClientLost, Release, AbandonRows, RowState, taskVars, histVars
<1>19. ASSUME NEW r \in Replicas, Crash(r) PROVE TypeOK'
  BY <1>19 DEF Crash, Release, AbandonRows, RowState, DropLocals, histVars
<1>20. CASE UNCHANGED vars
  BY <1>20 DEF vars, rowVars, dbVars, stateVars, taskVars, histVars
<1>21. QED
  BY <1>1, <1>2, <1>3, <1>4, <1>5, <1>6, <1>7, <1>8, <1>9, <1>10, <1>11,
     <1>12, <1>13, <1>14, <1>15, <1>16, <1>17, <1>18, <1>19, <1>20
     DEF Next, DrainTask

\* TypeOK is an invariant of the broker.
THEOREM BrokerTypeCorrect == Spec => []TypeOK
BY TypeInit, TypeStep, PTL DEF Spec

-----------------------------------------------------------------------------
(* What a step may do to the rows, the histories and a page in memory *)

\* Committed rows stay, histories only grow, and a row that becomes visible
\* behind the group is recorded as late.
Growth ==
  /\ handled \subseteq handled' /\ missed \subseteq missed' /\ cleared \subseteq cleared' /\ late \subseteq late'
  /\ \A i \in Ids : Visible(i) => Visible(i)' /\ kind'[i] = kind[i]
  /\ \A i \in Ids : Visible(i)' /\ ~Visible(i) /\ Overtaken(i) => i \in late'
  /\ last_event_id <= last_event_id'

\* Deliveries are never forgotten, visible rows never disappear, a row that
\* appears behind a page is recorded as late, and the cursor never rewinds.
LEMMA GrowthStep ==
  ASSUME TypeOK, SequenceInv, [Next]_vars PROVE Growth
<1> USE BrokerAssumption DEF TypeOK, Growth
<1>1. ASSUME NEW i \in Ids, PublishCommit(i) PROVE Growth
  BY <1>1 DEF PublishCommit, Visible, Ids
<1>2. ASSUME NEW i \in Ids, PublishNotify(i) PROVE Growth
  BY <1>2 DEF PublishNotify, Visible, histVars, Ids
<1>3. ASSUME NEW r \in Replicas, NEW k \in Kinds, PublishInsert(r, k) PROVE Growth
  BY <1>3 DEF PublishInsert, Visible, SequenceInv, histVars, Ids
<1>4. ASSUME NEW r \in Replicas, CloseAbort(r) \/ ClientLost(r) \/ Crash(r)
      PROVE Growth
  BY <1>4 DEF CloseAbort, ClientLost, Crash, AbandonRows, Visible, histVars
<1>5. ASSUME NEW r \in Replicas, NEW i \in Ids, DispatchRow(r, i) PROVE Growth
  BY <1>5 DEF DispatchRow, Visible, rowVars, dbVars
<1>6. ASSUME NEW r \in Replicas, NEW i \in Ids, NEW h \in Handlers,
             HandlerOk(r, i, h)
      PROVE Growth
  BY <1>6 DEF HandlerOk, Visible, rowVars, dbVars
<1>7. ASSUME NEW r \in Replicas, AdvanceCursor(r) PROVE Growth
  BY <1>7 DEF AdvanceCursor, Visible, rowVars, histVars
<1>8. CASE UNCHANGED <<row, kind, last_event_id, histVars>>
  BY <1>8 DEF Visible, histVars
<1>9. QED
  BY <1>1, <1>2, <1>3, <1>4, <1>5, <1>6, <1>7, <1>8
     DEF Next, DrainTask, Start, CloseMark, RunLoop, TryLock, FetchBatch,
         HandlerErr, Unlock, Woken, PollTimeout, WaitClosed, ListenerDrop,
         ListenerReconnect, Subscribe, vars, dbVars, rowVars, histVars

\* The page of s is left alone.
SamePage(s) ==
  /\ pc[s] \in InPage
  /\ offset'[s] = offset[s]
  /\ last_dispatched'[s] = last_dispatched[s]
  /\ batch'[s] = batch[s]

\* The next row of the page of s was dispatched without error.
PageAdvance(s, i) ==
  /\ DispatchRow(s, i) \/ \E h \in Handlers : HandlerOk(s, i, h) /\ matched[s] = {h}
  /\ RowDone(s, i)

\* A page in memory was kept, just fetched, or advanced by one finished row.
LEMMA PageStep ==
  ASSUME TypeOK, [Next]_vars, NEW s \in Replicas, pc'[s] \in InPage
  PROVE  SamePage(s) \/ FetchBatch(s) \/ \E i \in Ids : PageAdvance(s, i)
<1> DEFINE Goal == SamePage(s) \/ FetchBatch(s) \/ \E i \in Ids : PageAdvance(s, i)
<1> USE DEF TypeOK, InPage
<1>1. ASSUME NEW r \in Replicas, NEW i \in Ids, DispatchRow(r, i) PROVE Goal
  <2>1. CASE Matching(r, i) = {}
    <3>1. RowDone(r, i)
      BY <1>1, <2>1 DEF DispatchRow
    <3>2. CASE s = r
      BY <1>1, <3>1, <3>2 DEF PageAdvance
    <3>3. CASE s # r
      BY <1>1, <3>1, <3>3 DEF DispatchRow, RowDone, SamePage
    <3>4. QED
      BY <3>2, <3>3
  <2>2. CASE Matching(r, i) # {}
    BY <1>1, <2>2 DEF DispatchRow, SamePage
  <2>3. QED
    BY <2>1, <2>2
<1>2. ASSUME NEW r \in Replicas, NEW i \in Ids, NEW h \in Handlers,
             HandlerOk(r, i, h)
      PROVE Goal
  <2>1. CASE matched[r] = {h}
    <3>1. RowDone(r, i)
      BY <1>2, <2>1 DEF HandlerOk
    <3>2. CASE s = r
      BY <1>2, <2>1, <3>1, <3>2 DEF PageAdvance
    <3>3. CASE s # r
      BY <1>2, <3>1, <3>3 DEF HandlerOk, RowDone, SamePage
    <3>4. QED
      BY <3>2, <3>3
  <2>2. CASE matched[r] # {h}
    BY <1>2, <2>2 DEF HandlerOk, SamePage
  <2>3. QED
    BY <2>1, <2>2
<1>3. ASSUME NEW r \in Replicas, FetchBatch(r) PROVE Goal
  BY <1>3 DEF FetchBatch, SamePage
<1>4. ASSUME NEW r \in Replicas, CloseAbort(r) \/ Crash(r) \/ Unlock(r)
      PROVE Goal
  BY <1>4 DEF CloseAbort, Crash, Unlock, DropLocals, SamePage
<1>5. ASSUME NEW r \in Replicas,
             \/ RunLoop(r) \/ TryLock(r) \/ HandlerErr(r) \/ AdvanceCursor(r)
             \/ Woken(r) \/ PollTimeout(r) \/ WaitClosed(r)
             \/ Start(r) \/ CloseMark(r)
      PROVE Goal
  BY <1>5 DEF RunLoop, TryLock, HandlerErr, AdvanceCursor, Woken, PollTimeout,
              WaitClosed, Start, CloseMark, SamePage
<1>6. CASE UNCHANGED taskVars
  BY <1>6 DEF taskVars, SamePage
<1>7. QED
  BY <1>1, <1>2, <1>3, <1>4, <1>5, <1>6
     DEF Next, DrainTask, PublishCommit, PublishNotify, PublishInsert,
         Subscribe, ListenerDrop, ListenerReconnect, ClientLost, vars

\* While handlers run, the page and the snapshot are left alone, or the
\* snapshot was just taken, or one of its handlers returned Ok.
LEMMA HandlerStep ==
  ASSUME TypeOK, [Next]_vars, NEW s \in Replicas, pc'[s] = "handler"
  PROVE  /\ batch'[s] = batch[s]
         /\ \/ pc[s] = "handler" /\ matched'[s] = matched[s]
            \/ \E i \in Ids : DispatchRow(s, i)
            \/ \E i \in Ids, h \in Handlers : HandlerOk(s, i, h)
<1> DEFINE Goal == /\ batch'[s] = batch[s]
                   /\ \/ pc[s] = "handler" /\ matched'[s] = matched[s]
                      \/ \E i \in Ids : DispatchRow(s, i)
                      \/ \E i \in Ids, h \in Handlers : HandlerOk(s, i, h)
<1> USE DEF TypeOK
<1>1. ASSUME NEW r \in Replicas, NEW i \in Ids, DispatchRow(r, i) PROVE Goal
  <2>1. CASE Matching(r, i) = {}
    BY <1>1, <2>1 DEF DispatchRow, RowDone
  <2>2. CASE Matching(r, i) # {}
    BY <1>1, <2>2, ZenonT(60) DEF DispatchRow
  <2>3. QED
    BY <2>1, <2>2
<1>2. ASSUME NEW r \in Replicas, NEW i \in Ids, NEW h \in Handlers,
             HandlerOk(r, i, h)
      PROVE Goal
  <2>1. CASE matched[r] = {h}
    BY <1>2, <2>1 DEF HandlerOk, RowDone
  <2>2. CASE matched[r] # {h}
    BY <1>2, <2>2 DEF HandlerOk
  <2>3. QED
    BY <2>1, <2>2
<1>3. ASSUME NEW r \in Replicas, CloseAbort(r) \/ Crash(r) \/ Unlock(r)
      PROVE Goal
  BY <1>3 DEF CloseAbort, Crash, Unlock, DropLocals
<1>4. ASSUME NEW r \in Replicas,
             \/ RunLoop(r) \/ TryLock(r) \/ FetchBatch(r) \/ HandlerErr(r)
             \/ AdvanceCursor(r) \/ Woken(r) \/ PollTimeout(r) \/ WaitClosed(r)
             \/ Start(r) \/ CloseMark(r)
      PROVE Goal
  BY <1>4 DEF RunLoop, TryLock, FetchBatch, HandlerErr, AdvanceCursor, Woken,
              PollTimeout, WaitClosed, Start, CloseMark
<1>5. CASE UNCHANGED taskVars
  BY <1>5 DEF taskVars
<1>6. QED
  BY <1>1, <1>2, <1>3, <1>4, <1>5
     DEF Next, DrainTask, PublishCommit, PublishNotify, PublishInsert,
         Subscribe, ListenerDrop, ListenerReconnect, ClientLost, vars

-----------------------------------------------------------------------------
(* The conjuncts of the invariant, one lemma each *)

\* Ids come from the sequence: no step puts a row beyond it.
LEMMA SequenceStep ==
  ASSUME TypeOK, SequenceInv, [Next]_vars PROVE SequenceInv'
<1> USE DEF TypeOK, SequenceInv, Ids
<1>1. ASSUME NEW i \in Ids, PublishCommit(i) \/ PublishNotify(i) PROVE SequenceInv'
  BY <1>1 DEF PublishCommit, PublishNotify
<1>2. ASSUME NEW r \in Replicas, NEW k \in Kinds, PublishInsert(r, k)
      PROVE SequenceInv'
  BY <1>2, BrokerAssumption DEF PublishInsert
<1>3. ASSUME NEW r \in Replicas, CloseAbort(r) \/ ClientLost(r) \/ Crash(r)
      PROVE SequenceInv'
  BY <1>3, ZenonT(60) DEF CloseAbort, ClientLost, Crash, AbandonRows
<1>4. CASE UNCHANGED <<row, nextId>>
  BY <1>4
<1>5. QED
  BY <1>1, <1>2, <1>3, <1>4
     DEF Next, DrainTask, Start, CloseMark, RunLoop, TryLock, FetchBatch,
         DispatchRow, HandlerOk, HandlerErr, AdvanceCursor, Unlock, Woken,
         PollTimeout, WaitClosed, ListenerDrop, ListenerReconnect, Subscribe,
         vars, dbVars, rowVars

\* The advisory lock follows its session through start, drain, unlock and loss.
LEMMA LockStep ==
  ASSUME TypeOK, LockInv, [Next]_vars PROVE LockInv'
<1> USE BrokerAssumption DEF TypeOK, LockInv, Locked, InPage
<1>1. ASSUME NEW r \in Replicas, Start(r) PROVE LockInv'
  BY <1>1 DEF Start, dbVars
<1>2. ASSUME NEW r \in Replicas, CloseMark(r) PROVE LockInv'
  BY <1>2 DEF CloseMark, dbVars
<1>3. ASSUME NEW r \in Replicas, CloseAbort(r) \/ Crash(r) PROVE LockInv'
  BY <1>3 DEF CloseAbort, Crash, Release
<1>4. ASSUME NEW r \in Replicas, ClientLost(r) PROVE LockInv'
  BY <1>4 DEF ClientLost, Release, taskVars
<1>5. ASSUME NEW r \in Replicas, TryLock(r) PROVE LockInv'
  BY <1>5 DEF TryLock, stateVars
<1>6. ASSUME NEW r \in Replicas, Unlock(r) PROVE LockInv'
  BY <1>6 DEF Unlock, Release
<1>7. ASSUME NEW r \in Replicas, NEW i \in Ids, DispatchRow(r, i) PROVE LockInv'
  BY <1>7 DEF DispatchRow, RowDone, dbVars, stateVars
<1>8. ASSUME NEW r \in Replicas, NEW i \in Ids, NEW h \in Handlers,
             HandlerOk(r, i, h)
      PROVE LockInv'
  BY <1>8 DEF HandlerOk, RowDone, dbVars, stateVars
<1>9. ASSUME NEW r \in Replicas,
             \/ RunLoop(r) \/ FetchBatch(r) \/ HandlerErr(r) \/ AdvanceCursor(r)
             \/ Woken(r) \/ PollTimeout(r) \/ WaitClosed(r)
      PROVE LockInv'
  BY <1>9 DEF RunLoop, FetchBatch, HandlerErr, AdvanceCursor, Woken,
              PollTimeout, WaitClosed, dbVars, stateVars
<1>10. CASE UNCHANGED <<lock, client, pc>>
  BY <1>10
<1>11. QED
  BY <1>1, <1>2, <1>3, <1>4, <1>5, <1>6, <1>7, <1>8, <1>9, <1>10
     DEF Next, DrainTask, PublishCommit, PublishNotify, PublishInsert,
         Subscribe, ListenerDrop, ListenerReconnect, vars, dbVars, stateVars,
         taskVars

\* No step gives a connected drain task a page that the cursor has left behind.
LEMMA SingleDrainerStep ==
  ASSUME TypeOK, LockInv, SingleDrainer, [Next]_vars PROVE SingleDrainer'
<1> SUFFICES ASSUME NEW s \in Replicas, client'[s], pc'[s] \in InPage
             PROVE  lock' = s /\ offset'[s] = last_event_id'
  BY DEF SingleDrainer
<1>1. lock' = s
  BY LockStep DEF LockInv, Locked
<1>2. CASE \E r \in Replicas : AdvanceCursor(r)
  <2> PICK r \in Replicas : AdvanceCursor(r)
    BY <1>2
  <2>1. lock = s /\ client[s] /\ r # s
    BY <1>1 DEF AdvanceCursor, InPage, TypeOK, stateVars
  <2>2. ~client[r]
    BY <2>1 DEF AdvanceCursor, LockInv, Locked, InPage
  <2>3. UNCHANGED <<last_event_id, offset>> /\ pc'[s] = pc[s]
    BY <2>1, <2>2 DEF AdvanceCursor, TypeOK
  <2>4. QED
    BY <1>1, <2>1, <2>3 DEF SingleDrainer
<1>3. CASE UNCHANGED last_event_id
  <2>1. SamePage(s) \/ FetchBatch(s) \/ \E i \in Ids : PageAdvance(s, i)
    BY PageStep
  <2>2. CASE FetchBatch(s)
    BY <1>1, <1>3, <2>2 DEF FetchBatch, TypeOK
  <2>3. CASE \E i \in Ids : PageAdvance(s, i)
    BY <1>1, <1>3, <2>3
       DEF PageAdvance, DispatchRow, HandlerOk, SingleDrainer, InPage, stateVars
  <2>4. CASE SamePage(s)
    <3>1. client[s]
      <4>1. ASSUME NEW r \in Replicas, Start(r) PROVE client[s]
        BY <4>1, <2>4 DEF Start, TypeOK, InPage
      <4>2. CASE \A r \in Replicas : ~Start(r)
        BY <4>2 DEF Next, DrainTask, CloseMark, CloseAbort, RunLoop, TryLock,
             FetchBatch, DispatchRow, HandlerOk, HandlerErr, AdvanceCursor,
             Unlock, Woken, PollTimeout, WaitClosed, ListenerDrop,
             ListenerReconnect, ClientLost, Crash, Subscribe, PublishInsert,
             PublishCommit, PublishNotify, vars, stateVars, TypeOK
      <4>3. QED
        BY <4>1, <4>2
    <3>2. QED
      BY <1>1, <1>3, <2>4, <3>1 DEF SingleDrainer, SamePage
  <2>5. QED
    BY <2>1, <2>2, <2>3, <2>4
<1>4. QED
  BY <1>2, <1>3
     DEF Next, DrainTask, Start, CloseMark, CloseAbort, RunLoop, TryLock,
         FetchBatch, DispatchRow, HandlerOk, HandlerErr, Unlock, Woken,
         PollTimeout, WaitClosed, ListenerDrop, ListenerReconnect, ClientLost,
         Crash, Subscribe, PublishInsert, PublishCommit, PublishNotify, vars,
         dbVars

\* Fetching and dispatching keep the page beyond the last dispatched row.
LEMMA PageInvStep ==
  ASSUME TypeOK, SequenceInv, PageInv, [Next]_vars PROVE PageInv'
<1> SUFFICES ASSUME NEW s \in Replicas, pc'[s] \in InPage
             PROVE  /\ offset'[s] <= last_dispatched'[s]
                    /\ offset'[s] <= last_event_id'
                    /\ offset'[s] < last_dispatched'[s] => Visible(last_dispatched[s])'
                    /\ \A i \in batch'[s] : last_dispatched'[s] < i /\ Visible(i)'
  BY DEF PageInv
<1>1. Growth
  BY GrowthStep
<1>2. TypeOK'
  BY TypeStep
<1>3. CASE SamePage(s)
  <2>1. /\ offset[s] <= last_dispatched[s] /\ offset[s] <= last_event_id
        /\ offset[s] < last_dispatched[s] => Visible(last_dispatched[s])
        /\ \A i \in batch[s] : last_dispatched[s] < i /\ Visible(i)
    BY <1>3 DEF SamePage, PageInv
  <2>2. /\ offset[s] \in Nat /\ last_event_id \in Nat /\ last_event_id' \in Nat
        /\ batch[s] \subseteq Ids
    BY <1>2 DEF TypeOK, Ids
  <2>3. offset[s] < last_dispatched[s] => last_dispatched[s] \in Ids
    BY <2>1, <2>2 DEF TypeOK, Ids
  <2>4. last_event_id <= last_event_id' /\ \A i \in Ids : Visible(i) => Visible(i)'
    BY <1>1 DEF Growth
  <2>5. /\ offset'[s] = offset[s] /\ last_dispatched'[s] = last_dispatched[s]
        /\ batch'[s] = batch[s]
    BY <1>3 DEF SamePage
  <2>6. offset'[s] <= last_event_id'
    BY <2>1, <2>2, <2>4, <2>5
  <2>7. offset'[s] < last_dispatched'[s] => Visible(last_dispatched[s])'
    BY <2>1, <2>3, <2>4, <2>5 DEF Visible
  <2> QED
    BY <2>1, <2>2, <2>4, <2>5, <2>6, <2>7
<1>4. CASE FetchBatch(s)
  BY <1>4 DEF FetchBatch, SelectBatch, Eligible, Visible, TypeOK, dbVars, rowVars, Ids
<1>5. CASE \E i \in Ids : PageAdvance(s, i)
  <2> PICK i \in Ids : PageAdvance(s, i)
    BY <1>5
  <2>1. /\ pc[s] \in InPage /\ NextRow(s, i)
        /\ UNCHANGED <<row, offset, last_event_id>>
    BY DEF PageAdvance, DispatchRow, HandlerOk, InPage, dbVars, rowVars
  <2>2. last_dispatched'[s] = i /\ batch'[s] = batch[s] \ {i}
    BY DEF PageAdvance, RowDone, TypeOK
  <2>3. QED
    BY <2>1, <2>2 DEF PageInv, NextRow, Visible, TypeOK, Ids
<1>6. QED
  BY <1>3, <1>4, <1>5, PageStep

\* The batch query leaves no eligible row behind the last row it returns.
LEMMA SelectBatchPrefix ==
  ASSUME TypeOK, NEW o \in 0..MaxEvents, NEW j \in Eligible(o),
         NEW k \in SelectBatch(o), j < k
  PROVE  j \in SelectBatch(o)
<1> DEFINE rows == Eligible(o)
           Below(i) == {x \in rows : x < i}
<1>1. IsFiniteSet(Ids)
  BY FS_Interval, BrokerAssumption DEF Ids
<1>2. rows \subseteq Ids /\ k \in rows
  BY DEF Eligible, SelectBatch
<1>3. Below(j) \subseteq Below(k) /\ Below(k) \subseteq Ids
  BY <1>2 DEF Ids
<1>4. IsFiniteSet(Below(k)) /\ IsFiniteSet(Below(j))
  BY <1>1, <1>3, FS_Subset
<1>5. /\ Cardinality(Below(j)) <= Cardinality(Below(k))
      /\ Cardinality(Below(j)) \in Nat /\ Cardinality(Below(k)) \in Nat
  BY <1>3, <1>4, FS_Subset, FS_CardinalityType
<1>6. Cardinality(Below(k)) < BatchSize
  BY DEF SelectBatch
<1>7. Cardinality(Below(j)) < BatchSize
  BY <1>5, <1>6, BrokerAssumption
<1>8. QED
  BY <1>7 DEF SelectBatch

\* A settled row stays settled, unless it becomes visible with nothing of the
\* group beyond it.
LEMMA SettledKept ==
  ASSUME Growth, NEW j \in Ids, Settled(j), Visible(j) \/ Overtaken(j)
  PROVE  Settled(j)'
BY DEF Growth, Settled, Owed, Visible

\* No row between the page's cursor and its end is dropped from the page unsettled.
LEMMA CoverStep ==
  ASSUME TypeOK, SequenceInv, PageInv, CoverInv, SnapshotInv, [Next]_vars
  PROVE  CoverInv'
<1> SUFFICES ASSUME NEW s \in Replicas, pc'[s] \in InPage,
                    NEW j \in Ids, offset'[s] < j, j \notin batch'[s],
                    NEW k \in batch'[s] \cup {last_dispatched'[s]}, j <= k
             PROVE  Settled(j)'
  BY DEF CoverInv
<1>1. Growth
  BY GrowthStep
<1>2. ASSUME pc[s] \in InPage, offset[s] < j, j \notin batch[s],
             NEW m \in batch[s] \cup {last_dispatched[s]}, j <= m
      PROVE  Settled(j)'
  <2>1. Settled(j)
    BY <1>2 DEF CoverInv
  <2>2. Visible(j) \/ Overtaken(j)
    <3>1. CASE j = m
      BY <1>2, <3>1 DEF PageInv
    <3>2. CASE j < m
      BY <1>2, <3>2 DEF Overtaken
    <3>3. QED
      BY <1>2, <3>1, <3>2 DEF TypeOK, Ids
  <2>3. QED
    BY <1>1, <2>1, <2>2, SettledKept
<1>3. CASE SamePage(s)
  BY <1>2, <1>3 DEF SamePage
<1>4. CASE FetchBatch(s)
  <2>1. /\ offset'[s] = last_event_id /\ last_dispatched'[s] = last_event_id
        /\ UNCHANGED <<row, kind, late>>
    BY <1>4 DEF FetchBatch, TypeOK, dbVars, rowVars, histVars
  <2>2. batch'[s] = SelectBatch(last_event_id)
    BY <1>4 DEF FetchBatch, TypeOK, InPage
  <2>3. k \in SelectBatch(last_event_id) /\ j < k
    <3>1. SelectBatch(last_event_id) \subseteq Ids
      BY DEF SelectBatch, Eligible
    <3>2. QED
      BY <2>1, <2>2, <3>1 DEF TypeOK, Ids
  <2>4. j \notin Eligible(last_event_id)
    BY <2>2, <2>3, SelectBatchPrefix DEF TypeOK
  <2>5. QED
    BY <2>1, <2>4 DEF Eligible, Settled, Owed, Visible
<1>5. CASE \E i \in Ids : PageAdvance(s, i)
  <2> PICK i \in Ids : PageAdvance(s, i)
    BY <1>5
  <2>1. /\ pc[s] \in InPage /\ NextRow(s, i)
        /\ UNCHANGED <<row, kind, offset>>
    BY DEF PageAdvance, DispatchRow, HandlerOk, InPage, dbVars, rowVars
  <2>2. last_dispatched'[s] = i /\ batch'[s] = batch[s] \ {i}
    BY DEF PageAdvance, RowDone, TypeOK
  <2>3. CASE j # i
    BY <1>2, <2>1, <2>2, <2>3 DEF NextRow
  <2>4. CASE j = i
    <3>1. ASSUME NEW h \in Handlers, Owed(i, h) PROVE <<i, h>> \in handled' \cup missed' \cup cleared'
      <4>1. CASE DispatchRow(s, i)
        <5>1. Matching(s, i) = {}
          BY <4>1 DEF PageAdvance, DispatchRow, RowDone, TypeOK
        <5>2. h \in Unregistered(s, i)
          BY <3>1, <5>1 DEF Matching, Unregistered, Owed
        <5>3. QED
          BY <4>1, <5>2 DEF DispatchRow
      <4>2. CASE \E g \in Handlers : HandlerOk(s, i, g) /\ matched[s] = {g}
        BY <1>1, <2>1, <3>1, <4>2 DEF HandlerOk, SnapshotInv, Growth
      <4>3. QED
        BY <4>1, <4>2 DEF PageAdvance
    <3>2. QED
      BY <2>1, <2>4, <3>1 DEF Settled, Owed, Visible
  <2>5. QED
    BY <2>3, <2>4
<1>6. QED
  BY <1>3, <1>4, <1>5, PageStep

\* A handler leaves the dispatch snapshot only by returning Ok.
LEMMA SnapshotStep ==
  ASSUME TypeOK, SequenceInv, PageInv, SnapshotInv, [Next]_vars
  PROVE  SnapshotInv'
<1> SUFFICES ASSUME NEW s \in Replicas, pc'[s] = "handler",
                    NEW i \in Ids, NEW h \in Handlers \ matched'[s],
                    NextRow(s, i)', Owed(i, h)'
             PROVE  <<i, h>> \in handled' \cup missed' \cup cleared'
  BY DEF SnapshotInv
<1>1. Growth
  BY GrowthStep
<1>2. batch'[s] = batch[s] /\ NextRow(s, i)
  BY HandlerStep DEF NextRow
<1>3. CASE pc[s] = "handler" /\ matched'[s] = matched[s]
  <2>1. Visible(i)
    BY <1>2, <1>3 DEF PageInv, NextRow, InPage
  <2>2. Owed(i, h)
    BY <1>1, <2>1 DEF Growth, Owed
  <2>3. QED
    BY <1>1, <1>2, <1>3, <2>2 DEF SnapshotInv, Growth
<1>4. CASE \E x \in Ids : DispatchRow(s, x)
  <2> PICK x \in Ids : DispatchRow(s, x)
    BY <1>4
  <2>1. x = i
    BY <1>2 DEF DispatchRow, NextRow, Ids
  <2>2. kind[i] \in Pattern[h] /\ h \notin Matching(s, i)
    BY <2>1 DEF DispatchRow, Owed, TypeOK, dbVars, rowVars
  <2>3. QED
    BY <2>1, <2>2 DEF DispatchRow, Matching, Unregistered
<1>5. CASE \E x \in Ids, g \in Handlers : HandlerOk(s, x, g)
  <2> PICK x \in Ids, g \in Handlers : HandlerOk(s, x, g)
    BY <1>5
  <2>1. x = i
    BY <1>2 DEF HandlerOk, NextRow, Ids
  <2>2. Owed(i, h)
    BY DEF HandlerOk, Owed, Visible, dbVars, rowVars
  <2>3. h \notin matched[s] \ {g}
    BY DEF HandlerOk, TypeOK
  <2>4. QED
    BY <1>2, <2>1, <2>2, <2>3 DEF HandlerOk, SnapshotInv
<1>6. QED
  BY <1>3, <1>4, <1>5, HandlerStep

\* UPDATE_OFFSET moves the cursor over settled rows only.
LEMMA NoSilentSkipStep ==
  ASSUME TypeOK, SequenceInv, LockInv, PageInv, CoverInv, SingleDrainer,
         NoSilentSkip, [Next]_vars
  PROVE  NoSilentSkip'
<1> SUFFICES ASSUME NEW j \in Ids, j <= last_event_id' PROVE Settled(j)'
  BY DEF NoSilentSkip, Settled
<1>1. Growth
  BY GrowthStep
<1>2. CASE j <= last_event_id
  <2>1. Settled(j) /\ Overtaken(j)
    BY <1>2 DEF NoSilentSkip, Settled, Overtaken
  <2>2. QED
    BY <1>1, <2>1, SettledKept
<1>3. CASE last_event_id < j
  <2>1. PICK r \in Replicas : AdvanceCursor(r)
    BY <1>3
       DEF Next, DrainTask, Start, CloseMark, CloseAbort, RunLoop, TryLock,
           FetchBatch, DispatchRow, HandlerOk, HandlerErr, Unlock, Woken,
           PollTimeout, WaitClosed, ListenerDrop, ListenerReconnect, ClientLost,
           Crash, Subscribe, PublishInsert, PublishCommit, PublishNotify, vars,
           dbVars, TypeOK, Ids
  <2>2. client[r] /\ pc[r] \in InPage /\ j <= last_dispatched[r]
    BY <1>3, <2>1 DEF AdvanceCursor, InPage, TypeOK, Ids
  <2>3. offset[r] < j /\ j \notin batch[r]
    BY <1>3, <2>2 DEF SingleDrainer, PageInv, TypeOK, Ids
  <2>4. Settled(j)
    BY <2>2, <2>3 DEF CoverInv
  <2>5. UNCHANGED <<row, kind, handled, missed, cleared, late>>
    BY <2>1 DEF AdvanceCursor, rowVars, histVars
  <2>6. QED
    BY <2>4, <2>5 DEF Settled, Owed, Visible
<1>4. QED
  BY <1>2, <1>3 DEF TypeOK, Ids

\* A handler call returns Ok only when the owed rows before it are settled.
LEMMA OrderedStep ==
  ASSUME TypeOK, SequenceInv, PageInv, CoverInv, NoSilentSkip,
         OrderedFirstDelivery, [Next]_vars
  PROVE  OrderedFirstDelivery'
<1> SUFFICES ASSUME NEW i \in Ids, NEW j \in Ids, NEW h \in Handlers,
                    <<i, h>> \in handled', j < i, Owed(j, h)'
             PROVE  <<j, h>> \in handled' \cup missed' \cup cleared' \/ j \in late'
  BY DEF OrderedFirstDelivery
<1>1. Growth
  BY GrowthStep
<1>2. CASE <<i, h>> \in handled
  <2>1. CASE Visible(j)
    BY <1>1, <1>2, <2>1 DEF Growth, Owed, OrderedFirstDelivery
  <2>2. CASE ~Visible(j)
    BY <1>1, <1>2, <2>2 DEF Growth, Owed, Overtaken
  <2>3. QED
    BY <2>1, <2>2
<1>3. CASE <<i, h>> \notin handled
  <2>1. PICK r \in Replicas, x \in Ids, g \in Handlers : HandlerOk(r, x, g)
    BY <1>3
       DEF Next, DrainTask, Start, CloseMark, CloseAbort, RunLoop, TryLock,
           FetchBatch, DispatchRow, HandlerErr, AdvanceCursor, Unlock, Woken,
           PollTimeout, WaitClosed, ListenerDrop, ListenerReconnect, ClientLost,
           Crash, Subscribe, PublishInsert, PublishCommit, PublishNotify, vars,
           histVars
  <2>2. /\ i = x /\ pc[r] \in InPage /\ NextRow(r, i)
        /\ UNCHANGED <<row, kind, missed, cleared, late>>
    BY <1>3, <2>1 DEF HandlerOk, InPage, dbVars, rowVars
  <2>3. Owed(j, h) /\ j \notin batch[r]
    BY <2>2 DEF Owed, Visible, NextRow, Ids
  <2>4. Settled(j)
    <3>1. CASE j <= offset[r]
      BY <2>2, <3>1 DEF PageInv, NoSilentSkip, Settled, TypeOK, Ids
    <3>2. CASE offset[r] < j
      <4>1. i \in batch[r] /\ j <= i
        BY <2>2 DEF NextRow, Ids
      <4>2. QED
        BY <2>2, <2>3, <3>2, <4>1 DEF CoverInv
    <3>3. QED
      BY <3>1, <3>2 DEF TypeOK, Ids
  <2>5. QED
    BY <1>1, <2>3, <2>4 DEF Settled, Growth
<1>4. QED
  BY <1>2, <1>3

\* Closing a broker, losing its session and crashing all count as faults.
LEMMA SessionStep == ASSUME TypeOK, SessionInv, [Next]_vars PROVE SessionInv'
<1> SUFFICES ASSUME faults' = 0, NEW s \in Replicas
             PROVE  Sound(s)'
  BY DEF SessionInv
<1> USE DEF TypeOK, Sound
<1>1. CASE \E r \in Replicas : CloseMark(r) \/ HandlerErr(r) \/ ListenerDrop(r) \/ ClientLost(r) \/ Crash(r)
  BY <1>1, BrokerAssumption DEF CloseMark, HandlerErr, ListenerDrop, ClientLost, Crash
<1>2. CASE faults = 0
  <2>1. \A r \in Replicas : Sound(r)
    BY <1>2 DEF SessionInv
  <2>2. ASSUME NEW r \in Replicas, Start(r) PROVE Sound(s)'
    BY <2>1, <2>2 DEF Start
  <2>3. ASSUME NEW r \in Replicas, CloseAbort(r) PROVE FALSE
    BY <2>1, <2>3 DEF CloseAbort
  <2>4. ASSUME NEW r \in Replicas,
               \/ RunLoop(r) \/ TryLock(r) \/ FetchBatch(r) \/ AdvanceCursor(r) \/ Unlock(r)
               \/ Woken(r) \/ PollTimeout(r) \/ WaitClosed(r)
        PROVE  Sound(s)'
    BY <2>1, <2>4 DEF RunLoop, TryLock, FetchBatch, AdvanceCursor, Unlock, Woken, PollTimeout,
                      WaitClosed, stateVars
  <2>5. ASSUME NEW r \in Replicas, NEW i \in Ids, DispatchRow(r, i)
        PROVE  Sound(s)'
    BY <2>1, <2>5 DEF DispatchRow, RowDone, stateVars
  <2>6. ASSUME NEW r \in Replicas, NEW i \in Ids, NEW h \in Handlers, HandlerOk(r, i, h)
        PROVE  Sound(s)'
    BY <2>1, <2>6 DEF HandlerOk, RowDone, stateVars
  <2>7. CASE UNCHANGED <<closed, pc, client, started>>
    BY <2>1, <2>7
  <2> QED
    BY <1>1, <2>2, <2>3, <2>4, <2>5, <2>6, <2>7
       DEF Next, DrainTask, ListenerReconnect, Subscribe, PublishInsert, PublishCommit,
           PublishNotify, vars, stateVars, taskVars
<1>3. CASE faults # 0
  BY <1>1, <1>3
     DEF Next, DrainTask, Start, CloseAbort, RunLoop, TryLock, FetchBatch, DispatchRow, HandlerOk,
         AdvanceCursor, Unlock, Woken, PollTimeout, WaitClosed, ListenerReconnect, Subscribe,
         PublishInsert, PublishCommit, PublishNotify, vars
<1> QED
  BY <1>2, <1>3

\* Until the first fault two drain tasks are never between lock and unlock at once.
LEMMA OneInPage ==
  ASSUME LockInv, SessionInv, faults = 0, NEW r \in Replicas, NEW s \in Replicas,
         pc[r] \in Locked, pc[s] \in Locked
  PROVE  r = s
<1>1. client[r] /\ client[s]
  BY DEF SessionInv, Sound, Locked, InPage
<1> QED
  BY <1>1 DEF LockInv

\* No step fetches again what was delivered, unless something has failed.
LEMMA DeliveredStep ==
  ASSUME TypeOK, SequenceInv, LockInv, PageInv, SingleDrainer, SessionInv, DeliveredInv, [Next]_vars
  PROVE  DeliveredInv'
<1> SUFFICES ASSUME faults' = 0, NEW i \in Ids, NEW h \in Handlers, <<i, h>> \in handled'
             PROVE  Behind(i, h)'
  BY DEF DeliveredInv
<1>1. faults = 0
  BY BrokerAssumption
     DEF TypeOK, Next, DrainTask, Start, CloseAbort, RunLoop, TryLock, FetchBatch, DispatchRow,
         HandlerOk, AdvanceCursor, Unlock, Woken, PollTimeout, WaitClosed, ListenerReconnect,
         Subscribe, PublishInsert, PublishCommit, PublishNotify, vars, CloseMark, HandlerErr,
         ListenerDrop, ClientLost, Crash
<1>2. \A r \in Replicas : Sound(r)
  BY <1>1 DEF SessionInv
<1>3. Growth
  BY GrowthStep
<1>4. CASE i <= last_event_id
  <2>1. last_event_id \in Int /\ last_event_id' \in Int /\ last_event_id <= last_event_id'
    BY <1>3, TypeStep DEF Growth, TypeOK
  <2>2. i <= last_event_id'
    BY <1>4, <2>1 DEF Ids
  <2> QED
    BY <2>2 DEF Behind
<1>5. ASSUME NEW s \in Replicas, pc[s] \in InPage,
             i <= last_dispatched[s] \/ (pc[s] = "handler" /\ NextRow(s, i) /\ h \notin matched[s])
      PROVE  Behind(i, h)'
  <2>1. CASE /\ pc'[s] = pc[s] /\ last_dispatched'[s] = last_dispatched[s]
             /\ batch'[s] = batch[s] /\ matched'[s] = matched[s]
    BY <1>5, <2>1 DEF Behind, NextRow
  <2>2. CASE AdvanceCursor(s)
    <3>1. pc[s] = "advance" /\ client[s] /\ i <= last_dispatched[s]
      BY <1>2, <1>5, <2>2 DEF AdvanceCursor, Sound, InPage
    <3>2. offset[s] = last_event_id
      BY <1>5, <3>1 DEF SingleDrainer
    <3>3. i <= last_event_id'
      BY <2>2, <3>1, <3>2 DEF AdvanceCursor, TypeOK, Ids
    <3> QED
      BY <3>3 DEF Behind
  <2>3. ASSUME NEW x \in Ids, NextRow(s, x), RowDone(s, x), i <= last_dispatched[s] \/ i = x
        PROVE  Behind(i, h)'
    <3>1. last_dispatched'[s] = x /\ pc'[s] \in InPage /\ last_dispatched[s] < x
      BY <1>5, <2>3 DEF RowDone, TypeOK, InPage, PageInv, NextRow
    <3>2. i <= last_dispatched'[s]
      BY <2>3, <3>1 DEF TypeOK, Ids
    <3> QED
      BY <3>1, <3>2 DEF Behind
  <2>4. ASSUME NEW x \in Ids, DispatchRow(s, x) PROVE Behind(i, h)'
    <3>1. NextRow(s, x) /\ pc[s] = "dispatch" /\ i <= last_dispatched[s]
      BY <1>5, <2>4 DEF DispatchRow
    <3>2. CASE Matching(s, x) = {}
      BY <2>3, <2>4, <3>1, <3>2 DEF DispatchRow
    <3>3. CASE Matching(s, x) # {}
      <4>1. pc'[s] = "handler" /\ last_dispatched'[s] = last_dispatched[s]
        BY <2>4, <3>3 DEF DispatchRow, TypeOK
      <4> QED
        BY <3>1, <4>1 DEF Behind, InPage
    <3> QED
      BY <3>2, <3>3
  <2>5. ASSUME NEW x \in Ids, NEW g \in Handlers, HandlerOk(s, x, g) PROVE Behind(i, h)'
    <3>1. NextRow(s, x) /\ pc[s] = "handler" /\ (NextRow(s, i) => i = x)
      BY <2>5 DEF HandlerOk, NextRow, Ids
    <3>2. CASE matched[s] = {g}
      BY <1>5, <2>3, <2>5, <3>1, <3>2 DEF HandlerOk
    <3>3. CASE matched[s] # {g}
      <4>1. /\ pc'[s] = "handler" /\ last_dispatched'[s] = last_dispatched[s]
            /\ batch'[s] = batch[s] /\ matched'[s] = matched[s] \ {g}
        BY <2>5, <3>1, <3>3 DEF HandlerOk, TypeOK
      <4> QED
        BY <1>5, <4>1 DEF Behind, InPage, NextRow
    <3> QED
      BY <3>2, <3>3
  <2>6. ASSUME NEW r \in Replicas, r # s,
               \/ FetchBatch(r) \/ AdvanceCursor(r) \/ Unlock(r)
               \/ \E x \in Ids : DispatchRow(r, x) \/ \E g \in Handlers : HandlerOk(r, x, g)
        PROVE  FALSE
    <3>1. pc[r] \in Locked /\ pc[s] \in Locked
      BY <1>5, <2>6 DEF FetchBatch, AdvanceCursor, Unlock, DispatchRow, HandlerOk, Locked, InPage
    <3> QED
      BY <1>1, <2>6, <3>1, OneInPage
  <2>7. ASSUME FetchBatch(s) \/ Unlock(s) PROVE FALSE
    BY <1>5, <2>7 DEF FetchBatch, Unlock, InPage
  <2>8. ASSUME NEW r \in Replicas,
               \/ RunLoop(r) \/ TryLock(r) \/ Woken(r) \/ PollTimeout(r) \/ WaitClosed(r)
        PROVE  /\ pc'[s] = pc[s] /\ last_dispatched'[s] = last_dispatched[s]
               /\ batch'[s] = batch[s] /\ matched'[s] = matched[s]
    BY <1>5, <2>8 DEF RunLoop, TryLock, Woken, PollTimeout, WaitClosed, InPage, TypeOK
  <2>9. ASSUME NEW r \in Replicas, Start(r)
        PROVE  /\ pc'[s] = pc[s] /\ last_dispatched'[s] = last_dispatched[s]
               /\ batch'[s] = batch[s] /\ matched'[s] = matched[s]
    BY <1>2, <1>5, <2>9 DEF Start, Sound, InPage, TypeOK
  <2>10. ASSUME NEW r \in Replicas,
                \/ CloseMark(r) \/ CloseAbort(r) \/ HandlerErr(r) \/ ListenerDrop(r)
                \/ ClientLost(r) \/ Crash(r)
         PROVE  FALSE
    BY <1>1, <1>2, <2>10, BrokerAssumption
       DEF CloseMark, CloseAbort, HandlerErr, ListenerDrop, ClientLost, Crash, Sound
  <2>11. CASE UNCHANGED taskVars
    BY <2>1, <2>11 DEF taskVars
  <2>12. CASE \E r \in Replicas : DrainTask(r)
    <3> PICK r \in Replicas : DrainTask(r)
      BY <2>12
    <3>1. CASE r = s
      BY <2>1, <2>2, <2>4, <2>5, <2>7, <2>8, <2>10, <3>1 DEF DrainTask
    <3>2. CASE r # s
      BY <2>1, <2>6, <2>8, <2>10, <3>2 DEF DrainTask
    <3> QED
      BY <3>1, <3>2
  <2> QED
    BY <2>1, <2>9, <2>10, <2>11, <2>12
       DEF Next, ListenerReconnect, Subscribe, PublishInsert, PublishCommit, PublishNotify, vars
<1>6. CASE <<i, h>> \in handled
  <2>1. Behind(i, h)
    BY <1>1, <1>6 DEF DeliveredInv
  <2> QED
    BY <1>4, <1>5, <2>1 DEF Behind
<1>7. CASE <<i, h>> \notin handled
  <2>1. PICK s \in Replicas, x \in Ids, g \in Handlers : HandlerOk(s, x, g)
    BY <1>7
       DEF Next, DrainTask, Start, CloseMark, CloseAbort, RunLoop, TryLock,
           FetchBatch, DispatchRow, HandlerErr, AdvanceCursor, Unlock, Woken,
           PollTimeout, WaitClosed, ListenerDrop, ListenerReconnect, ClientLost,
           Crash, Subscribe, PublishInsert, PublishCommit, PublishNotify, vars,
           histVars
  <2>2. i = x /\ h = g /\ NextRow(s, i)
    BY <1>7, <2>1 DEF HandlerOk
  <2>3. CASE matched[s] = {g}
    <3>1. last_dispatched'[s] = i /\ pc'[s] \in InPage
      BY <2>1, <2>2, <2>3 DEF HandlerOk, RowDone, TypeOK, InPage
    <3>2. i <= last_dispatched'[s]
      BY <3>1 DEF Ids
    <3> QED
      BY <3>1, <3>2 DEF Behind
  <2>4. CASE matched[s] # {g}
    <3>1. pc'[s] = "handler" /\ batch'[s] = batch[s] /\ h \notin matched'[s]
      BY <2>1, <2>2, <2>4 DEF HandlerOk, TypeOK
    <3> QED
      BY <2>2, <3>1 DEF Behind, InPage, NextRow
  <2> QED
    BY <2>3, <2>4
<1> QED
  BY <1>6, <1>7

-----------------------------------------------------------------------------
(* The invariant and its consequences *)

\* The invariant holds before any replica starts.
LEMMA IInvInit == Init => IInv
<1> SUFFICES ASSUME Init PROVE IInv
  OBVIOUS
<1>1. TypeOK
  BY TypeInit
<1>2. QED
  BY <1>1
     DEF Init, IInv, SequenceInv, LockInv, PageInv, CoverInv, SnapshotInv,
         SingleDrainer, NoSilentSkip, OrderedFirstDelivery, Locked, InPage,
         Owed, Visible, SessionInv, DeliveredInv, Sound

\* Every step preserves the invariant.
LEMMA IInvStep == IInv /\ [Next]_vars => IInv'
BY TypeStep, SequenceStep, LockStep, PageInvStep, CoverStep, SnapshotStep,
   SingleDrainerStep, NoSilentSkipStep, OrderedStep, SessionStep, DeliveredStep
   DEF IInv

\* The inductive invariant: cursor, page, snapshot and lock agree in every
\* reachable state of the broker.
THEOREM BrokerInvariant == Spec => []IInv
BY IInvInit, IInvStep, PTL DEF Spec

\* The cursor never silently skips a row (drain_one_batch advances only past
\* rows every matching handler accepted).
THEOREM BrokerNoSilentSkip == Spec => []NoSilentSkip
<1>1. IInv => NoSilentSkip
  BY DEF IInv
<1>2. QED
  BY BrokerInvariant, <1>1, PTL

\* Each handler first accepts the rows of the group in id order, except for a
\* row that became visible behind the cursor (late), one dispatched before the
\* handler was registered (missed) and one dispatched after close() had cleared
\* the handlers (cleared).
THEOREM BrokerOrderedFirstDelivery == Spec => []OrderedFirstDelivery
<1>1. IInv => OrderedFirstDelivery
  BY DEF IInv
<1>2. QED
  BY BrokerInvariant, <1>1, PTL

\* The advisory lock makes the replica that writes the cursor the only one
\* working from it.
THEOREM BrokerSingleDrainer == Spec => []SingleDrainer
<1>1. IInv => SingleDrainer
  BY DEF IInv
<1>2. QED
  BY BrokerInvariant, <1>1, PTL

\* Until something fails, no handler is called twice for a row, whichever
\* replicas drain the group: the advisory lock and the cursor are enough.
THEOREM BrokerDuplicateOnlyAfterFault == Spec => []DuplicateOnlyAfterFault
<1>1. IInv => DuplicateOnlyAfterFault
  <2> SUFFICES ASSUME IInv, NEW r \in Replicas, faults = 0, pc[r] = "handler",
                      NEW i \in Ids, NEW h \in matched[r], NextRow(r, i), <<i, h>> \in handled
               PROVE  FALSE
    BY DEF DuplicateOnlyAfterFault
  <2> USE DEF IInv
  <2>1. h \in Handlers /\ pc[r] \in InPage /\ pc[r] \in Locked /\ client[r]
    BY DEF TypeOK, InPage, Locked, SessionInv, Sound
  <2>2. last_event_id < i /\ last_dispatched[r] < i
    BY <2>1 DEF SingleDrainer, PageInv, NextRow, TypeOK, Ids
  <2>3. Behind(i, h)
    BY <2>1 DEF DeliveredInv
  <2>4. PICK s \in Replicas :
          /\ pc[s] \in InPage
          /\ i <= last_dispatched[s] \/ (pc[s] = "handler" /\ NextRow(s, i) /\ h \notin matched[s])
    BY <2>2, <2>3 DEF Behind, TypeOK, Ids
  <2>5. s = r
    BY <2>1, <2>4, OneInPage DEF Locked
  <2> QED
    BY <2>2, <2>4, <2>5 DEF TypeOK, Ids
<1>2. QED
  BY BrokerInvariant, <1>1, PTL
=============================================================================
