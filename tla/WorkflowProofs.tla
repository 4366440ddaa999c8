--------------------------- MODULE WorkflowProofs ---------------------------
(***************************************************************************)
(* The workflow engine and the signal service under it, for every set of   *)
(* definitions, any number of nodes, signals and deliveries.               *)
(*                                                                         *)
(* The argument about waves: `done` holds nodes whose outcome is final or  *)
(* which nobody waits for, and between waves every node that has left      *)
(* "pending" is in it (StatusInv).  So a node of a wave has all its        *)
(* dependencies behind it (OrderInv), a node that is pending without       *)
(* progress waits for another pending one, and an Ok has seen everything   *)
(* (ResultInv).                                                            *)
(*                                                                         *)
(* The argument about rollback: completed_order lists the compensatable    *)
(* nodes that returned Ok, each once and never a node after one that       *)
(* depends on it (CompletedInv); compensate() walks it backwards, and      *)
(* nothing is appended to it any more (UndoInv).                           *)
(***************************************************************************)
EXTENDS Workflow, SequenceTheorems, TLAPS

LOCAL INSTANCE SequencesExt

FF == wf.fire_and_forget
Deps(n) == wf.depends_on[n]

\* The types, apart: the service's state and the engine's.
SignalType ==
  /\ waiters \in [Signals -> SUBSET Receivers]
  /\ buffered \in [Signals -> BOOLEAN]
  /\ rx \in [Receivers -> [Signals -> {"none", "parked", "got", "closed"}]]

EngineType ==
  /\ wf \in Workflows
  /\ at \in {"start", "loop", "wave", "compensate", "join", "finished"}
  /\ node \in [Nodes -> NodeStates]
  /\ token \in BOOLEAN /\ internal \in BOOLEAN
  /\ done \subseteq Nodes
  /\ completed \in Seq(Nodes)
  /\ undo \in 0..Len(completed)
  /\ undone \in Seq([n : Nodes, ok : BOOLEAN])
  /\ result \in {"None", "Definition", "Ok", "Node", "Cancelled", "NoProgress"}

\* What a node can be, by its kind and by where the engine is.
StatusInv ==
  \A n \in Nodes :
    /\ n \in FF => /\ node[n] \in {"pending", "spawned", "running", "skipped", "ended"}
                   /\ node[n] # "pending" => n \in done
    /\ n \notin FF => /\ node[n] \notin {"spawned", "ended"}
                      /\ n \in done => node[n] \in {"ok", "skipped"}
                      /\ at # "wave" => node[n] \notin {"waiting", "running"}
    /\ n \in done => node[n] # "pending"
    /\ at = "start" => node[n] = "pending"
    /\ at = "loop" /\ node[n] # "pending" => n \in done

\* A node that was started has its dependencies behind it.
OrderInv ==
  \A n \in Nodes : node[n] # "pending" =>
    \A d \in Deps(n) : d \in Nodes /\ (node[d] \in {"ok", "skipped"} \/ d \in FF)

\* Definitions that run have known names only; a result ends the waves.
PcInv ==
  /\ at \in {"loop", "wave", "compensate", "join"} => \A n \in Nodes : Deps(n) \subseteq Nodes
  /\ at \in {"start", "loop", "wave"} <=> result = "None"

\* What cancelled a node.
CauseInv ==
  /\ internal => \E n \in Nodes : node[n] = "failed"
  /\ (\E n \in Nodes : node[n] = "cancelled") => token \/ internal

\* What a result says of the nodes.
ResultInv ==
  /\ result = "NoProgress" =>
       /\ Pending # {}
       /\ \A n \in Pending : Deps(n) \cap Pending # {}
  /\ result = "Ok" => \A n \in Nodes : node[n] \notin {"pending", "failed", "cancelled"}
  /\ result = "Cancelled" => token

\* A joined run has no task left.
TaskInv ==
  at = "finished" /\ result # "NoProgress" =>
    \A n \in FF : node[n] \notin {"spawned", "running"}

\* completed_order.
CompletedInv ==
  /\ \A n \in Nodes : (\E i \in 1..Len(completed) : completed[i] = n)
                        <=> n \in wf.compensatable \ FF /\ node[n] = "ok"
  /\ \A i, j \in 1..Len(completed) :
       i < j => completed[i] # completed[j] /\ completed[j] \notin Deps(completed[i])

\* The progress of the rollback.
UndoInv ==
  /\ result \in {"None", "Definition", "Ok"} => undone = <<>> /\ undo = 0
  /\ result \notin {"None", "Definition", "Ok"} =>
       /\ Len(undone) <= Len(completed)
       /\ \A i \in 1..Len(undone) : undone[i].n = completed[Len(completed) - i + 1]
       /\ \A i \in 1..Len(undone) : wf.stop_on_error /\ i < Len(undone) => undone[i].ok
       /\ \/ /\ Len(undone) + undo = Len(completed)
             /\ wf.stop_on_error /\ undo > 0 => \A i \in 1..Len(undone) : undone[i].ok
          \/ /\ undo = 0 /\ wf.stop_on_error /\ undone # <<>>
             /\ ~undone[Len(undone)].ok
       /\ at # "compensate" => undo = 0

EInv ==
  EngineType /\ StatusInv /\ OrderInv /\ PcInv /\ CauseInv /\ ResultInv /\ TaskInv
    /\ CompletedInv /\ UndoInv

SInv == SignalType /\ NoLostWakeup /\ deliveries \in 0..MaxDeliveries

IInv == EInv /\ SInv

\* What every definition satisfies.
LEMMA DefFact ==
  ASSUME EngineType
  PROVE  /\ FF \subseteq Nodes /\ wf.compensatable \subseteq Nodes /\ Nodes \subseteq Receivers
         /\ wf.stop_on_error \in BOOLEAN
  BY WorkflowAssumption DEF EngineType, FF, Nodes

-----------------------------------------------------------------------------
(* The signal service *)

LEMMA SubscribeFact ==
  ASSUME SignalType, NoLostWakeup, NEW r \in Receivers, NEW S, Subscribe(r, S)
  PROVE  SignalType' /\ NoLostWakeup'
<1>1. waiters' \in [Signals -> SUBSET Receivers]
  BY DEF SignalType, Subscribe
<1>2. buffered' \in [Signals -> BOOLEAN]
  BY DEF SignalType, Subscribe
<1>3. rx' \in [Receivers -> [Signals -> {"none", "parked", "got", "closed"}]]
  BY DEF SignalType, Subscribe
<1>4. NoLostWakeup'
  BY DEF SignalType, NoLostWakeup, Subscribe
<1> QED
  BY <1>1, <1>2, <1>3, <1>4 DEF SignalType

LEMMA DropFact ==
  ASSUME SignalType, NoLostWakeup, NEW r \in Receivers, DropReceivers(r)
  PROVE  SignalType' /\ NoLostWakeup'
  BY DEF SignalType, NoLostWakeup, DropReceivers, NoChannel

\* A payload reaches every parked receiver, as each is a known one.
LEMMA DeliverFact ==
  ASSUME SignalType, NoLostWakeup, NEW s \in Signals, Deliver(s)
  PROVE  SignalType' /\ NoLostWakeup'
<1> DEFINE live == {r \in waiters[s] : rx[r][s] = "parked"}
<1>1. /\ waiters' = [waiters EXCEPT ![s] = {}]
      /\ rx' = [r \in Receivers |-> IF r \in live THEN [rx[r] EXCEPT ![s] = "got"] ELSE rx[r]]
      /\ buffered' = [buffered EXCEPT ![s] = buffered[s] \/ live = {}]
  BY DEF Deliver, SignalType
<1>2. \A r \in Receivers : r \in live <=> rx[r][s] = "parked"
  BY DEF NoLostWakeup
<1> HIDE DEF live
<1>3. waiters' \in [Signals -> SUBSET Receivers] /\ buffered' \in [Signals -> BOOLEAN]
  BY <1>1 DEF SignalType
<1>4. rx' \in [Receivers -> [Signals -> {"none", "parked", "got", "closed"}]]
  BY <1>1 DEF SignalType
<1>5. ASSUME NEW r \in Receivers, NEW t \in Signals, rx'[r][t] = "parked"
      PROVE  ~buffered'[t] /\ r \in waiters'[t]
  <2>1. t # s /\ rx[r][t] = "parked"
    BY <1>1, <1>2, <1>5 DEF SignalType
  <2>2. ~buffered[t] /\ r \in waiters[t]
    BY <2>1 DEF NoLostWakeup
  <2>3. buffered'[t] = buffered[t] /\ waiters'[t] = waiters[t]
    BY <1>1, <2>1 DEF SignalType
  <2> QED
    BY <2>2, <2>3
<1> QED
  BY <1>3, <1>4, <1>5 DEF SignalType, NoLostWakeup

LEMMA UnregisterFact ==
  ASSUME SignalType, NoLostWakeup, Unregister
  PROVE  SignalType' /\ NoLostWakeup'
<1>1. waiters' \in [Signals -> SUBSET Receivers] /\ buffered' \in [Signals -> BOOLEAN]
  BY DEF SignalType, Unregister
<1>2. rx' \in [Receivers -> [Signals -> {"none", "parked", "got", "closed"}]]
  BY DEF SignalType, Unregister
<1>3. NoLostWakeup'
  BY DEF SignalType, NoLostWakeup, Unregister
<1> QED
  BY <1>1, <1>2, <1>3 DEF SignalType

\* Every step uses the service as a whole or leaves it alone.
LEMMA SignalStep == ASSUME IInv, [WorkflowNext]_workflowVars PROVE SInv'
<1> USE DEF IInv, SInv
<1>0. Nodes \subseteq Receivers
  BY DefFact DEF EInv
<1>1. ASSUME NEW n \in Nodes, NodeOk(n) \/ NodeErr(n) \/ TaskEnds(n) PROVE SInv'
  <2>1. n \in Receivers /\ DropReceivers(n) /\ deliveries' = deliveries
    BY <1>0, <1>1 DEF NodeOk, NodeErr, TaskEnds
  <2> QED
    BY <2>1, DropFact
<1>2. ASSUME NEW n \in Nodes, PollRuns(n) \/ TaskRuns(n) PROVE SInv'
  <2>1. n \in Receivers /\ Subscribe(n, Polled(wf.gate[n])) /\ deliveries' = deliveries
    BY <1>0, <1>2 DEF PollRuns, TaskRuns
  <2> QED
    BY <2>1, SubscribeFact
<1>3. ASSUME NEW s \in Signals, SendSignal(s) PROVE SInv'
  <2>1. Deliver(s) /\ deliveries' = deliveries + 1 /\ deliveries < MaxDeliveries
    BY <1>3 DEF SendSignal
  <2>2. deliveries' \in 0..MaxDeliveries
    BY <2>1, WorkflowAssumption
  <2> QED
    BY <2>1, <2>2, DeliverFact
<1>4. CASE DiscardSignals
  <2>1. Unregister /\ deliveries' = deliveries
    BY <1>4 DEF DiscardSignals
  <2> QED
    BY <2>1, UnregisterFact
<1>5. ASSUME UNCHANGED <<svars, deliveries>> PROVE SInv'
  BY <1>5 DEF svars, SignalType, NoLostWakeup
<1>6. ASSUME NEW n \in Nodes, PollCancelled(n) \/ PollSkipped(n) PROVE SInv'
  BY <1>6, <1>5 DEF PollCancelled, PollSkipped
<1>7. CASE Validate \/ StartWave \/ JoinWave \/ NoProgress \/ CompensateOk \/ CompensateErr
             \/ CompensateDone \/ AllDone \/ JoinAsync \/ CancelRun
  BY <1>7, <1>5 DEF Validate, StartWave, JoinWave, NoProgress, CompensateOk, CompensateErr,
                    CompensateDone, AllDone, JoinAsync, CancelRun
<1>8. CASE UNCHANGED workflowVars
  BY <1>8, <1>5 DEF workflowVars
<1> QED
  BY <1>1, <1>2, <1>3, <1>4, <1>6, <1>7, <1>8 DEF WorkflowNext, RunInner, TaskStep

-----------------------------------------------------------------------------
(* The engine *)

LEMMA InitEInv == WorkflowInit => EInv
<1> SUFFICES ASSUME WorkflowInit PROVE EInv
  OBVIOUS
<1>1. /\ <<>> \in Seq(Nodes) /\ <<>> \in Seq([n : Nodes, ok : BOOLEAN]) /\ Len(<<>>) = 0
  OBVIOUS
<1>2. completed = <<>> /\ undone = <<>> /\ undo = 0 /\ Len(completed) = 0 /\ Len(undone) = 0
  BY <1>1 DEF WorkflowInit
<1>3. node \in [Nodes -> NodeStates] /\ \A n \in Nodes : node[n] = "pending"
  BY DEF WorkflowInit, NodeStates
<1>4. EngineType
  <2>1. completed \in Seq(Nodes) /\ undone \in Seq([n : Nodes, ok : BOOLEAN])
    BY <1>1 DEF WorkflowInit
  <2>2. undo \in 0..Len(completed)
    BY <1>2
  <2>3. /\ wf \in Workflows /\ at = "start" /\ token = FALSE /\ internal = FALSE
        /\ done = {} /\ result = "None"
    BY DEF WorkflowInit
  <2> QED
    BY <1>3, <2>1, <2>2, <2>3 DEF EngineType
<1>5. StatusInv /\ OrderInv
  BY <1>3 DEF WorkflowInit, StatusInv, OrderInv
<1>6. PcInv /\ CauseInv /\ ResultInv /\ TaskInv
  BY <1>3 DEF WorkflowInit, PcInv, CauseInv, ResultInv, TaskInv
<1>7. CompletedInv
  BY <1>2, <1>3 DEF CompletedInv
<1>8. UndoInv
  BY <1>2 DEF WorkflowInit, UndoInv
<1> QED
  BY <1>4, <1>5, <1>6, <1>7, <1>8 DEF EInv

LEMMA InitSInv == WorkflowInit => SInv
  BY WorkflowAssumption DEF WorkflowInit, SignalInit, SInv, SignalType, NoLostWakeup, NoChannel

\* The moves of one node: a node of the wave is polled and returns, a task is
\* polled and ends.
Moves(n, x) ==
  \/ n \notin FF /\ node[n] = "waiting" /\ x \in {"cancelled", "skipped", "running"}
  \/ n \notin FF /\ node[n] = "running" /\ x \in {"ok", "failed"}
  \/ n \in FF /\ node[n] = "spawned" /\ x = "running"
  \/ n \in FF /\ node[n] = "running" /\ x = "ended"

\* What every move keeps.
LEMMA MoveFact ==
  ASSUME EInv, NEW n \in Nodes, NEW x, Moves(n, x),
         node' = [node EXCEPT ![n] = x], UNCHANGED <<wf, at, done, result, token>>
  PROVE  /\ node' \in [Nodes -> NodeStates] /\ Nodes' = Nodes /\ FF' = FF
         /\ \A m : Deps(m)' = Deps(m)
         /\ node'[n] = x /\ \A m \in Nodes : m # n => node'[m] = node[m]
         /\ StatusInv' /\ OrderInv' /\ PcInv' /\ ResultInv' /\ TaskInv'
<1> USE DEF EInv
<1>1. Nodes' = Nodes /\ FF' = FF /\ \A m : Deps(m)' = Deps(m)
  BY DEF Nodes, FF, Deps
<1>2. /\ node \in [Nodes -> NodeStates]
      /\ x \in NodeStates
  BY DEF EngineType, Moves, NodeStates
<1>3. /\ node' \in [Nodes -> NodeStates]
      /\ node'[n] = x /\ \A m \in Nodes : m # n => node'[m] = node[m]
  BY <1>2
<1>4. StatusInv'
  BY <1>1, <1>3 DEF StatusInv, Moves
<1>5. OrderInv'
  <2> SUFFICES ASSUME NEW m \in Nodes, node'[m] # "pending", NEW d \in Deps(m)
               PROVE  d \in Nodes /\ (node'[d] \in {"ok", "skipped"} \/ d \in FF)
    BY <1>1 DEF OrderInv
  <2>1. node[m] # "pending"
    BY <1>3 DEF Moves
  <2>2. d \in Nodes /\ (node[d] \in {"ok", "skipped"} \/ d \in FF)
    BY <2>1 DEF OrderInv
  <2> QED
    BY <2>2, <1>3 DEF Moves
<1>6. PcInv'
  BY <1>1 DEF PcInv
<1>7. Pending' = Pending
  BY <1>1, <1>3 DEF Pending, Moves
<1>8. result = "Ok" => x \notin {"failed", "cancelled"}
  BY DEF Moves, StatusInv, PcInv
<1>9. x # "pending"
  BY DEF Moves
<1>10. ResultInv'
  BY <1>1, <1>3, <1>7, <1>8, <1>9 DEF ResultInv
<1>11. TaskInv'
  <2>1. FF \subseteq Nodes
    BY DefFact
  <2> SUFFICES ASSUME at = "finished", result # "NoProgress", NEW m \in FF
               PROVE  node'[m] \notin {"spawned", "running"}
    BY <1>1 DEF TaskInv
  <2>2. node[m] \notin {"spawned", "running"}
    BY DEF TaskInv
  <2> QED
    BY <2>1, <2>2, <1>3 DEF Moves
<1> QED
  BY <1>1, <1>3, <1>4, <1>5, <1>6, <1>10, <1>11

\* A move that completes no node leaves completed_order exact.
LEMMA MoveStep ==
  ASSUME EInv, NEW n \in Nodes, NEW x, Moves(n, x), x # "ok",
         node' = [node EXCEPT ![n] = x], UNCHANGED <<wf, at, done, result, token>>,
         UNCHANGED <<completed, undo, undone>>,
         internal' = (internal \/ x = "failed"),
         x = "cancelled" => token \/ internal
  PROVE  EInv'
<1> USE DEF EInv
<1>1. /\ node' \in [Nodes -> NodeStates] /\ Nodes' = Nodes /\ FF' = FF
      /\ \A m : Deps(m)' = Deps(m)
      /\ node'[n] = x /\ \A m \in Nodes : m # n => node'[m] = node[m]
      /\ StatusInv' /\ OrderInv' /\ PcInv' /\ ResultInv' /\ TaskInv'
  BY MoveFact
<1>2. internal' \in BOOLEAN
  BY DEF EngineType
<1>3. EngineType'
  BY <1>1, <1>2 DEF EngineType
<1>4. node[n] # "failed" /\ node[n] # "ok" /\ node[n] # "cancelled"
  BY DEF Moves
<1>5. CauseInv'
  <2>1. ASSUME internal' PROVE \E m \in Nodes : node'[m] = "failed"
    BY <1>1, <1>4, <2>1 DEF CauseInv
  <2>2. ASSUME NEW m \in Nodes, node'[m] = "cancelled" PROVE token' \/ internal'
    BY <1>1, <1>4, <2>2 DEF CauseInv
  <2> QED
    BY <1>1, <2>1, <2>2 DEF CauseInv
<1>6. CompletedInv'
  BY <1>1, <1>4 DEF CompletedInv
<1>7. UndoInv'
  BY DEF UndoInv
<1> QED
  BY <1>1, <1>3, <1>5, <1>6, <1>7

\* The polls and the ends of nodes and tasks, except an Ok.
LEMMA NodeSteps ==
  ASSUME EInv, NEW n \in Nodes,
         PollCancelled(n) \/ PollSkipped(n) \/ PollRuns(n) \/ NodeErr(n) \/ TaskRuns(n) \/ TaskEnds(n)
  PROVE  EInv'
<1>1. \A m \in Nodes : m \in FF => node[m] # "waiting"
  BY DEF EInv, StatusInv
<1>2. \A m \in Nodes : m \notin FF => node[m] # "spawned"
  BY DEF EInv, StatusInv
<1>3. internal \in BOOLEAN /\ FF = wf.fire_and_forget
  BY DEF EInv, EngineType, FF
<1>4. CASE PollCancelled(n)
  <2>1. Moves(n, "cancelled")
    BY <1>1, <1>4 DEF PollCancelled, FirstPoll, Moves
  <2>2. /\ node' = [node EXCEPT ![n] = "cancelled"] /\ (token \/ internal)
        /\ UNCHANGED <<wf, at, done, result, token, completed, undo, undone, internal>>
    BY <1>4 DEF PollCancelled
  <2> QED
    BY <1>3, <2>1, <2>2, MoveStep
<1>5. CASE PollSkipped(n)
  <2>1. Moves(n, "skipped")
    BY <1>1, <1>5 DEF PollSkipped, FirstPoll, Moves
  <2>2. /\ node' = [node EXCEPT ![n] = "skipped"]
        /\ UNCHANGED <<wf, at, done, result, token, completed, undo, undone, internal>>
    BY <1>5 DEF PollSkipped
  <2> QED
    BY <1>3, <2>1, <2>2, MoveStep
<1>6. CASE PollRuns(n)
  <2>1. Moves(n, "running")
    BY <1>1, <1>6 DEF PollRuns, FirstPoll, Moves
  <2>2. /\ node' = [node EXCEPT ![n] = "running"]
        /\ UNCHANGED <<wf, at, done, result, token, completed, undo, undone, internal>>
    BY <1>6 DEF PollRuns
  <2> QED
    BY <1>3, <2>1, <2>2, MoveStep
<1>7. CASE NodeErr(n)
  <2>1. Moves(n, "failed")
    BY <1>3, <1>7 DEF NodeErr, Running, Moves
  <2>2. /\ node' = [node EXCEPT ![n] = "failed"] /\ internal'
        /\ UNCHANGED <<wf, at, done, result, token, completed, undo, undone>>
    BY <1>7 DEF NodeErr
  <2>3. internal' = TRUE
    BY <1>7 DEF NodeErr
  <2> QED
    BY <1>3, <2>1, <2>2, <2>3, MoveStep
<1>8. CASE TaskRuns(n)
  <2>1. Moves(n, "running")
    BY <1>2, <1>8 DEF TaskRuns, Moves
  <2>2. /\ node' = [node EXCEPT ![n] = "running"]
        /\ UNCHANGED <<wf, at, done, result, token, completed, undo, undone, internal>>
    BY <1>8 DEF TaskRuns
  <2> QED
    BY <1>3, <2>1, <2>2, MoveStep
<1>9. CASE TaskEnds(n)
  <2>1. Moves(n, "ended")
    BY <1>3, <1>9 DEF TaskEnds, Running, Moves
  <2>2. /\ node' = [node EXCEPT ![n] = "ended"]
        /\ UNCHANGED <<wf, at, done, result, token, completed, undo, undone, internal>>
    BY <1>9 DEF TaskEnds
  <2> QED
    BY <1>3, <2>1, <2>2, MoveStep
<1> QED
  BY <1>4, <1>5, <1>6, <1>7, <1>8, <1>9

\* A node returns Ok: it is entered into completed_order after every node
\* that it depends on, as those have their outcome already.
LEMMA NodeOkStep == ASSUME EInv, NEW n \in Nodes, NodeOk(n) PROVE EInv'
<1> USE DEF EInv
<1>1. /\ Moves(n, "ok") /\ node' = [node EXCEPT ![n] = "ok"] /\ node[n] = "running" /\ n \notin FF
      /\ UNCHANGED <<wf, at, done, result, token, internal, undo, undone>>
      /\ completed' = IF n \in wf.compensatable THEN Append(completed, n) ELSE completed
  BY DEF NodeOk, Running, Moves, FF
<1>2. /\ node' \in [Nodes -> NodeStates] /\ Nodes' = Nodes /\ FF' = FF
      /\ \A m : Deps(m)' = Deps(m)
      /\ node'[n] = "ok" /\ \A m \in Nodes : m # n => node'[m] = node[m]
      /\ StatusInv' /\ OrderInv' /\ PcInv' /\ ResultInv' /\ TaskInv'
  BY <1>1, MoveFact
<1>3. at = "wave" /\ result = "None"
  BY <1>1 DEF StatusInv, PcInv
<1>4. completed \in Seq(Nodes) /\ Len(completed) \in Nat
  BY LenProperties DEF EngineType
<1>5. undone = <<>> /\ undo = 0
  BY <1>3 DEF UndoInv
<1>6. /\ completed' \in Seq(Nodes) /\ Len(completed') \in Nat
      /\ Len(completed') = Len(completed) + (IF n \in wf.compensatable THEN 1 ELSE 0)
      /\ \A i \in 1..Len(completed) : completed'[i] = completed[i] /\ completed[i] \in Nodes
      /\ n \in wf.compensatable => completed'[Len(completed) + 1] = n
  <2>1. \A i \in 1..Len(completed) : completed[i] \in Nodes
    BY <1>4, ElementOfSeq
  <2>2. CASE n \in wf.compensatable
    <3>1. completed' = Append(completed, n)
      BY <1>1, <2>2
    <3> QED
      BY <1>4, <2>1, <2>2, <3>1, AppendProperties
  <2>3. CASE n \notin wf.compensatable
    BY <1>1, <1>4, <2>1, <2>3
  <2> QED
    BY <2>2, <2>3
<1>7. EngineType'
  BY <1>1, <1>2, <1>5, <1>6 DEF EngineType
<1>8. CauseInv'
  BY <1>1, <1>2 DEF CauseInv
<1>9. UndoInv'
  BY <1>1, <1>3, <1>5 DEF UndoInv
<1>10. \A i \in 1..Len(completed) : completed[i] # n /\ n \notin Deps(completed[i])
  <2> SUFFICES ASSUME NEW i \in 1..Len(completed)
               PROVE  completed[i] # n /\ n \notin Deps(completed[i])
    OBVIOUS
  <2>1. completed[i] \in Nodes
    BY <1>6
  <2>2. node[completed[i]] = "ok"
    BY <2>1 DEF CompletedInv
  <2> QED
    BY <1>1, <2>1, <2>2 DEF OrderInv
<1>11. CompletedInv'
  <2>1. \A m \in Nodes : (\E i \in 1..Len(completed') : completed'[i] = m)
          <=> (\E i \in 1..Len(completed) : completed[i] = m) \/ (m = n /\ n \in wf.compensatable)
    BY <1>4, <1>6
  <2>2. \A m \in Nodes : (\E i \in 1..Len(completed') : completed'[i] = m)
          <=> m \in wf.compensatable \ FF /\ node'[m] = "ok"
    BY <1>1, <1>2, <2>1 DEF CompletedInv
  <2>3. \A i, j \in 1..Len(completed') :
          i < j => completed'[i] # completed'[j] /\ completed'[j] \notin Deps(completed'[i])
    BY <1>4, <1>6, <1>10 DEF CompletedInv
  <2> QED
    BY <1>1, <1>2, <2>2, <2>3 DEF CompletedInv
<1> QED
  BY <1>2, <1>7, <1>8, <1>9, <1>11

\* The first polls of a wave.
LEMMA StartWaveStep == ASSUME EInv, StartWave PROVE EInv'
<1> USE DEF EInv
<1>0. Nodes' = Nodes /\ FF' = FF /\ \A m : Deps(m)' = Deps(m)
  BY DEF StartWave, Nodes, FF, Deps
<1>1. /\ at = "loop" /\ at' = "wave" /\ done' = done \cup (Ready \cap FF)
      /\ UNCHANGED <<wf, token, internal, completed, undo, undone, result>>
  BY DEF StartWave, FF
<1>2. PICK skipped \in SUBSET (Ready \cap FF) :
        node' = [n \in Nodes |->
                  IF n \notin Ready THEN node[n]
                  ELSE IF n \in skipped THEN "skipped"
                  ELSE IF n \in FF THEN "spawned" ELSE "waiting"]
  BY DEF StartWave, FF
<1>3. /\ Ready \subseteq Nodes /\ \A n \in Ready : node[n] = "pending" /\ Deps(n) \subseteq done
  BY DEF Ready, Pending, Deps
<1>4. /\ \A n \in Nodes : n \notin Ready => node'[n] = node[n]
      /\ \A n \in Ready \cap FF : node'[n] \in {"skipped", "spawned"}
      /\ \A n \in Ready \ FF : node'[n] = "waiting"
  BY <1>2, <1>3
<1>5. node' \in [Nodes -> NodeStates]
  <2>1. node \in [Nodes -> NodeStates]
    BY DEF EngineType
  <2> QED
    BY <1>2, <2>1 DEF NodeStates
<1>6. EngineType'
  BY <1>0, <1>1, <1>3, <1>5 DEF EngineType
<1>7. StatusInv'
  BY <1>0, <1>1, <1>3, <1>4 DEF StatusInv
<1>8. OrderInv'
  <2> SUFFICES ASSUME NEW n \in Nodes, node'[n] # "pending", NEW d \in Deps(n)
               PROVE  d \in Nodes /\ (node'[d] \in {"ok", "skipped"} \/ d \in FF)
    BY <1>0 DEF OrderInv
  <2>1. d \in Nodes /\ (node[d] \in {"ok", "skipped"} \/ d \in FF)
    <3>1. CASE n \in Ready
      <4>1. d \in done /\ d \in Nodes
        BY <1>3, <3>1 DEF EngineType
      <4> QED
        BY <4>1 DEF StatusInv
    <3>2. CASE n \notin Ready
      BY <1>4, <3>2 DEF OrderInv
    <3> QED
      BY <3>1, <3>2
  <2> QED
    BY <1>3, <1>4, <2>1
<1>9. PcInv'
  BY <1>0, <1>1 DEF PcInv
<1>10. CauseInv'
  BY <1>0, <1>1, <1>3, <1>4 DEF CauseInv
<1>11. ResultInv' /\ TaskInv'
  BY <1>1 DEF ResultInv, TaskInv, PcInv
<1>12. CompletedInv'
  <2>1. \A n \in Nodes : node'[n] = "ok" <=> node[n] = "ok"
    BY <1>3, <1>4
  <2> QED
    BY <1>0, <1>1, <2>1 DEF CompletedInv
<1>13. UndoInv'
  BY <1>1 DEF UndoInv, PcInv
<1> QED
  BY <1>6, <1>7, <1>8, <1>9, <1>10, <1>11, <1>12, <1>13

\* The wave is joined: nobody in it waits or runs any more.
LEMMA JoinWaveStep == ASSUME EInv, JoinWave PROVE EInv'
<1> USE DEF EInv
<1> DEFINE failed == {n \in Wave : node[n] \in {"failed", "cancelled"}}
<1>0. Nodes' = Nodes /\ FF' = FF /\ \A m : Deps(m)' = Deps(m)
  BY DEF JoinWave, Nodes, FF, Deps
<1>1. /\ at = "wave" /\ \A n \in Wave : node[n] \notin {"waiting", "running"}
      /\ done' = done \cup (Wave \ failed)
      /\ UNCHANGED <<wf, node, token, internal, completed, undone>>
  BY DEF JoinWave
<1>2. \/ /\ failed # {} /\ at' = "compensate" /\ undo' = Len(completed)
         /\ result' = IF \E n \in failed : node[n] = "failed" THEN "Node" ELSE "Cancelled"
      \/ failed = {} /\ at' = "loop" /\ UNCHANGED <<undo, result>>
  BY DEF JoinWave
<1>3. \A n \in Nodes : n \notin FF /\ n \notin done /\ node[n] # "pending" => n \in Wave
  <2>1. \A n \in Nodes : node[n] \in NodeStates
    BY DEF EngineType
  <2> QED
    BY <2>1 DEF Wave, StatusInv, FF, NodeStates
<1>4. \A n \in Wave : /\ n \in Nodes /\ n \notin FF /\ n \notin done
                      /\ n \notin failed => node[n] \in {"ok", "skipped"}
  BY <1>1 DEF Wave, FF
<1>5. result = "None" /\ undone = <<>> /\ undo = 0
  BY <1>1 DEF PcInv, UndoInv
<1>6. Len(completed) \in Nat /\ completed \in Seq(Nodes)
  BY LenProperties DEF EngineType
<1>7. EngineType'
  <2>1. undo' \in 0..Len(completed')
    BY <1>1, <1>2, <1>5, <1>6
  <2>2. done' \subseteq Nodes
    BY <1>1, <1>4 DEF EngineType
  <2>3. /\ at' \in {"start", "loop", "wave", "compensate", "join", "finished"}
        /\ result' \in {"None", "Definition", "Ok", "Node", "Cancelled", "NoProgress"}
    BY <1>2, <1>5
  <2> QED
    BY <1>0, <1>1, <2>1, <2>2, <2>3 DEF EngineType
<1>8. StatusInv'
  <2>1. at' \in {"compensate", "loop"} /\ (at' = "loop" => failed = {})
    BY <1>2
  <2>2. ASSUME NEW n \in Nodes, n \in FF
        PROVE  /\ node[n] \in {"pending", "spawned", "running", "skipped", "ended"}
               /\ node[n] # "pending" => n \in done'
               /\ n \in done' => node[n] # "pending"
    BY <1>1, <1>4, <2>2 DEF StatusInv
  <2>3. ASSUME NEW n \in Nodes, n \notin FF
        PROVE  /\ node[n] \notin {"spawned", "ended"}
               /\ n \in done' => node[n] \in {"ok", "skipped"}
               /\ node[n] \notin {"waiting", "running"}
               /\ at' = "loop" /\ node[n] # "pending" => n \in done'
    BY <1>1, <1>3, <1>4, <2>1, <2>3 DEF StatusInv
  <2> QED
    BY <1>0, <1>1, <2>1, <2>2, <2>3 DEF StatusInv
<1>9. OrderInv'
  BY <1>0, <1>1 DEF OrderInv
<1>10. PcInv'
  BY <1>0, <1>1, <1>2, <1>5 DEF PcInv
<1>11. CauseInv' /\ CompletedInv'
  BY <1>0, <1>1 DEF CauseInv, CompletedInv
<1>12. ResultInv'
  <2>1. ASSUME result' = "Cancelled" PROVE token
    <3>1. PICK n \in failed : node[n] = "cancelled"
      BY <1>2, <1>5, <2>1
    <3>2. ~internal
      <4> SUFFICES ASSUME internal PROVE FALSE
        OBVIOUS
      <4>1. PICK m \in Nodes : node[m] = "failed"
        BY DEF CauseInv
      <4>2. m \in failed
        BY <1>3, <4>1 DEF StatusInv
      <4> QED
        BY <1>2, <1>5, <2>1, <4>1, <4>2
    <3>3. n \in Nodes
      BY <1>4
    <3> QED
      BY <3>1, <3>2, <3>3 DEF CauseInv
  <2>2. result' \in {"None", "Node", "Cancelled"}
    BY <1>2, <1>5
  <2> QED
    BY <1>1, <2>1, <2>2 DEF ResultInv
<1>13. TaskInv'
  BY <1>2 DEF TaskInv
<1>14. UndoInv'
  <2>1. CASE failed = {}
    BY <1>1, <1>2, <1>5, <2>1 DEF UndoInv
  <2>2. CASE failed # {}
    <3>1. Len(undone') = 0 /\ undone' = <<>>
      BY <1>1, <1>5
    <3>2. result' \in {"Node", "Cancelled"} /\ at' = "compensate" /\ undo' = Len(completed)
          /\ completed' = completed
      BY <1>1, <1>2, <2>2
    <3> QED
      BY <1>6, <3>1, <3>2 DEF UndoInv
  <2> QED
    BY <2>1, <2>2
<1> QED
  BY <1>7, <1>8, <1>9, <1>10, <1>11, <1>12, <1>13, <1>14

\* Steps that leave the nodes and what was completed alone.
LEMMA StillNodes ==
  ASSUME EInv, UNCHANGED <<wf, node, internal, done, completed>>, token => token'
  PROVE  /\ Nodes' = Nodes /\ FF' = FF /\ (\A m : Deps(m)' = Deps(m))
         /\ Pending' = Pending /\ OrderInv' /\ CauseInv' /\ CompletedInv'
<1>1. Nodes' = Nodes /\ FF' = FF /\ (\A m : Deps(m)' = Deps(m))
  BY DEF Nodes, FF, Deps
<1> QED
  BY <1>1 DEF EInv, Pending, OrderInv, CauseInv, CompletedInv

\* Validate, AllDone, JoinAsync, CompensateDone and Cancel: only the place of
\* the engine, its result or the token changes.
LEMMA ValidateStep == ASSUME EInv, Validate PROVE EInv'
<1> USE DEF EInv
<1>1. /\ UNCHANGED <<wf, node, token, internal, done, completed, undo, undone>> /\ at = "start"
      /\ \/ at' = "finished" /\ result' = "Definition"
         \/ /\ at' = "loop" /\ result' = result
            /\ \A n \in Nodes : Deps(n) \subseteq Nodes
  BY DEF Validate, Deps
<1>2. /\ Nodes' = Nodes /\ FF' = FF /\ (\A m : Deps(m)' = Deps(m))
      /\ Pending' = Pending /\ OrderInv' /\ CauseInv' /\ CompletedInv'
  BY <1>1, StillNodes
<1>3. \A n \in Nodes : node[n] = "pending"
  BY <1>1 DEF StatusInv
<1>4. result = "None" /\ undone = <<>> /\ undo = 0
  BY <1>1 DEF PcInv, UndoInv
<1>5. result' \in {"None", "Definition"} /\ at' \in {"loop", "finished"}
  BY <1>1, <1>4
<1>6. EngineType'
  BY <1>1, <1>2, <1>5 DEF EngineType
<1>7. StatusInv'
  BY <1>1, <1>2, <1>3, <1>5 DEF StatusInv
<1>8. PcInv' /\ ResultInv'
  BY <1>1, <1>2, <1>4, <1>5 DEF PcInv, ResultInv
<1>9. FF \subseteq Nodes
  BY DefFact
<1>10. TaskInv' /\ UndoInv'
  BY <1>1, <1>2, <1>3, <1>4, <1>5, <1>9 DEF TaskInv, UndoInv
<1> QED
  BY <1>2, <1>6, <1>7, <1>8, <1>10

LEMMA AllDoneStep == ASSUME EInv, AllDone PROVE EInv'
<1> USE DEF EInv
<1>1. /\ UNCHANGED <<wf, node, token, internal, done, completed, undo, undone>>
      /\ at = "loop" /\ Pending = {} /\ at' = "join" /\ result' = "Ok"
  BY DEF AllDone
<1>2. /\ Nodes' = Nodes /\ FF' = FF /\ (\A m : Deps(m)' = Deps(m))
      /\ Pending' = Pending /\ OrderInv' /\ CauseInv' /\ CompletedInv'
  BY <1>1, StillNodes
<1>3. undone = <<>> /\ undo = 0
  BY <1>1 DEF PcInv, UndoInv
<1>4. EngineType'
  BY <1>1, <1>2 DEF EngineType
<1>5. StatusInv'
  BY <1>1, <1>2 DEF StatusInv
<1>6. \A n \in Nodes : node[n] \notin {"pending", "failed", "cancelled"}
  BY <1>1 DEF StatusInv, Pending
<1>7. PcInv' /\ ResultInv'
  BY <1>1, <1>2, <1>6 DEF PcInv, ResultInv
<1>8. TaskInv' /\ UndoInv'
  BY <1>1, <1>3 DEF TaskInv, UndoInv
<1> QED
  BY <1>2, <1>4, <1>5, <1>7, <1>8

LEMMA NoProgressStep == ASSUME EInv, NoProgress PROVE EInv'
<1> USE DEF EInv
<1>1. /\ UNCHANGED <<wf, node, token, internal, done, completed, undone>>
      /\ at = "loop" /\ Pending # {} /\ Ready = {}
      /\ at' = "compensate" /\ undo' = Len(completed) /\ result' = "NoProgress"
  BY DEF NoProgress
<1>2. /\ Nodes' = Nodes /\ FF' = FF /\ (\A m : Deps(m)' = Deps(m))
      /\ Pending' = Pending /\ OrderInv' /\ CauseInv' /\ CompletedInv'
  BY <1>1, StillNodes
<1>3. undone = <<>> /\ Len(undone) = 0
  BY <1>1 DEF PcInv, UndoInv
<1>4. Len(completed) \in Nat /\ completed \in Seq(Nodes)
  BY LenProperties DEF EngineType
<1>5. EngineType'
  BY <1>1, <1>2, <1>4 DEF EngineType
<1>6. StatusInv'
  BY <1>1, <1>2 DEF StatusInv
<1>7. PcInv'
  BY <1>1, <1>2 DEF PcInv
<1>8. ASSUME NEW n \in Pending PROVE Deps(n) \cap Pending # {}
  <2>1. n \in Nodes /\ ~(Deps(n) \subseteq done)
    BY <1>1 DEF Ready, Pending, Deps
  <2>2. PICK d \in Deps(n) : d \notin done
    BY <2>1
  <2>3. d \in Nodes
    BY <1>1, <2>1 DEF PcInv
  <2>4. d \in Pending
    BY <1>1, <2>2, <2>3 DEF StatusInv, Pending
  <2> QED
    BY <2>4
<1>9. ResultInv'
  BY <1>1, <1>2, <1>8 DEF ResultInv
<1>10. TaskInv'
  BY <1>1 DEF TaskInv
<1>11. UndoInv'
  BY <1>1, <1>3, <1>4 DEF UndoInv
<1> QED
  BY <1>2, <1>5, <1>6, <1>7, <1>9, <1>10, <1>11

\* One compensation, Ok or not.
LEMMA CompensateStep == ASSUME EInv, CompensateOk \/ CompensateErr PROVE EInv'
<1> USE DEF EInv
<1>1. PICK ok \in BOOLEAN :
        /\ undone' = Append(undone, [n |-> completed[undo], ok |-> ok])
        /\ undo' = IF ~ok /\ wf.stop_on_error THEN 0 ELSE undo - 1
  BY DEF CompensateOk, CompensateErr
<1>2. /\ at = "compensate" /\ undo > 0
      /\ UNCHANGED <<wf, at, node, token, internal, done, completed, result>>
  BY DEF CompensateOk, CompensateErr
<1>3. /\ Nodes' = Nodes /\ FF' = FF /\ (\A m : Deps(m)' = Deps(m))
      /\ Pending' = Pending /\ OrderInv' /\ CauseInv' /\ CompletedInv'
  BY <1>2, StillNodes
<1>4. /\ completed \in Seq(Nodes) /\ Len(completed) \in Nat
      /\ undo \in 0..Len(completed) /\ completed[undo] \in Nodes
      /\ undone \in Seq([n : Nodes, ok : BOOLEAN]) /\ Len(undone) \in Nat
  <2>1. completed \in Seq(Nodes) /\ undo \in 0..Len(completed)
        /\ undone \in Seq([n : Nodes, ok : BOOLEAN])
    BY DEF EngineType
  <2>2. Len(completed) \in Nat /\ Len(undone) \in Nat
    BY <2>1, LenProperties
  <2>3. completed[undo] \in Nodes
    BY <1>2, <2>1, <2>2, ElementOfSeq
  <2> QED
    BY <2>1, <2>2, <2>3
<1> DEFINE r == [n |-> completed[undo], ok |-> ok]
<1>5. r \in [n : Nodes, ok : BOOLEAN] /\ r.n = completed[undo] /\ r.ok = ok
  BY <1>4
<1>6. undone' = Append(undone, r)
  BY <1>1
<1> HIDE DEF r
<1>7. /\ undone' \in Seq([n : Nodes, ok : BOOLEAN]) /\ undone' # <<>>
      /\ Len(undone') = Len(undone) + 1
      /\ \A i \in 1..Len(undone) : undone'[i] = undone[i]
      /\ undone'[Len(undone) + 1] = r
  BY <1>4, <1>5, <1>6, AppendProperties
<1>8. undo' \in 0..Len(completed)
  BY <1>1, <1>2, <1>4
<1>9. EngineType'
  BY <1>2, <1>3, <1>7, <1>8 DEF EngineType
<1>10. StatusInv' /\ PcInv' /\ TaskInv'
  BY <1>2, <1>3 DEF StatusInv, PcInv, TaskInv
<1>11. ResultInv'
  BY <1>2, <1>3 DEF ResultInv
<1>12. result \notin {"None", "Definition", "Ok"}
  BY <1>2 DEF UndoInv
<1>13. /\ Len(undone) + undo = Len(completed)
       /\ wf.stop_on_error => \A i \in 1..Len(undone) : undone[i].ok
       /\ \A i \in 1..Len(undone) : undone[i].n = completed[Len(completed) - i + 1]
  BY <1>2, <1>12 DEF UndoInv
<1>14. /\ Len(undone') <= Len(completed)
       /\ \A i \in 1..Len(undone') : undone'[i].n = completed[Len(completed) - i + 1]
  <2>1. Len(undone') <= Len(completed) /\ Len(completed) - (Len(undone) + 1) + 1 = undo
    BY <1>2, <1>4, <1>7, <1>13
  <2>2. ASSUME NEW i \in 1..Len(undone) PROVE undone'[i].n = completed[Len(completed) - i + 1]
    BY <1>7, <1>13
  <2>3. undone'[Len(undone) + 1].n = completed[Len(completed) - (Len(undone) + 1) + 1]
    BY <1>5, <1>7, <2>1
  <2>4. \A i \in 1..Len(undone') : i \in 1..Len(undone) \/ i = Len(undone) + 1
    BY <1>4, <1>7
  <2> QED
    BY <2>1, <2>2, <2>3, <2>4
<1>15. \A i \in 1..Len(undone') : wf.stop_on_error /\ i < Len(undone') => undone'[i].ok
  BY <1>4, <1>7, <1>13, SMTT(30)
<1>16. CASE ~ok /\ wf.stop_on_error
  <2>1. undo' = 0 /\ ~undone'[Len(undone')].ok
    BY <1>1, <1>4, <1>5, <1>7, <1>16
  <2> QED
    BY <1>2, <1>3, <1>7, <1>9, <1>10, <1>11, <1>12, <1>14, <1>15, <1>16, <2>1 DEF UndoInv
<1>17. CASE ~(~ok /\ wf.stop_on_error)
  <2>1. Len(undone') + undo' = Len(completed)
    BY <1>1, <1>2, <1>4, <1>7, <1>13, <1>17
  <2>2. wf.stop_on_error => \A i \in 1..Len(undone') : undone'[i].ok
    <3> SUFFICES ASSUME wf.stop_on_error, NEW i \in 1..Len(undone') PROVE undone'[i].ok
      OBVIOUS
    <3>1. i \in 1..Len(undone) \/ i = Len(undone) + 1
      BY <1>4, <1>7
    <3>2. CASE i \in 1..Len(undone)
      BY <1>7, <1>13, <3>2
    <3>3. CASE i = Len(undone) + 1
      <4>1. undone'[i] = r
        BY <1>7, <3>3
      <4>2. ok = TRUE
        BY <1>17
      <4> QED
        BY <1>5, <4>1, <4>2
    <3> QED
      BY <3>1, <3>2, <3>3
  <2> QED
    BY <1>2, <1>3, <1>7, <1>9, <1>10, <1>11, <1>12, <1>14, <1>15, <2>1, <2>2 DEF UndoInv
<1> QED
  BY <1>16, <1>17

LEMMA CompensateDoneStep == ASSUME EInv, CompensateDone PROVE EInv'
<1> USE DEF EInv
<1>1. /\ UNCHANGED <<wf, node, token, internal, done, completed, undo, undone, result>>
      /\ at = "compensate" /\ undo = 0
      /\ at' = IF result = "NoProgress" THEN "finished" ELSE "join"
  BY DEF CompensateDone
<1>2. /\ Nodes' = Nodes /\ FF' = FF /\ (\A m : Deps(m)' = Deps(m))
      /\ Pending' = Pending /\ OrderInv' /\ CauseInv' /\ CompletedInv'
  BY <1>1, StillNodes
<1>3. EngineType' /\ StatusInv' /\ PcInv'
  BY <1>1, <1>2 DEF EngineType, StatusInv, PcInv
<1>4. ResultInv' /\ TaskInv'
  BY <1>1, <1>2 DEF ResultInv, TaskInv
<1>5. UndoInv'
  BY <1>1 DEF UndoInv
<1> QED
  BY <1>2, <1>3, <1>4, <1>5

LEMMA JoinAsyncStep == ASSUME EInv, JoinAsync PROVE EInv'
<1> USE DEF EInv
<1>1. /\ UNCHANGED <<wf, node, token, internal, done, completed, undo, undone, result>>
      /\ at = "join" /\ at' = "finished"
      /\ \A n \in FF : node[n] \notin {"spawned", "running"}
  BY DEF JoinAsync, FF
<1>2. /\ Nodes' = Nodes /\ FF' = FF /\ (\A m : Deps(m)' = Deps(m))
      /\ Pending' = Pending /\ OrderInv' /\ CauseInv' /\ CompletedInv'
  BY <1>1, StillNodes
<1>3. EngineType' /\ StatusInv' /\ PcInv'
  BY <1>1, <1>2 DEF EngineType, StatusInv, PcInv
<1>4. ResultInv' /\ TaskInv'
  BY <1>1, <1>2 DEF ResultInv, TaskInv
<1>5. UndoInv'
  BY <1>1 DEF UndoInv
<1> QED
  BY <1>2, <1>3, <1>4, <1>5

LEMMA CancelStep ==
  ASSUME EInv, UNCHANGED <<wf, at, node, internal, done, completed, undo, undone, result>>,
         token' \in {token, TRUE}
  PROVE  EInv'
<1> USE DEF EInv
<1>1. token' \in BOOLEAN /\ (token => token')
  BY DEF EngineType
<1>2. /\ Nodes' = Nodes /\ FF' = FF /\ (\A m : Deps(m)' = Deps(m))
      /\ Pending' = Pending /\ OrderInv' /\ CauseInv' /\ CompletedInv'
  BY <1>1, StillNodes
<1>3. EngineType' /\ StatusInv' /\ PcInv'
  BY <1>1, <1>2 DEF EngineType, StatusInv, PcInv
<1>4. ResultInv' /\ TaskInv'
  BY <1>1, <1>2 DEF ResultInv, TaskInv
<1>5. UndoInv'
  BY DEF UndoInv
<1> QED
  BY <1>2, <1>3, <1>4, <1>5

LEMMA EngineStep == ASSUME EInv, [WorkflowNext]_workflowVars PROVE EInv'
<1>1. ASSUME NEW n \in Nodes,
             PollCancelled(n) \/ PollSkipped(n) \/ PollRuns(n) \/ NodeErr(n) \/ TaskRuns(n) \/ TaskEnds(n)
      PROVE  EInv'
  BY <1>1, NodeSteps
<1>2. ASSUME NEW n \in Nodes, NodeOk(n) PROVE EInv'
  BY <1>2, NodeOkStep
<1>3. CASE Validate
  BY <1>3, ValidateStep
<1>4. CASE StartWave
  BY <1>4, StartWaveStep
<1>5. CASE JoinWave
  BY <1>5, JoinWaveStep
<1>6. CASE NoProgress
  BY <1>6, NoProgressStep
<1>7. CASE CompensateOk \/ CompensateErr
  BY <1>7, CompensateStep
<1>8. CASE CompensateDone
  BY <1>8, CompensateDoneStep
<1>9. CASE AllDone
  BY <1>9, AllDoneStep
<1>10. CASE JoinAsync
  BY <1>10, JoinAsyncStep
<1>11. CASE CancelRun
  <2>1. UNCHANGED <<wf, at, node, internal, done, completed, undo, undone, result>>
        /\ token' = TRUE
    BY <1>11 DEF CancelRun
  <2> QED
    BY <2>1, CancelStep
<1>12. ASSUME UNCHANGED wvars PROVE EInv'
  <2>1. UNCHANGED <<wf, at, node, internal, done, completed, undo, undone, result, token>>
    BY <1>12 DEF wvars
  <2> QED
    BY <2>1, CancelStep
<1>13. ASSUME NEW s \in Signals, SendSignal(s) PROVE EInv'
  BY <1>12, <1>13 DEF SendSignal
<1>14. CASE DiscardSignals
  BY <1>12, <1>14 DEF DiscardSignals
<1>15. CASE UNCHANGED workflowVars
  BY <1>12, <1>15 DEF workflowVars
<1> QED
  BY <1>1, <1>2, <1>3, <1>4, <1>5, <1>6, <1>7, <1>8, <1>9, <1>10, <1>11, <1>13, <1>14, <1>15
     DEF WorkflowNext, RunInner, TaskStep

-----------------------------------------------------------------------------
\* The inductive invariant of a run and of the signals it waits for.
THEOREM WorkflowInvariant == WorkflowSpec => []IInv
<1>1. WorkflowInit => IInv
  BY InitEInv, InitSInv DEF IInv
<1>2. IInv /\ [WorkflowNext]_workflowVars => IInv'
  BY EngineStep, SignalStep DEF IInv
<1> QED
  BY <1>1, <1>2, PTL DEF WorkflowSpec

\* Type correctness of the engine and the signal service.
THEOREM WorkflowTypeCorrect == WorkflowSpec => []WorkflowTypeOK
<1>1. IInv => WorkflowTypeOK
  BY DEF IInv, EInv, SInv, EngineType, SignalType, WorkflowTypeOK
<1> QED
  BY <1>1, WorkflowInvariant, PTL

\* Waves respect the dependencies, and results tell the truth: NoProgress only
\* for nodes that wait for each other, Ok only when nothing failed or was left
\* behind, Cancelled only when the caller cancelled.
THEOREM WorkflowWaveOrder == WorkflowSpec => []WaveOrder
<1>1. IInv => WaveOrder
  BY DEF IInv, EInv, OrderInv, ResultInv, WaveOrder, Deps, FF
<1> QED
  BY <1>1, WorkflowInvariant, PTL

\* When run() returns nothing of it runs any more, but for the tasks that the
\* exit without progress does not join.
THEOREM WorkflowNothingOutlivesRun == WorkflowSpec => []NothingOutlivesRun
<1>1. IInv => NothingOutlivesRun
  BY DEF IInv, EInv, StatusInv, TaskInv, NothingOutlivesRun, FF
<1> QED
  BY <1>1, WorkflowInvariant, PTL

\* A failed run has compensated what it completed in reverse order of completion,
\* each node once and hence before the nodes it depends on: all of it, or, with
\* stop_on_error, up to the first compensation that failed.
THEOREM WorkflowRollbackExact == WorkflowSpec => []RollbackExact
<1>1. IInv => RollbackExact
  <2> SUFFICES ASSUME IInv, at = "finished", result # "Definition" PROVE RollbackExact
    BY DEF RollbackExact
  <2> USE DEF IInv, EInv
  <2>1. /\ completed \in Seq(Nodes) /\ Len(completed) \in Nat
        /\ undone \in Seq([n : Nodes, ok : BOOLEAN]) /\ Len(undone) \in Nat
        /\ DOMAIN undone = 1..Len(undone) /\ DOMAIN completed = 1..Len(completed)
    BY LenProperties DEF EngineType
  <2>2. \A i \in 1..Len(completed) : completed[i] \in Nodes
    BY <2>1, ElementOfSeq
  <2>3. ToSet(completed) = {completed[i] : i \in 1..Len(completed)}
    BY <2>1 DEF ToSet
  <2>4. wf.compensatable \subseteq Nodes
    BY DefFact
  <2>5. ToSet(completed) = {n \in wf.compensatable \ wf.fire_and_forget : node[n] = "ok"}
    BY <2>2, <2>3, <2>4 DEF CompletedInv, FF
  <2>6. CASE result = "Ok"
    BY <2>5, <2>6, SMTT(30) DEF RollbackExact, UndoInv
  <2>7. CASE result # "Ok"
    <3>1. result \notin {"None", "Definition", "Ok"} /\ undo = 0
      BY <2>7 DEF PcInv, UndoInv
    <3>2. \/ Len(undone) = Len(completed)
          \/ wf.stop_on_error /\ undone # <<>> /\ ~undone[Len(undone)].ok
      <4>1. \/ Len(undone) + undo = Len(completed)
            \/ wf.stop_on_error /\ undone # <<>> /\ ~undone[Len(undone)].ok
        BY <3>1 DEF UndoInv
      <4>2. Len(undone) + undo = Len(completed) => Len(undone) = Len(completed)
        <5>1. undo = 0 /\ Len(undone) \in Nat
          BY <2>1, <3>1
        <5> QED
          BY <5>1, SMT
      <4> QED
        BY <4>1, <4>2
    <3>3. /\ Len(undone) <= Len(completed)
          /\ \A i \in 1..Len(undone) : undone[i].n = completed[Len(completed) - i + 1]
          /\ \A i \in 1..Len(undone) : wf.stop_on_error /\ i < Len(undone) => undone[i].ok
      BY <3>1 DEF UndoInv
    <3>4. ASSUME NEW i \in 1..Len(undone), NEW j \in 1..(i - 1)
          PROVE  undone[j].n # undone[i].n /\ undone[j].n \notin wf.depends_on[undone[i].n]
      <4>1. /\ Len(completed) - i + 1 \in 1..Len(completed)
            /\ Len(completed) - j + 1 \in 1..Len(completed)
            /\ Len(completed) - i + 1 < Len(completed) - j + 1 /\ j \in 1..Len(undone)
        BY <2>1, <3>3
      <4>2. /\ undone[i].n = completed[Len(completed) - i + 1]
            /\ undone[j].n = completed[Len(completed) - j + 1]
        BY <3>3, <4>1
      <4> QED
        BY <4>1, <4>2 DEF CompletedInv, Deps
    <3> QED
      BY <2>1, <2>5, <2>7, <3>2, <3>3, <3>4, ZenonT(60) DEF RollbackExact
  <2> QED
    BY <2>6, <2>7
<1> QED
  BY <1>1, WorkflowInvariant, PTL

\* No payload lies in the buffer behind the back of a parked receiver, and no
\* receiver is parked where deliver() would not find it.
THEOREM SignalNoLostWakeup == WorkflowSpec => []NoLostWakeup
<1>1. IInv => NoLostWakeup
  BY DEF IInv, SInv
<1> QED
  BY <1>1, WorkflowInvariant, PTL
=============================================================================
