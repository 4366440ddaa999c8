------------------------------ MODULE Workflow ------------------------------
(***************************************************************************)
(* One run of the workflow engine of crates/orchestration: waves of nodes  *)
(* joined by join_all, fire-and-forget nodes spawned as tasks, skip        *)
(* conditions, cancellation, rollback of completed nodes, and nodes that   *)
(* park at gates of the signal service.                                    *)
(*                                                                         *)
(* A definition is a record of DefinitionType.  Nodes are known by their   *)
(* insertion index; a dependency on 0 stands for an unknown name, and      *)
(* `duplicate` for two nodes sharing a name.                               *)
(***************************************************************************)
EXTENDS SignalService

LOCAL INSTANCE SequencesExt

CONSTANTS
  Workflows,    \* the workflow definitions explored
  MaxDeliveries   \* bound: calls of deliver()

\* A node body that parks nowhere.
NoGate == [mode |-> "all", signals |-> <<>>, timer |-> FALSE, timeout |-> FALSE]

ASSUME WorkflowAssumption ==
  /\ MaxDeliveries \in Nat
  /\ \A d \in Workflows :
       /\ d.depends_on \in Seq(SUBSET Nat)
       /\ DOMAIN d.depends_on \subseteq Receivers
       /\ d.fire_and_forget \subseteq DOMAIN d.depends_on
       /\ d.condition \subseteq DOMAIN d.depends_on
       /\ d.compensatable \subseteq DOMAIN d.depends_on
       /\ \A n \in DOMAIN d.depends_on :
            d.gate[n] \in [mode : {"all", "any"}, signals : Seq(Signals),
                         timer : BOOLEAN, timeout : BOOLEAN]
       /\ d.stop_on_error \in BOOLEAN
       /\ d.duplicate \in BOOLEAN

VARIABLES
  wf,         \* the definition of this run
  at,         \* where run_inner is
  node,       \* per node: what became of it
  token,      \* the caller's CancellationToken
  internal,   \* the token cancelled by the first node failure
  done,       \* names the dependency check accepts
  completed,  \* completed_order
  undo,       \* compensate(): position of completed being rolled back
  undone,     \* results of the compensations, in the order they ran
  result,     \* what run() returned
  deliveries  \* calls of deliver() so far

wvars == <<wf, at, node, token, internal, done, completed, undo, undone, result>>
workflowVars == <<wvars, svars, deliveries>>

Nodes == DOMAIN wf.depends_on
Wave == {n \in Nodes : node[n] \in {"waiting", "running", "ok", "skipped", "failed", "cancelled"}
                       /\ n \notin done /\ n \notin wf.fire_and_forget}

WorkflowInit ==
  /\ wf \in Workflows
  /\ at = "start"
  /\ node = [n \in Nodes |-> "pending"]
  /\ token = FALSE /\ internal = FALSE
  /\ done = {}
  /\ completed = <<>> /\ undo = 0 /\ undone = <<>>
  /\ result = "None"
  /\ SignalInit
  /\ deliveries = 0

\* Names are checked before anything runs.
Validate ==
  /\ at = "start"
  /\ IF \/ wf.duplicate
        \/ \E n \in Nodes : ~(wf.depends_on[n] \subseteq Nodes)
     THEN at' = "finished" /\ result' = "Definition"
     ELSE at' = "loop" /\ UNCHANGED result
  /\ UNCHANGED <<wf, node, token, internal, done, completed, undo, undone, svars, deliveries>>

-----------------------------------------------------------------------------
(* Waves *)

Pending == {n \in Nodes : node[n] = "pending"}

\* Mutant of Ready: one finished dependency is enough.
ReadyByOne ==
  {n \in Pending : wf.depends_on[n] = {} \/ wf.depends_on[n] \cap done # {}}

Ready == {n \in Pending : wf.depends_on[n] \subseteq done}

\* The ready nodes form a wave.  Its fire-and-forget nodes are skipped or
\* spawned (their gates are polled later) and count as done at once.
StartWave ==
  /\ at = "loop" /\ Ready # {}
  /\ \E skipped \in SUBSET (Ready \cap wf.fire_and_forget \cap wf.condition) :
       node' = [n \in Nodes |->
                  IF n \notin Ready THEN node[n]
                  ELSE IF n \in skipped THEN "skipped"
                  ELSE IF n \in wf.fire_and_forget THEN "spawned" ELSE "waiting"]
  /\ done' = done \cup (Ready \cap wf.fire_and_forget)
  /\ at' = "wave"
  /\ UNCHANGED <<wf, token, internal, completed, undo, undone, result, svars, deliveries>>

\* join_all() polls its futures in order: n is next when every node of the
\* wave before it has been polled.
FirstPoll(n) ==
  /\ at = "wave" /\ node[n] = "waiting"
  /\ \A m \in Wave : m < n => node[m] # "waiting"

\* The first poll finds a cancelled token ...
PollCancelled(n) ==
  /\ FirstPoll(n) /\ (token \/ internal)
  /\ node' = [node EXCEPT ![n] = "cancelled"]
  /\ UNCHANGED <<wf, at, token, internal, done, completed, undo, undone, result, svars, deliveries>>

\* ... or a condition that does not hold ...
PollSkipped(n) ==
  /\ FirstPoll(n) /\ ~token /\ ~internal /\ n \in wf.condition
  /\ node' = [node EXCEPT ![n] = "skipped"]
  /\ UNCHANGED <<wf, at, token, internal, done, completed, undo, undone, result, svars, deliveries>>

\* ... or starts the body, which subscribes to the signals of its gate.
PollRuns(n) ==
  /\ FirstPoll(n) /\ ~token /\ ~internal
  /\ node' = [node EXCEPT ![n] = "running"]
  /\ Subscribe(n, Polled(wf.gate[n]))
  /\ UNCHANGED <<wf, at, token, internal, done, completed, undo, undone, result, deliveries>>

\* A spawned task is polled for the first time.
TaskRuns(n) ==
  /\ node[n] = "spawned"
  /\ node' = [node EXCEPT ![n] = "running"]
  /\ Subscribe(n, Polled(wf.gate[n]))
  /\ UNCHANGED <<wf, at, token, internal, done, completed, undo, undone, result, deliveries>>

\* A node may return on the poll that started it, otherwise only when the
\* whole wave has been polled.  A task runs on its own.
Running(n) ==
  /\ node[n] = "running"
  /\ \/ n \in wf.fire_and_forget
     \/ \A m \in Wave : m > n => node[m] = "waiting"
     \/ \A m \in Wave : node[m] # "waiting"

HasGate(n) == wf.gate[n].signals # <<>>

\* A timer among the targets of wait_any() may fire first; run_bounded() may
\* time out.
CanReturnOk(n) == ~HasGate(n) \/ GateOpen(n, wf.gate[n]) \/ wf.gate[n].timer
CanReturnErr(n) == ~HasGate(n) \/ GateClosed(n) \/ wf.gate[n].timeout

\* Mutant of NodeOk: a node that completes after a sibling failed is not
\* entered into completed_order.
NodeOkUnlessCancelled(n) ==
  /\ Running(n) /\ n \notin wf.fire_and_forget /\ CanReturnOk(n)
  /\ node' = [node EXCEPT ![n] = "ok"]
  /\ completed' = IF n \in wf.compensatable /\ ~internal THEN Append(completed, n) ELSE completed
  /\ DropReceivers(n)
  /\ UNCHANGED <<wf, at, token, internal, done, undo, undone, result, deliveries>>

NodeOk(n) ==
  /\ Running(n) /\ n \notin wf.fire_and_forget /\ CanReturnOk(n)
  /\ node' = [node EXCEPT ![n] = "ok"]
  /\ completed' = IF n \in wf.compensatable THEN Append(completed, n) ELSE completed
  /\ DropReceivers(n)
  /\ UNCHANGED <<wf, at, token, internal, done, undo, undone, result, deliveries>>

NodeErr(n) ==
  /\ Running(n) /\ n \notin wf.fire_and_forget /\ CanReturnErr(n)
  /\ node' = [node EXCEPT ![n] = "failed"]
  /\ internal' = TRUE
  /\ DropReceivers(n)
  /\ UNCHANGED <<wf, at, token, done, completed, undo, undone, result, deliveries>>

\* Mutant of TaskEnds: a task whose body fails never reports its end.
TaskEndsOnOk(n) ==
  /\ Running(n) /\ n \in wf.fire_and_forget /\ CanReturnOk(n)
  /\ node' = [node EXCEPT ![n] = "ended"]
  /\ DropReceivers(n)
  /\ UNCHANGED <<wf, at, token, internal, done, completed, undo, undone, result, deliveries>>

\* A task ends; nobody looks at its result.
TaskEnds(n) ==
  /\ Running(n) /\ n \in wf.fire_and_forget /\ (CanReturnOk(n) \/ CanReturnErr(n))
  /\ node' = [node EXCEPT ![n] = "ended"]
  /\ DropReceivers(n)
  /\ UNCHANGED <<wf, at, token, internal, done, completed, undo, undone, result, deliveries>>

\* Mutant of JoinWave: the rollback starts one past the last completed node.
JoinWaveOnePast ==
  /\ at = "wave" /\ \A n \in Wave : node[n] \notin {"waiting", "running"}
  /\ done' = done \cup {n \in Wave : node[n] \in {"ok", "skipped"}}
  /\ IF \E n \in Wave : node[n] \in {"failed", "cancelled"}
     THEN at' = "compensate" /\ undo' = Len(completed) + 1 /\ result' = "Node"
     ELSE at' = "loop" /\ UNCHANGED <<undo, result>>
  /\ UNCHANGED <<wf, node, token, internal, completed, undone, svars, deliveries>>

\* join_all() returns: errors start the rollback, else the loop goes on.
JoinWave ==
  /\ at = "wave" /\ \A n \in Wave : node[n] \notin {"waiting", "running"}
  /\ LET failed == {n \in Wave : node[n] \in {"failed", "cancelled"}}
     IN  /\ done' = done \cup (Wave \ failed)
         /\ IF failed # {}
            THEN /\ at' = "compensate" /\ undo' = Len(completed)
                 /\ result' = IF \E n \in failed : node[n] = "failed" THEN "Node" ELSE "Cancelled"
            ELSE at' = "loop" /\ UNCHANGED <<undo, result>>
  /\ UNCHANGED <<wf, node, token, internal, completed, undone, svars, deliveries>>

\* Nodes are pending and none is ready.
NoProgress ==
  /\ at = "loop" /\ Pending # {} /\ Ready = {}
  /\ at' = "compensate" /\ undo' = Len(completed) /\ result' = "NoProgress"
  /\ UNCHANGED <<wf, node, token, internal, done, completed, undone, svars, deliveries>>

-----------------------------------------------------------------------------
(* Rollback and return *)

CompensateOk ==
  /\ at = "compensate" /\ undo > 0
  /\ undone' = Append(undone, [n |-> completed[undo], ok |-> TRUE])
  /\ undo' = undo - 1
  /\ UNCHANGED <<wf, at, node, token, internal, done, completed, result, svars, deliveries>>

CompensateErr ==
  /\ at = "compensate" /\ undo > 0
  /\ undone' = Append(undone, [n |-> completed[undo], ok |-> FALSE])
  /\ undo' = IF wf.stop_on_error THEN 0 ELSE undo - 1
  /\ UNCHANGED <<wf, at, node, token, internal, done, completed, result, svars, deliveries>>

\* Mutant of CompensateDone: an error returns without joining the tasks.
CompensateDoneReturns ==
  /\ at = "compensate" /\ undo = 0
  /\ at' = "finished"
  /\ UNCHANGED <<wf, node, token, internal, done, completed, undo, undone, result, svars, deliveries>>

\* After the rollback an error joins the tasks; NoProgress returns at once.
CompensateDone ==
  /\ at = "compensate" /\ undo = 0
  /\ at' = IF result = "NoProgress" THEN "finished" ELSE "join"
  /\ UNCHANGED <<wf, node, token, internal, done, completed, undo, undone, result, svars, deliveries>>

\* Nothing is pending any more.
AllDone ==
  /\ at = "loop" /\ Pending = {}
  /\ at' = "join" /\ result' = "Ok"
  /\ UNCHANGED <<wf, node, token, internal, done, completed, undo, undone, svars, deliveries>>

\* join_async() has awaited every task.
JoinAsync ==
  /\ at = "join" /\ \A n \in wf.fire_and_forget : node[n] \notin {"spawned", "running"}
  /\ at' = "finished"
  /\ UNCHANGED <<wf, node, token, internal, done, completed, undo, undone, result, svars, deliveries>>

-----------------------------------------------------------------------------
(* The world outside *)

CancelRun ==
  /\ at # "finished" /\ ~token
  /\ token' = TRUE
  /\ UNCHANGED <<wf, at, node, internal, done, completed, undo, undone, result, svars, deliveries>>

SendSignal(s) ==
  /\ deliveries < MaxDeliveries
  /\ deliveries' = deliveries + 1
  /\ Deliver(s)
  /\ UNCHANGED wvars

DiscardSignals ==
  /\ \E s \in Signals : waiters[s] # {} \/ buffered[s]
  /\ Unregister
  /\ UNCHANGED <<wvars, deliveries>>

RunInner ==
  \/ Validate \/ StartWave \/ JoinWave \/ NoProgress
  \/ CompensateOk \/ CompensateErr \/ CompensateDone \/ AllDone \/ JoinAsync
  \/ \E n \in Nodes : PollCancelled(n) \/ PollSkipped(n) \/ PollRuns(n) \/ NodeOk(n) \/ NodeErr(n)

TaskStep(n) == TaskRuns(n) \/ TaskEnds(n)

WorkflowNext ==
  \/ RunInner \/ \E n \in Nodes : TaskStep(n)
  \/ CancelRun \/ DiscardSignals \/ \E s \in Signals : SendSignal(s)

WorkflowSpec == WorkflowInit /\ [][WorkflowNext]_workflowVars

\* The run is awaited and its tasks are scheduled; bodies return when they can.
\* Nobody is obliged to deliver a signal or to cancel.
WorkflowFairSpec ==
  /\ WorkflowSpec
  /\ WF_workflowVars(RunInner)
  /\ \A n \in Receivers : WF_workflowVars(n \in Nodes /\ TaskStep(n))

-----------------------------------------------------------------------------
(* Properties *)

NodeStates == {"pending", "waiting", "spawned", "running", "ok", "skipped", "failed",
               "cancelled", "ended"}

WorkflowTypeOK ==
  /\ wf \in Workflows
  /\ at \in {"start", "loop", "wave", "compensate", "join", "finished"}
  /\ node \in [Nodes -> NodeStates]
  /\ token \in BOOLEAN /\ internal \in BOOLEAN
  /\ done \subseteq Nodes
  /\ completed \in Seq(Nodes)
  /\ undo \in 0..Len(completed)
  /\ undone \in Seq([n : Nodes, ok : BOOLEAN])
  /\ result \in {"None", "Definition", "Ok", "Node", "Cancelled", "NoProgress"}
  /\ waiters \in [Signals -> SUBSET Receivers]
  /\ buffered \in [Signals -> BOOLEAN]
  /\ rx \in [Receivers -> [Signals -> {"none", "parked", "got", "closed"}]]
  /\ deliveries \in 0..MaxDeliveries

\* However the nodes of a wave interleave with each other, with tasks, signals
\* and cancellation: a node leaves "pending" only when each dependency has
\* returned Ok, was skipped or is fire-and-forget; NoProgress is reported only
\* for nodes that wait for each other; and Ok means that nothing failed, was
\* cancelled or was left behind.
WaveOrder ==
  /\ \A n \in Nodes : node[n] # "pending" =>
       \A d \in wf.depends_on[n] :
         d \in Nodes /\ (node[d] \in {"ok", "skipped"} \/ d \in wf.fire_and_forget)
  /\ result = "NoProgress" =>
       /\ Pending # {}
       /\ \A n \in Pending : wf.depends_on[n] \cap Pending # {}
  /\ result = "Ok" => \A n \in Nodes : node[n] \notin {"pending", "failed", "cancelled"}
  /\ result = "Cancelled" => token

\* What a failed run has rolled back: completed_order holds exactly the
\* compensatable nodes that returned Ok, siblings of the failed node that
\* finished after it included; all of them are compensated, last completed
\* first and so a node before the nodes it depends on, except behind the first
\* failure under StopOnError; a run that returns Ok compensates nothing.
RollbackExact ==
  at = "finished" /\ result # "Definition" =>
    /\ ToSet(completed) =
         {n \in wf.compensatable \ wf.fire_and_forget : node[n] = "ok"}
    /\ IF result = "Ok" THEN undone = <<>>
       ELSE /\ \/ Len(undone) = Len(completed)
               \/ /\ wf.stop_on_error /\ undone # <<>>
                  /\ ~undone[Len(undone)].ok
            /\ \A i \in DOMAIN undone :
                 /\ undone[i].n = completed[Len(completed) - i + 1]
                 /\ wf.stop_on_error /\ i < Len(undone) => undone[i].ok
                 /\ \A j \in 1..(i - 1) :
                      /\ undone[j].n # undone[i].n
                      /\ undone[j].n \notin wf.depends_on[undone[i].n]

\* What run_inner() says of the tasks it spawns: the workflow awaits all of them
\* before returning.
AwaitsAllTasks ==
  at = "finished" => \A n \in Nodes : node[n] \notin {"waiting", "spawned", "running"}

\* When run() returns no node body runs any more, neither a node of the last
\* wave nor a fire-and-forget task, except at the exit for NoProgress, which
\* does not join: see the run of AwaitsAllTasks.
NothingOutlivesRun ==
  at = "finished" =>
    \A n \in Nodes :
      node[n] \in {"waiting", "spawned", "running"} =>
        result = "NoProgress" /\ n \in wf.fire_and_forget

\* A payload never lies in the buffer while a live receiver is parked on its
\* signal, whichever of deliver() and subscribe() came first and however many
\* receivers were dropped in between; and a parked receiver is always one the
\* service knows, so the next deliver() reaches it.
NoLostWakeup ==
  \A r \in Receivers : \A s \in Signals :
    rx[r][s] = "parked" => ~buffered[s] /\ r \in waiters[s]

AtGate(n) ==
  /\ n \in Nodes /\ node[n] = "running" /\ HasGate(n)
  /\ ~CanReturnOk(n) /\ ~CanReturnErr(n)

\* A run that has begun ends, and so does every task, unless a node waits at a
\* gate for a signal that nobody delivers: cancellation or a failed sibling does
\* not stop it, and nothing else does.
RunReturns ==
  <>[](\/ at = "start"
       \/ \E n \in Receivers : AtGate(n)
       \/ at = "finished" /\ \A n \in Nodes : node[n] \notin {"spawned", "running"})
=============================================================================
