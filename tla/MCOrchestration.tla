--------------------------- MODULE MCOrchestration ---------------------------
(***************************************************************************)
(* The parts of crates/orchestration in one run: a saga, a workflow with   *)
(* its signals, and the recovery of persisted executions.  They share no   *)
(* state, so a behaviour is one of one part; the others rest in their      *)
(* initial state.                                                          *)
(***************************************************************************)
EXTENDS MCSaga, MCWorkflow, Recovery

VARIABLE part  \* the part this behaviour is about

orchestrationVars == <<sagaVars, workflowVars, recoveryVars, part>>

\* Recovery is explored twice: overlapping passes over one execution, and one
\* pass over all of them.
Repaired == CHOOSE e \in Execs \ Skipped : TRUE
Scanner == CHOOSE p \in Passes : TRUE

OverlapStep == RecoveryNext /\ \A e \in Execs \ {Repaired} : rowStatus'[e] = "ABSENT"
ScanStep == RecoveryNext /\ \A p \in Passes \ {Scanner} : phase'[p] = "idle"

OrchestrationInit ==
  /\ part \in {"saga", "workflow", "overlap", "scan"}
  /\ part # "saga" => def = CHOOSE d \in Sagas : TRUE
  /\ part # "workflow" => wf = CHOOSE d \in Workflows : TRUE
  /\ SagaInit /\ WorkflowInit /\ RecoveryInit

OrchestrationNext ==
  /\ \/ part = "saga" /\ SagaNext /\ UNCHANGED <<workflowVars, recoveryVars>>
     \/ part = "workflow" /\ WorkflowNext /\ UNCHANGED <<sagaVars, recoveryVars>>
     \/ part = "overlap" /\ OverlapStep /\ UNCHANGED <<sagaVars, workflowVars>>
     \/ part = "scan" /\ ScanStep /\ UNCHANGED <<sagaVars, workflowVars>>
  /\ UNCHANGED part

\* The fairness of SagaFairSpec, WorkflowFairSpec and RecoveryFairSpec.
OrchestrationSpec ==
  /\ OrchestrationInit /\ [][OrchestrationNext]_orchestrationVars
  /\ WF_sagaVars(part = "saga" /\ Engine)
  /\ WF_workflowVars(part = "workflow" /\ RunInner)
  /\ \A n \in Receivers : WF_workflowVars(part = "workflow" /\ n \in Nodes /\ TaskStep(n))
  /\ WF_recoveryVars(part \in {"overlap", "scan"} /\ Tick)
  /\ WF_recoveryVars(part \in {"overlap", "scan"} /\ Pass(Scanner))
  /\ \A p \in Passes \ {Scanner} : WF_recoveryVars(part = "overlap" /\ Pass(p))
=============================================================================
