------------------------------ MODULE MCGuards ------------------------------
(***************************************************************************)
(* The two guards that stand between a caller and the work it asks for, in *)
(* one run: the resilience chain in front of a remote call, and the lock   *)
(* in front of a scheduled job.  They share no state, so a behaviour is    *)
(* one of one guard; the other rests in its initial state.                 *)
(***************************************************************************)
EXTENDS MCResilienceChain, MCScheduler

VARIABLE part  \* the guard this behaviour is about

GuardsInit ==
  /\ part \in {"chain", "scheduler"}
  /\ part # "chain" => /\ cfg = CHOOSE c \in Configs : TRUE
                       /\ timeout_outermost = CHOOSE b \in Placements : TRUE
  /\ part # "scheduler" => backend = CHOOSE b \in Backends : TRUE
  /\ ChainInit /\ SchedulerInit

GuardsNext ==
  /\ \/ part = "chain" /\ ChainNext /\ UNCHANGED schedulerVars
     \/ part = "scheduler" /\ SchedulerNext /\ UNCHANGED chainVars
  /\ UNCHANGED part

\* The fairness of ChainFairSpec and SchedulerFairSpec.
GuardsSpec ==
  /\ GuardsInit /\ [][GuardsNext]_<<chainVars, schedulerVars, part>>
  /\ WF_chainVars(part = "chain" /\ Tick)
  /\ WF_chainVars(part = "chain" /\ \E c \in Calls : Admit(c))
  /\ \A c \in Calls :
       /\ WF_chainVars(part = "chain" /\ Record(c))
       /\ WF_chainVars(part = "chain" /\ (ExpireInside(c) \/ ExpireOutside(c)))
  /\ WF_schedulerVars(part = "scheduler" /\ Expire)
  /\ \A l \in Loops :
       /\ WF_schedulerVars(part = "scheduler" /\ Loop(l))
       /\ SF_schedulerVars(part = "scheduler" /\ ExitOnStop(l))
=============================================================================
