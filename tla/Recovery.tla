------------------------------ MODULE Recovery ------------------------------
(***************************************************************************)
(* Persisted orchestration executions and their repair: the row store of   *)
(* PersistenceProvider, DurableWorkflowState, and overlapping passes of    *)
(* RecoveryService::recover_stale over one store, with cleanup.            *)
(*                                                                         *)
(* The clock is abstracted to ages.  age[e] is the time since a row's      *)
(* updated_at (a terminal row was completed at the same instant), and a    *)
(* pass's cutoff is kept as old[p], the rows with updated_at < cutoff:     *)
(* rows join it only when the cutoff is taken, and leave it with their     *)
(* next write.                                                             *)
(***************************************************************************)
EXTENDS Integers, FiniteSets

CONSTANTS
  Execs,      \* correlation ids
  Passes,     \* recovery scans that may overlap (scheduled, operator-triggered)
  Skipped,    \* executions the decider answers Skip for
  Threshold,  \* stale_threshold
  Retention,  \* retention_period
  MaxFaults   \* bound: crashes of owners and aborted passes

ASSUME RecoveryAssumption ==
  /\ Skipped \subseteq Execs
  /\ Threshold \in Nat /\ Retention \in Nat /\ MaxFaults \in Nat

VARIABLES
  rowStatus, \* status column, "ABSENT" when there is no row
  age,       \* time since updated_at, up to AgeLimit
  owner,     \* is a process running the execution
  phase,     \* where a pass is
  old,       \* rows older than the pass's cutoff
  stale,     \* candidates of the pass not looked at yet
  current,   \* per pass: {} or the set of the one execution in its handler
  action,    \* RecoveryAction under way
  held,      \* time since the pass claimed `current`, up to AgeLimit
  faults,
  overrun    \* history: executions taken up while still being worked on

rowVars == <<rowStatus, age>>
passVars == <<phase, stale, current, action>>
recoveryVars == <<rowVars, owner, passVars, old, held, faults, overrun>>

\* is_terminal(), on the statuses a workflow or saga row takes here.
Terminal == {"COMPLETED", "FAILED", "COMPENSATED"}
Status == Terminal \cup {"RUNNING", "SUSPENDED", "COMPENSATING", "ABSENT"}

\* Ages beyond both periods are not told apart.
AgeLimit == 1 + IF Threshold > Retention THEN Threshold ELSE Retention

Older(n) == IF n < AgeLimit THEN n + 1 ELSE n

Stale(e) == rowStatus[e] \notin Terminal \cup {"ABSENT"}

\* Some pass is running its handler for e.
InHandler(e) == \E p \in Passes : e \in current[p]

RecoveryInit ==
  /\ rowStatus = [e \in Execs |-> "ABSENT"]
  /\ age = [e \in Execs |-> 0]
  /\ owner = [e \in Execs |-> FALSE]
  /\ phase = [p \in Passes |-> "idle"]
  /\ old = [p \in Passes |-> {}]
  /\ stale = [p \in Passes |-> {}]
  /\ current = [p \in Passes |-> {}]
  /\ action = [p \in Passes |-> "None"]
  /\ held = [p \in Passes |-> 0]
  /\ faults = 0
  /\ overrun = {}

\* A write that stamps updated_at: transition() or new(), then the store.
Write(e, s) ==
  /\ rowStatus' = [rowStatus EXCEPT ![e] = s]
  /\ age' = [age EXCEPT ![e] = 0]
  /\ old' = [p \in Passes |-> old[p] \ {e}]

-----------------------------------------------------------------------------
(* The processes that run executions *)

\* A host of the engines starts an execution and saves its row: the engines
\* themselves do not persist.
Begin(e) ==
  /\ rowStatus[e] = "ABSENT" /\ ~owner[e]
  /\ Write(e, "RUNNING")
  /\ owner' = [owner EXCEPT ![e] = TRUE]
  /\ UNCHANGED <<passVars, held, faults, overrun>>

\* save() replaces the row, whatever it has become meanwhile.
Progress(e) ==
  /\ owner[e]
  /\ Write(e, "RUNNING")
  /\ UNCHANGED <<owner, passVars, held, faults, overrun>>

FinishRun(e) ==
  /\ owner[e]
  /\ Write(e, "COMPLETED")
  /\ owner' = [owner EXCEPT ![e] = FALSE]
  /\ UNCHANGED <<passVars, held, faults, overrun>>

\* DurableWorkflowState::suspend: a fresh row, and the process lets go.
Suspend(e) ==
  /\ owner[e]
  /\ Write(e, "SUSPENDED")
  /\ owner' = [owner EXCEPT ![e] = FALSE]
  /\ UNCHANGED <<passVars, held, faults, overrun>>

\* DurableWorkflowState::resume only loads the row, in any status: the process
\* that continues the run owns a row it has not refreshed.
Resume(e) ==
  /\ ~owner[e] /\ rowStatus[e] # "ABSENT"
  /\ owner' = [owner EXCEPT ![e] = TRUE]
  /\ overrun' = IF rowStatus[e] \in Terminal \/ InHandler(e) THEN overrun \cup {e} ELSE overrun
  /\ UNCHANGED <<rowVars, passVars, old, held, faults>>

OwnerCrash(e) ==
  /\ owner[e] /\ faults < MaxFaults
  /\ faults' = faults + 1
  /\ owner' = [owner EXCEPT ![e] = FALSE]
  /\ UNCHANGED <<rowVars, passVars, old, held, overrun>>

-----------------------------------------------------------------------------
(* recover_stale() and cleanup() *)

\* Mutant of StartPass: only running rows are listed.
StartPassRunningOnly(p) ==
  /\ phase[p] = "idle"
  /\ LET aged == {e \in Execs : age[e] > Threshold} IN
     /\ old' = [old EXCEPT ![p] = aged]
     /\ stale' = [stale EXCEPT ![p] = {e \in aged : rowStatus[e] = "RUNNING"}]
  /\ phase' = [phase EXCEPT ![p] = "scan"]
  /\ UNCHANGED <<rowVars, owner, current, action, held, faults, overrun>>

\* The cutoff is taken and list_stale() read.
StartPass(p) ==
  /\ phase[p] = "idle"
  /\ LET aged == {e \in Execs : age[e] > Threshold} IN
     /\ old' = [old EXCEPT ![p] = aged]
     /\ stale' = [stale EXCEPT ![p] = {e \in aged : Stale(e)}]
  /\ phase' = [phase EXCEPT ![p] = "scan"]
  /\ UNCHANGED <<rowVars, owner, current, action, held, faults, overrun>>

\* Skip, and a claim that is lost, move on to the next candidate.
PassOver(p, e) ==
  /\ phase[p] = "scan" /\ e \in stale[p]
  /\ e \in Skipped \/ ~Stale(e) \/ e \notin old[p]
  /\ stale' = [stale EXCEPT ![p] = @ \ {e}]
  /\ UNCHANGED <<rowVars, owner, phase, current, action, old, held, faults, overrun>>

\* Mutant of Claimable: the claim does not compare updated_at again.
ClaimableAnyAge(p, e) == Stale(e)

\* Mutant of Claimable: whatever was listed is claimed.
ClaimableUnchecked(p, e) == TRUE

\* The row claim_stale() may still take.
Claimable(p, e) == Stale(e) /\ e \in old[p]

\* Mutant of ClaimFailed: mark-failed goes on to the handler like the others.
ClaimFailedHandles(p, e) ==
  /\ phase[p] = "scan" /\ e \in stale[p] \ Skipped /\ Claimable(p, e)
  /\ Write(e, "FAILED")
  /\ stale' = [stale EXCEPT ![p] = @ \ {e}]
  /\ phase' = [phase EXCEPT ![p] = "handler"]
  /\ current' = [current EXCEPT ![p] = {e}]
  /\ overrun' = IF owner[e] \/ InHandler(e) THEN overrun \cup {e} ELSE overrun
  /\ UNCHANGED <<owner, action, held, faults>>

\* claim_stale() as mark-failed: the claim itself is the repair.
ClaimFailed(p, e) ==
  /\ phase[p] = "scan" /\ e \in stale[p] \ Skipped /\ Claimable(p, e)
  /\ Write(e, "FAILED")
  /\ stale' = [stale EXCEPT ![p] = @ \ {e}]
  /\ overrun' = IF owner[e] \/ InHandler(e) THEN overrun \cup {e} ELSE overrun
  /\ UNCHANGED <<owner, phase, current, action, held, faults>>

\* claim_stale() with the marker of Resume or Compensate; the handler starts.
Claim(p, e, a) ==
  /\ phase[p] = "scan" /\ e \in stale[p] \ Skipped /\ Claimable(p, e)
  /\ Write(e, IF a = "Resume" THEN "RUNNING" ELSE "COMPENSATING")
  /\ stale' = [stale EXCEPT ![p] = @ \ {e}]
  /\ phase' = [phase EXCEPT ![p] = "handler"]
  /\ current' = [current EXCEPT ![p] = {e}]
  /\ action' = [action EXCEPT ![p] = a]
  /\ held' = [held EXCEPT ![p] = 0]
  /\ overrun' = IF owner[e] \/ InHandler(e) THEN overrun \cup {e} ELSE overrun
  /\ UNCHANGED <<owner, faults>>

\* The handler returns (or is not installed): its result is saved over the row.
HandlerDone(p, e, ok) ==
  /\ phase[p] = "handler" /\ e \in current[p]
  /\ Write(e, IF ~ok THEN "FAILED"
              ELSE IF action[p] = "Resume" THEN "COMPLETED" ELSE "COMPENSATED")
  /\ phase' = [phase EXCEPT ![p] = "scan"]
  /\ current' = [current EXCEPT ![p] = {}]
  /\ action' = [action EXCEPT ![p] = "None"]
  /\ held' = [held EXCEPT ![p] = 0]
  /\ UNCHANGED <<owner, stale, faults, overrun>>

EndPass(p) ==
  /\ phase[p] = "scan" /\ stale[p] = {}
  /\ phase' = [phase EXCEPT ![p] = "idle"]
  /\ old' = [old EXCEPT ![p] = {}]
  /\ UNCHANGED <<rowVars, owner, stale, current, action, held, faults, overrun>>

\* The process of the pass dies, or a persistence error ends the pass early.
PassAborts(p) ==
  /\ phase[p] # "idle" /\ faults < MaxFaults
  /\ faults' = faults + 1
  /\ phase' = [phase EXCEPT ![p] = "idle"]
  /\ old' = [old EXCEPT ![p] = {}]
  /\ stale' = [stale EXCEPT ![p] = {}]
  /\ current' = [current EXCEPT ![p] = {}]
  /\ action' = [action EXCEPT ![p] = "None"]
  /\ held' = [held EXCEPT ![p] = 0]
  /\ UNCHANGED <<rowVars, owner, overrun>>

Doomed == {e \in Execs : rowStatus[e] \in Terminal /\ age[e] > Retention}

\* cleanup(): one statement over all rows.
Cleanup ==
  /\ Doomed # {}
  /\ rowStatus' = [e \in Execs |-> IF e \in Doomed THEN "ABSENT" ELSE rowStatus[e]]
  /\ age' = [e \in Execs |-> IF e \in Doomed THEN 0 ELSE age[e]]
  /\ old' = [p \in Passes |-> old[p] \ Doomed]
  /\ UNCHANGED <<owner, passVars, held, faults, overrun>>

Tick ==
  /\ age' = [e \in Execs |-> IF rowStatus[e] = "ABSENT" THEN 0 ELSE Older(age[e])]
  /\ held' = [p \in Passes |-> IF phase[p] = "handler" THEN Older(held[p]) ELSE 0]
  /\ UNCHANGED <<rowStatus, owner, passVars, old, faults, overrun>>

-----------------------------------------------------------------------------
Pass(p) ==
  \/ StartPass(p) \/ EndPass(p)
  \/ \E e \in Execs :
       \/ PassOver(p, e) \/ ClaimFailed(p, e)
       \/ \E a \in {"Resume", "Compensate"} : Claim(p, e, a)
       \/ \E ok \in BOOLEAN : HandlerDone(p, e, ok)

RecoveryNext ==
  \/ Tick \/ Cleanup
  \/ \E e \in Execs : \/ Begin(e) \/ Progress(e) \/ FinishRun(e)
                      \/ Suspend(e) \/ Resume(e) \/ OwnerCrash(e)
  \/ \E p \in Passes : Pass(p) \/ PassAborts(p)

RecoverySpec == RecoveryInit /\ [][RecoveryNext]_recoveryVars

\* Time passes, and the host schedules passes for ever; a handler returns.
\* Nothing obliges an owner to make progress.
RecoveryFairSpec ==
  /\ RecoverySpec
  /\ WF_recoveryVars(Tick)
  /\ \A p \in Passes : WF_recoveryVars(Pass(p))

-----------------------------------------------------------------------------
(* Properties *)

RecoveryTypeOK ==
  /\ rowStatus \in [Execs -> Status]
  /\ age \in [Execs -> 0..AgeLimit]
  /\ owner \in [Execs -> BOOLEAN]
  /\ phase \in [Passes -> {"idle", "scan", "handler"}]
  /\ old \in [Passes -> SUBSET Execs]
  /\ stale \in [Passes -> SUBSET Execs]
  /\ current \in [Passes -> SUBSET Execs]
  /\ action \in [Passes -> {"None", "Resume", "Compensate"}]
  /\ held \in [Passes -> 0..AgeLimit]
  /\ \A p \in Passes :
       /\ phase[p] = "handler" => action[p] # "None" /\ \E e \in Execs : current[p] = {e}
       /\ phase[p] # "handler" => action[p] = "None" /\ current[p] = {}
  /\ faults \in 0..MaxFaults
  /\ overrun \subseteq Execs

\* What recover_stale() says of overlapping passes: the loser of the claim skips
\* the row, so that the handler of an execution is never double-executed.
NeverDoubleExecuted ==
  \A p, q \in Passes : p # q => current[p] \cap current[q] = {}

\* Two handlers of overlapping passes run for one execution only when one of
\* them has outlived the stale threshold: the claim alone keeps two scans that
\* listed the same row apart, however late the second one gets to it.  Beyond
\* the threshold it does not: see the run of NeverDoubleExecuted.
DoubleOnlyAfterThreshold ==
  \A p, q \in Passes :
    p # q /\ current[p] \cap current[q] # {} => held[p] > Threshold \/ held[q] > Threshold

\* A terminal status is final unless two parties worked on the execution: its
\* owner or a handler outlived the threshold and was still at work when a pass
\* claimed the row, or it was resumed although finished or being repaired.
\* Passes alone, lost claims and aborted passes never overwrite one.
TerminalIsFinal ==
  [][\A e \in Execs :
       rowStatus[e] \in Terminal /\ rowStatus'[e] \notin {rowStatus[e], "ABSENT"} =>
         e \in overrun]_recoveryVars

\* A row that was claimed is never left behind: an execution nobody runs
\* reaches a terminal status, or leaves the store, although passes may abort
\* between the claim and the result.
StuckIsRepaired ==
  \A e \in Execs \ Skipped :
    (Stale(e) /\ ~owner[e]) ~> (~Stale(e) \/ owner[e])
=============================================================================
