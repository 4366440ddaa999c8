-------------------------------- MODULE Saga --------------------------------
(***************************************************************************)
(* One run of the saga engine of crates/orchestration: the execution order *)
(* derived from `depends_on`, the forward pass with per-step retries and   *)
(* cooperative cancellation, and the rollback under the six compensation   *)
(* policies.                                                               *)
(*                                                                         *)
(* A saga is a definition chosen from Definitions.  Steps are known by     *)
(* their insertion index; a dependency on an index outside the definition  *)
(* stands for an unknown step name, and `duplicate` for two steps sharing  *)
(* a name.  A timed-out attempt takes the same path as a failed one.       *)
(***************************************************************************)
EXTENDS Integers, Sequences, FiniteSets

LOCAL INSTANCE SequencesExt

CONSTANTS
  Sagas,  \* the saga definitions explored
  NoGroup       \* the group of a step that declares none

Policies == {"BestEffort", "StopOnError", "RetryWithBackoff", "CircuitBreaker",
             "BestEffortParallel", "GroupedParallel"}

CIRCUIT_BREAKER_THRESHOLD == 3

ASSUME SagaAssumption ==
  \A d \in Sagas :
    /\ d.depends_on \in Seq(SUBSET Nat)
    /\ DOMAIN d.group = DOMAIN d.depends_on
    /\ d.compensable \subseteq DOMAIN d.depends_on
    /\ d.policy \in Policies
    /\ d.max_attempts \in Nat \ {0}
    /\ d.duplicate \in BOOLEAN

VARIABLES
  def,        \* the definition of this run
  cancelled,  \* the run's CancellationToken
  pc,         \* where run_inner is
  order,      \* execution_order(), as far as it is computed
  ready,      \* execution_order(): what is left of the layer being placed
  executed,   \* indices of the steps that succeeded, in order
  attempt,    \* attempt number of the step being invoked
  rest,       \* positions of CompOrder whose result is not collected yet
  tries,      \* per position of CompOrder: attempts made or under way
  settled,    \* per position of CompOrder: result of its run_compensation
  failures,   \* consecutive_failures
  rolled,     \* steps_rolled
  status, error,  \* the terminal Outcome and SagaError
  runs        \* history: how often each step's execute action was invoked

sagaVars == <<def, cancelled, pc, order, ready, executed, attempt, rest, tries, settled,
          failures, rolled, status, error, runs>>

\* The locals of compensate().
cvars == <<rest, tries, settled, failures, rolled>>

Steps == DOMAIN def.depends_on

-----------------------------------------------------------------------------
(* execution_order() *)

Placed == ToSet(order)

\* Mutant of Frontier: a step is ready once one of its dependencies is placed.
FrontierAnyDependency(placed) ==
  {i \in Steps \ placed : def.depends_on[i] = {} \/ def.depends_on[i] \cap placed # {}}

\* Steps not placed yet whose dependencies all are: their in_degree is zero.
Frontier(placed) == {i \in Steps \ placed : def.depends_on[i] \subseteq placed}

\* A duplicate name, or a dependency on an unknown step or on itself.
BadNames ==
  \/ def.duplicate
  \/ \E i \in Steps : ~(def.depends_on[i] \subseteq Steps \ {i})

-----------------------------------------------------------------------------
(* The rollback plan *)

\* Positions in `executed` of the steps that have a compensation.
CompOrder == {p \in DOMAIN executed : executed[p] \in def.compensable}

\* Steps of one compensation group.
SameGroup(p, q) ==
  def.group[executed[p]] = def.group[executed[q]] /\ def.group[executed[p]] # NoGroup

\* The compensations under way or just ended: of those left the last executed,
\* all at once, or the last executed with its neighbours of the same group.
Batch ==
  {q \in rest : \/ def.policy = "BestEffortParallel"
               \/ \A p \in rest : p > q => def.policy = "GroupedParallel" /\ SameGroup(p, q)}

\* invoke_with_policy() gives a compensation more than one attempt only under
\* RetryWithBackoff.
CompAttempts == IF def.policy = "RetryWithBackoff" THEN def.max_attempts ELSE 1

-----------------------------------------------------------------------------
SagaInit ==
  /\ def \in Sagas
  /\ cancelled = FALSE
  /\ pc = "start"
  /\ order = <<>> /\ ready = {} /\ executed = <<>>
  /\ attempt = 0
  /\ rest = {} /\ tries = <<>> /\ settled = <<>> /\ failures = 0
  /\ rolled = <<>>
  /\ status = "Running" /\ error = "None"
  /\ runs = [i \in Steps |-> 0]

Finish(s, e) == pc' = "done" /\ status' = s /\ error' = e

\* The caller cancels the token at any time.
Cancel ==
  /\ ~cancelled /\ pc # "done"
  /\ cancelled' = TRUE
  /\ UNCHANGED <<def, pc, order, ready, executed, attempt, cvars, status, error, runs>>

\* run_inner() enters execution_order(): insertion order if no step declares a
\* dependency; otherwise names are resolved and the roots are the first layer.
ResolveOrder ==
  /\ pc = "start"
  /\ \/ /\ \A i \in Steps : def.depends_on[i] = {}
        /\ order' = [i \in Steps |-> i] /\ pc' = "forward"
        /\ UNCHANGED <<ready, status, error>>
     \/ /\ \E i \in Steps : def.depends_on[i] # {}
        /\ IF BadNames THEN Finish("Failed", "Definition") /\ UNCHANGED ready
           ELSE pc' = "ordering" /\ ready' = Frontier({}) /\ UNCHANGED <<status, error>>
        /\ UNCHANGED order
  /\ UNCHANGED <<def, cancelled, executed, attempt, cvars, runs>>

\* The next step of the layer in insertion order; behind the last one, the next
\* layer is what the layer released.
PlaceStep ==
  /\ pc = "ordering"
  /\ \E i \in ready :
       /\ \A j \in ready : i <= j
       /\ order' = Append(order, i)
       /\ ready' = IF ready = {i} THEN Frontier(Placed \cup {i}) ELSE ready \ {i}
  /\ UNCHANGED <<def, cancelled, pc, executed, attempt, cvars, status, error, runs>>

\* No layer is left: what is not placed by now is part of a cycle or behind one.
OrderDone ==
  /\ pc = "ordering" /\ ready = {}
  /\ IF Len(order) # Len(def.depends_on)
     THEN Finish("Failed", "Definition")
     ELSE pc' = "forward" /\ UNCHANGED <<status, error>>
  /\ UNCHANGED <<def, cancelled, order, ready, executed, attempt, cvars, runs>>

\* Top of the loop: a cancelled token ends the run without rollback ...
StopCancelled ==
  /\ pc = "forward" /\ Len(executed) < Len(order) /\ cancelled
  /\ Finish("Failed", "Cancelled")
  /\ UNCHANGED <<def, cancelled, order, ready, executed, attempt, cvars, runs>>

\* ... otherwise the next step is invoked.
BeginStep ==
  /\ pc = "forward" /\ Len(executed) < Len(order) /\ ~cancelled
  /\ pc' = "step" /\ attempt' = 1
  /\ runs' = [runs EXCEPT ![order[Len(executed) + 1]] = @ + 1]
  /\ UNCHANGED <<def, cancelled, order, ready, executed, cvars, status, error>>

StepOk ==
  /\ pc = "step"
  /\ executed' = Append(executed, order[Len(executed) + 1])
  /\ pc' = "forward" /\ attempt' = 0
  /\ UNCHANGED <<def, cancelled, order, ready, cvars, status, error, runs>>

\* Mutant of StepRetry: one attempt more than max_attempts.
StepRetryOneMore ==
  /\ pc = "step" /\ attempt <= def.max_attempts
  /\ attempt' = attempt + 1
  /\ runs' = [runs EXCEPT ![order[Len(executed) + 1]] = @ + 1]
  /\ UNCHANGED <<def, cancelled, pc, order, ready, executed, cvars, status, error>>

\* An attempt fails or times out and the RetryPolicy grants another.
StepRetry ==
  /\ pc = "step" /\ attempt < def.max_attempts
  /\ attempt' = attempt + 1
  /\ runs' = [runs EXCEPT ![order[Len(executed) + 1]] = @ + 1]
  /\ UNCHANGED <<def, cancelled, pc, order, ready, executed, cvars, status, error>>

\* The last attempt fails: compensate() what was executed.
StepFail ==
  /\ pc = "step" /\ attempt = def.max_attempts
  /\ attempt' = 0
  /\ IF CompOrder = {}
     THEN Finish("Compensated", "Step") /\ UNCHANGED <<rest, tries, settled>>
     ELSE /\ pc' = "compensate" /\ rest' = CompOrder
          /\ tries' = [p \in CompOrder |-> 1]
          /\ settled' = [p \in CompOrder |-> "pending"]
          /\ UNCHANGED <<status, error>>
  /\ UNCHANGED <<def, cancelled, order, ready, executed, failures, rolled, runs>>

\* Mutant of CompleteRun: a token cancelled during the last step is not handled.
CompleteRunUncancelled ==
  /\ pc = "forward" /\ Len(executed) = Len(order) /\ ~cancelled
  /\ Finish("Completed", "None")
  /\ UNCHANGED <<def, cancelled, order, ready, executed, attempt, cvars, runs>>

CompleteRun ==
  /\ pc = "forward" /\ Len(executed) = Len(order)
  /\ Finish("Completed", "None")
  /\ UNCHANGED <<def, cancelled, order, ready, executed, attempt, cvars, runs>>

\* A compensation of the batch ends; those of a batch end in any order.
CompensationOk(p) ==
  /\ pc = "compensate" /\ settled[p] = "pending"
  /\ settled' = [settled EXCEPT ![p] = "ok"]
  /\ UNCHANGED <<def, cancelled, pc, order, ready, executed, attempt, rest, tries,
                 failures, rolled, status, error, runs>>

\* Mutant of CompensationRetry: one attempt more than the policy grants.
CompensationRetryOneMore(p) ==
  /\ pc = "compensate" /\ settled[p] = "pending" /\ tries[p] <= CompAttempts
  /\ tries' = [tries EXCEPT ![p] = @ + 1]
  /\ UNCHANGED <<def, cancelled, pc, order, ready, executed, attempt, rest, settled,
                 failures, rolled, status, error, runs>>

CompensationRetry(p) ==
  /\ pc = "compensate" /\ settled[p] = "pending" /\ tries[p] < CompAttempts
  /\ tries' = [tries EXCEPT ![p] = @ + 1]
  /\ UNCHANGED <<def, cancelled, pc, order, ready, executed, attempt, rest, settled,
                 failures, rolled, status, error, runs>>

CompensationErr(p) ==
  /\ pc = "compensate" /\ settled[p] = "pending" /\ tries[p] = CompAttempts
  /\ settled' = [settled EXCEPT ![p] = "err"]
  /\ UNCHANGED <<def, cancelled, pc, order, ready, executed, attempt, rest, tries,
                 failures, rolled, status, error, runs>>

\* Mutant of FailureCount: a success does not break the run of failures.
FailureCountNeverReset(err) == IF err THEN failures + 1 ELSE failures

\* Compensation failures in a row, after one more result.
FailureCount(err) == IF err THEN failures + 1 ELSE 0

\* The policy gives up after this result.
Halts(err) ==
  \/ def.policy = "StopOnError" /\ err
  \/ def.policy = "CircuitBreaker" /\ FailureCount(err) >= CIRCUIT_BREAKER_THRESHOLD

\* Every compensation of the batch has returned; their results are collected
\* last executed first: note the name rolled back or count the failure, then stop
\* the rollback, go on, or end the run.
CollectResult ==
  /\ pc = "compensate" /\ \A p \in Batch : settled[p] # "pending"
  /\ \E p \in rest :
       LET err == settled[p] = "err" IN
       /\ \A q \in rest : q <= p
       /\ rest' = rest \ {p}
       /\ rolled' = IF err THEN rolled ELSE Append(rolled, executed[p])
       /\ failures' = FailureCount(err)
       /\ IF Halts(err) \/ rest = {p}
          THEN Finish("Compensated",
                      IF def.policy = "StopOnError" /\ err THEN "Compensation" ELSE "Step")
          ELSE UNCHANGED <<pc, status, error>>
  /\ UNCHANGED <<def, cancelled, order, ready, executed, attempt, tries, settled, runs>>

-----------------------------------------------------------------------------
Engine ==
  \/ ResolveOrder \/ PlaceStep \/ OrderDone
  \/ StopCancelled \/ BeginStep \/ StepOk \/ StepRetry \/ StepFail \/ CompleteRun
  \/ CollectResult
  \/ \E p \in Batch :
       CompensationOk(p) \/ CompensationRetry(p) \/ CompensationErr(p)

SagaNext == Engine \/ Cancel

SagaSpec == SagaInit /\ [][SagaNext]_sagaVars

\* run() is awaited, and the actions of the steps return.
SagaFairSpec == SagaSpec /\ WF_sagaVars(Engine)

-----------------------------------------------------------------------------
(* Properties *)

SagaTypeOK ==
  /\ def \in Sagas
  /\ cancelled \in BOOLEAN
  /\ pc \in {"start", "ordering", "forward", "step", "compensate", "done"}
  /\ order \in Seq(Steps) /\ ready \subseteq Steps /\ executed \in Seq(Steps)
  /\ attempt \in 0..def.max_attempts
  /\ rest \subseteq DOMAIN settled /\ DOMAIN settled \in {{}, CompOrder}
  /\ tries \in [DOMAIN settled -> 1..CompAttempts]
  /\ settled \in [DOMAIN settled -> {"pending", "ok", "err"}]
  /\ failures \in Nat
  /\ rolled \in Seq(Steps)
  /\ status \in {"Running", "Completed", "Compensated", "Failed"}
  /\ error \in {"None", "Definition", "Cancelled", "Step", "Compensation"}
  /\ runs \in [Steps -> Nat]

Executed == ToSet(executed)

\* A set of steps each waiting for another of the set, or for no step at all:
\* no order can serve it.
Unservable ==
  \E S \in (SUBSET Steps) \ {{}} :
    \A i \in S : def.depends_on[i] \cap S # {} \/ ~(def.depends_on[i] \subseteq Steps)

\* No step is invoked before every step it depends on has executed; and a
\* definition is refused, before anything runs, exactly when its edges admit no
\* order at all (or names are ambiguous while edges exist).
DependencyOrder ==
  /\ \A i \in Steps : runs[i] > 0 => def.depends_on[i] \subseteq Executed
  /\ error = "Definition" => \A i \in Steps : runs[i] = 0
  /\ error = "Definition" => def.duplicate \/ Unservable
  /\ status = "Completed" => ~Unservable /\ Executed = Steps

\* The rollback never undoes a step while a step that depends on it still
\* stands: when the compensation of j has been started, that of every executed
\* compensable step depending on j has returned (unless the policy runs both
\* at once, in one group or all in parallel).
DependentsUndoneFirst ==
  \A p, q \in DOMAIN settled :
    /\ executed[q] \in def.depends_on[executed[p]]
    /\ def.policy # "BestEffortParallel"
    /\ ~(def.policy = "GroupedParallel" /\ SameGroup(p, q))
    /\ settled[q] # "pending" \/ (pc = "compensate" /\ q \in Batch)
    => settled[p] # "pending"

\* q is the third of three failed compensations without another in between.
Third(q) ==
  \E a, b \in DOMAIN settled :
    /\ a > b /\ b > q
    /\ \A p \in {a, b, q} : settled[p] = "err"
    /\ \A p \in DOMAIN settled : q <= p /\ p <= a => p \in {a, b, q}

\* Throughout a rollback dependents are undone first.  A finished one: every executed step that can be
\* compensated was tried, except behind the point where StopOnError met its
\* first failure or CircuitBreaker its third failure in a row; steps_rolled
\* lists exactly the successes, last executed first; and the caller gets a
\* Compensation error exactly when StopOnError left work undone or failed.
RollbackComplete ==
  /\ DependentsUndoneFirst
  /\ status = "Compensated" =>
    LET bad == {p \in DOMAIN settled : settled[p] = "err"}
        ok  == {p \in DOMAIN settled : settled[p] = "ok"}
        halted(p) == CASE def.policy = "StopOnError" -> \E q \in bad : q > p
                       [] def.policy = "CircuitBreaker" -> \E q \in bad : q > p /\ Third(q)
                       [] OTHER -> FALSE
    IN  /\ \A p \in DOMAIN settled : settled[p] = "pending" <=> halted(p)
        /\ ToSet(rolled) = {executed[p] : p \in ok}
        /\ Len(rolled) = Cardinality(ok)
        /\ \A k, l \in DOMAIN rolled :
             k < l => \E m, n \in DOMAIN executed :
                        m > n /\ executed[m] = rolled[k] /\ executed[n] = rolled[l]
        /\ error = "Compensation" <=> def.policy = "StopOnError" /\ bad # {}

\* A step whose RetryPolicy is exhausted ends the forward pass for good, and
\* no step is invoked more often than its policy allows or again once it has
\* executed, not by cancellation and not by the rollback.
InvocationsBounded ==
  [][\A i \in Steps :
       runs'[i] # runs[i] =>
         /\ runs'[i] <= def.max_attempts
         /\ i \notin Executed
         /\ ~cancelled \/ attempt > 0
         /\ pc' = "step"]_sagaVars

\* Every run that has begun ends, whatever fails and whenever the caller cancels,
\* as long as the actions of the steps return.
RunEnds == pc # "start" ~> pc = "done"
=============================================================================
