--------------------------- MODULE ResilienceChain ---------------------------
(***************************************************************************)
(* Calls guarded by the decorators of crates/resilience: a Timeout, a      *)
(* CircuitBreaker and a Bulkhead composed with Chain around a downstream   *)
(* operation.  timeout_outermost tells the order the crate documents,      *)
(* timeout(breaker(bulkhead(op))), from breaker(timeout(bulkhead(op))).    *)
(*                                                                         *)
(* The breaker's mutex makes allow() and record() atomic, but the guarded  *)
(* operation is awaited between the two: results arrive in any order and   *)
(* in any later state of the breaker.  A Timeout drops the future it       *)
(* wraps: nothing after the await of a dropped future runs.                *)
(*                                                                         *)
(* Instants are abstracted to ages: `opened_at` is kept as the time since  *)
(* the breaker opened, and `failures` as the time since each failure, both *)
(* saturating where the code no longer tells values apart.                 *)
(***************************************************************************)
EXTENDS Integers, Sequences, FiniteSets

CONSTANTS
  Calls,             \* tasks that issue guarded calls, one at a time
  Configs,           \* the effective CircuitConfig values explored
  MaxConcurrent,     \* the bulkhead's cap
  Placements         \* explored values of timeout_outermost

\* window 0 counts consecutive failures; rate 0 stands for
\* failure_rate_threshold = None, otherwise it is a percentage.
ConfigType ==
  [failure_threshold : Nat \ {0}, window : Nat, open_duration : Nat \ {0},
   rate : 0..100, window_size : Nat \ {0}, half_open_max_calls : Nat \ {0}]

ASSUME ChainAssumption ==
  /\ IsFiniteSet(Calls)
  /\ Configs \subseteq ConfigType
  /\ MaxConcurrent \in Nat \ {0}
  /\ Placements \subseteq BOOLEAN

VARIABLES
  cfg,                 \* the breaker's configuration, fixed at construction
  timeout_outermost,   \* the order of the chain, fixed at construction
  state,               \* BreakerInner.state
  failures,            \* BreakerInner.failures, as ages
  opened,              \* age of BreakerInner.opened_at
  outcomes,            \* BreakerInner.outcomes, TRUE for a success
  half_open_calls, half_open_successes,
  permits,             \* free permits of the bulkhead's semaphore
  at,                  \* where each guarded call is
  failed,              \* result of a call that has returned to the breaker
  probe                \* history: admitted in the current half-open phase

breakerVars == <<state, failures, opened, outcomes, half_open_calls,
                 half_open_successes>>
chainVars == <<cfg, timeout_outermost, breakerVars, permits, at, failed, probe>>

ChainInit ==
  /\ cfg \in Configs
  /\ timeout_outermost \in Placements
  /\ state = "Closed"
  /\ failures = <<>>
  /\ opened = 0
  /\ outcomes = <<>>
  /\ half_open_calls = 0
  /\ half_open_successes = 0
  /\ permits = MaxConcurrent
  /\ at = [c \in Calls |-> "idle"]
  /\ failed = [c \in Calls |-> FALSE]
  /\ probe = [c \in Calls |-> FALSE]

-----------------------------------------------------------------------------
(* The breaker: allow() and record() *)

\* The state allow() decides on: Open lapses into HalfOpen after open_duration.
Lapsed == state = "Open" /\ opened >= cfg.open_duration

\* allow() in the Closed state.
AllowClosed ==
  /\ state = "Closed"
  /\ UNCHANGED breakerVars

\* Mutant of AllowProbe: an open breaker never lapses.
AllowProbeNoLapse ==
  /\ state = "HalfOpen" /\ half_open_calls < cfg.half_open_max_calls
  /\ half_open_calls' = half_open_calls + 1
  /\ UNCHANGED <<state, half_open_successes, failures, opened, outcomes>>

\* allow() in the HalfOpen state, or the one that lapses into it: a probe slot
\* is consumed while the budget lasts.
AllowProbe ==
  /\ state = "HalfOpen" \/ Lapsed
  /\ (IF Lapsed THEN 0 ELSE half_open_calls) < cfg.half_open_max_calls
  /\ state' = "HalfOpen"
  /\ half_open_calls' = (IF Lapsed THEN 0 ELSE half_open_calls) + 1
  /\ half_open_successes' = IF Lapsed THEN 0 ELSE half_open_successes
  /\ UNCHANGED <<failures, opened, outcomes>>

\* The ring of the last window_size outcomes.
PushOutcome(ok) ==
  LET kept == IF Len(outcomes) = cfg.window_size THEN Tail(outcomes) ELSE outcomes
  IN  Append(kept, ok)

\* The failures among the outcomes of the ring.
FailedCount(os) == Len(SelectSeq(os, LAMBDA ok : ~ok))

\* Mutant of Tripped: the threshold must be exceeded.
TrippedAbove(fs, os) ==
  IF cfg.rate # 0
  THEN /\ Len(os) >= cfg.window_size
       /\ 100 * FailedCount(os) > cfg.rate * Len(os)
  ELSE Len(fs) > cfg.failure_threshold

\* tripped(), on the values of failures and outcomes after the push.
Tripped(fs, os) ==
  IF cfg.rate # 0
  THEN /\ Len(os) >= cfg.window_size
       /\ 100 * FailedCount(os) >= cfg.rate * Len(os)
  ELSE Len(fs) >= cfg.failure_threshold

\* Failures older than the window, the first ones: they are listed oldest first.
Outdated(fs) == Cardinality({i \in DOMAIN fs : fs[i] > cfg.window})

\* The failure list after a failure now: pushed, then cut to the window.
PushFailure ==
  IF cfg.rate # 0 THEN failures
  ELSE LET fs == Append(failures, 0)
       IN  IF cfg.window = 0 THEN fs
           ELSE SubSeq(fs, Outdated(fs) + 1, Len(fs))

\* record(true) while half-open: any failure re-opens the circuit.
ReopenOnFailure ==
  /\ state = "HalfOpen"
  /\ state' = "Open" /\ opened' = 0 /\ failures' = <<>>
  /\ half_open_calls' = 0 /\ half_open_successes' = 0
  /\ outcomes' = PushOutcome(FALSE)

\* record(true) while closed, or while open for a call admitted earlier: count
\* the failure and trip; tripping an open breaker restarts its open period.
CountFailure ==
  /\ state # "HalfOpen"
  /\ outcomes' = PushOutcome(FALSE)
  /\ IF Tripped(PushFailure, PushOutcome(FALSE))
     THEN state' = "Open" /\ opened' = 0 /\ failures' = <<>>
     ELSE failures' = PushFailure /\ UNCHANGED <<state, opened>>
  /\ UNCHANGED <<half_open_calls, half_open_successes>>

\* record(false) while half-open: the last success of the budget closes.
ProbeSuccess ==
  /\ state = "HalfOpen"
  /\ IF half_open_successes + 1 >= cfg.half_open_max_calls
     THEN /\ state' = "Closed" /\ failures' = <<>> /\ outcomes' = <<>>
          /\ half_open_calls' = 0 /\ half_open_successes' = 0
     ELSE /\ half_open_successes' = half_open_successes + 1
          /\ outcomes' = PushOutcome(TRUE)
          /\ UNCHANGED <<state, failures, half_open_calls>>
  /\ UNCHANGED opened

\* record(false) otherwise: resets the count in consecutive mode.
CountSuccess ==
  /\ state # "HalfOpen"
  /\ outcomes' = PushOutcome(TRUE)
  /\ failures' = IF cfg.window = 0 THEN <<>> ELSE failures
  /\ UNCHANGED <<state, opened, half_open_calls, half_open_successes>>

\* The probes of a half-open phase stop being probes when the phase ends.
EndPhase(probes) ==
  IF state' = "HalfOpen" THEN probes ELSE [c \in Calls |-> FALSE]

-----------------------------------------------------------------------------
(* One guarded call *)

\* before_call() admits the call; a refused call changes nothing.
Admit(c) ==
  /\ at[c] = "idle"
  /\ AllowClosed \/ AllowProbe
  /\ at' = [at EXCEPT ![c] = "acquire"]
  /\ probe' = [probe EXCEPT ![c] = state' = "HalfOpen"]
  /\ UNCHANGED <<cfg, timeout_outermost, permits, failed>>

\* The bulkhead grants a permit and the operation starts.
Acquire(c) ==
  /\ at[c] = "acquire" /\ permits > 0
  /\ permits' = permits - 1
  /\ at' = [at EXCEPT ![c] = "running"]
  /\ UNCHANGED <<cfg, timeout_outermost, breakerVars, failed, probe>>

\* try_execute() finds no permit: the call fails with BulkheadFull, which the
\* breaker around it sees as any other error.
TryAcquireFull(c) ==
  /\ at[c] = "acquire" /\ permits = 0
  /\ at' = [at EXCEPT ![c] = "returned"]
  /\ failed' = [failed EXCEPT ![c] = TRUE]
  /\ UNCHANGED <<cfg, timeout_outermost, breakerVars, permits, probe>>

\* The operation returns; the bulkhead's permit is dropped.
Complete(c, err) ==
  /\ at[c] = "running"
  /\ permits' = permits + 1
  /\ at' = [at EXCEPT ![c] = "returned"]
  /\ failed' = [failed EXCEPT ![c] = err]
  /\ UNCHANGED <<cfg, timeout_outermost, breakerVars, probe>>

\* Mutant of ExpireInside: a call still queued for a permit gives one back.
ExpireInsideFrees(c) ==
  /\ ~timeout_outermost /\ at[c] \in {"acquire", "running"}
  /\ permits' = permits + 1
  /\ at' = [at EXCEPT ![c] = "returned"]
  /\ failed' = [failed EXCEPT ![c] = TRUE]
  /\ UNCHANGED <<cfg, timeout_outermost, breakerVars, probe>>

\* The budget of a Timeout inside the breaker elapses: the breaker sees Err.
ExpireInside(c) ==
  /\ ~timeout_outermost /\ at[c] \in {"acquire", "running"}
  /\ permits' = permits + (IF at[c] = "running" THEN 1 ELSE 0)
  /\ at' = [at EXCEPT ![c] = "returned"]
  /\ failed' = [failed EXCEPT ![c] = TRUE]
  /\ UNCHANGED <<cfg, timeout_outermost, breakerVars, probe>>

\* Mutant of ExpireOutside: the permit of the dropped call is forgotten.
ExpireOutsideLeaks(c) ==
  /\ timeout_outermost /\ at[c] \in {"acquire", "running"}
  /\ at' = [at EXCEPT ![c] = "idle"]
  /\ probe' = [probe EXCEPT ![c] = FALSE]
  /\ UNCHANGED <<cfg, timeout_outermost, breakerVars, permits, failed>>

\* The budget of an outermost Timeout elapses: the breaker's own future is
\* dropped, its permit with it, and nothing is recorded.
ExpireOutside(c) ==
  /\ timeout_outermost /\ at[c] \in {"acquire", "running"}
  /\ permits' = permits + (IF at[c] = "running" THEN 1 ELSE 0)
  /\ at' = [at EXCEPT ![c] = "idle"]
  /\ probe' = [probe EXCEPT ![c] = FALSE]
  /\ UNCHANGED <<cfg, timeout_outermost, breakerVars, failed>>

\* execute() records the result of the call.
Record(c) ==
  /\ at[c] = "returned"
  /\ IF failed[c] THEN ReopenOnFailure \/ CountFailure
                  ELSE ProbeSuccess \/ CountSuccess
  /\ at' = [at EXCEPT ![c] = "idle"]
  /\ failed' = [failed EXCEPT ![c] = FALSE]
  /\ probe' = EndPhase([probe EXCEPT ![c] = FALSE])
  /\ UNCHANGED <<cfg, timeout_outermost, permits>>

\* Time passes: ages grow until they no longer matter.
Tick ==
  /\ opened' = IF state = "Open" /\ opened < cfg.open_duration THEN opened + 1 ELSE opened
  /\ failures' = [i \in DOMAIN failures |->
                    IF failures[i] > cfg.window THEN failures[i] ELSE failures[i] + 1]
  /\ UNCHANGED <<cfg, timeout_outermost, state, outcomes, half_open_calls, half_open_successes,
                 permits, at, failed, probe>>

-----------------------------------------------------------------------------
ChainNext ==
  \/ Tick
  \/ \E c \in Calls :
       \/ Admit(c) \/ Acquire(c) \/ TryAcquireFull(c) \/ Record(c)
       \/ ExpireInside(c) \/ ExpireOutside(c)
       \/ \E err \in BOOLEAN : Complete(c, err)

ChainSpec == ChainInit /\ [][ChainNext]_chainVars

\* Time passes, a running future is polled to its end or to its timeout, and
\* there is traffic: some task that can be admitted eventually calls.
Fairness ==
  /\ WF_chainVars(Tick)
  /\ \A c \in Calls :
       /\ WF_chainVars(Record(c))
       /\ WF_chainVars(ExpireInside(c) \/ ExpireOutside(c))
  /\ WF_chainVars(\E c \in Calls : Admit(c))

ChainFairSpec == ChainSpec /\ Fairness

-----------------------------------------------------------------------------
(* Properties *)

InFlight == {c \in Calls : at[c] # "idle"}
Holding == {c \in Calls : at[c] = "running"}

ChainTypeOK ==
  /\ cfg \in Configs
  /\ timeout_outermost \in Placements
  /\ state \in {"Closed", "Open", "HalfOpen"}
  /\ failures \in Seq(Nat)
  /\ opened \in 0..cfg.open_duration
  /\ outcomes \in Seq(BOOLEAN) /\ Len(outcomes) <= cfg.window_size
  /\ half_open_calls \in Nat /\ half_open_successes \in Nat
  /\ permits \in 0..MaxConcurrent
  /\ at \in [Calls -> {"idle", "acquire", "running", "returned"}]
  /\ failed \in [Calls -> BOOLEAN]
  /\ probe \in [Calls -> BOOLEAN]

\* The ring is full and its share of failures has reached the rate.
RateReached ==
  /\ Len(outcomes) = cfg.window_size
  /\ 100 * FailedCount(outcomes) >= cfg.rate * cfg.window_size

\* The breaker trips at its threshold, neither later nor earlier, whatever late
\* results and half-open phases came before.  Counting: a closed breaker holds
\* fewer failures than the threshold.  By rate: it is not closed behind a
\* failure that left the ring full at the rate (a success that does so does not
\* trip it: record() compares on a failure only), and it is never open or
\* half-open with a ring that has not been full.
TripsAtThreshold ==
  /\ state = "Closed" /\ cfg.rate = 0 => Len(failures) < cfg.failure_threshold
  /\ state = "Closed" /\ cfg.rate # 0 /\ RateReached => outcomes[Len(outcomes)]
  /\ state # "Closed" /\ cfg.rate # 0 => Len(outcomes) = cfg.window_size

\* The bulkhead: free permits and running operations add up to its cap.
PermitsConserved == permits + Cardinality(Holding) = MaxConcurrent

Probes == {c \in Calls : probe[c]}

\* The half-open phase: at most half_open_max_calls calls admitted since the
\* breaker opened, each of them on a slot, and fewer successes than slots.
ProbeBudget ==
  state = "HalfOpen" =>
    /\ half_open_calls <= cfg.half_open_max_calls
    /\ half_open_successes < cfg.half_open_max_calls
    /\ Cardinality(Probes) <= half_open_calls

\* What before_call() asks of its callers and says of execute(): every slot
\* that was consumed is recorded once.  A slot of the half-open phase is either
\* still with a call in flight or was turned into a success (a failure ends the
\* phase), so a phase whose slots are all taken is decided by calls that are on
\* their way.
EverySlotRecorded ==
  state = "HalfOpen" => half_open_calls <= half_open_successes + Cardinality(Probes)

\* No slot is forged, and none leaks with the Timeout inside the breaker,
\* through results, failures and futures that a timeout drops: the bulkhead
\* conserves its permits, the downstream sees no more probes than the budget,
\* and every slot is recorded.  In the other order of the chain the last part
\* fails: see the run of EverySlotRecorded.
SlotsAreHeld ==
  /\ PermitsConserved
  /\ ProbeBudget
  /\ ~timeout_outermost => EverySlotRecorded

\* The breaker does not stay where it refuses calls.  An open period ends while
\* traffic lasts, even though late failures of earlier calls may restart it;
\* with the Timeout inside the breaker a half-open phase ends too, as every
\* admitted probe is recorded and successes or a failure decide the phase.
PhasesEnd ==
  /\ state = "Open" ~> state # "Open"
  /\ (state = "HalfOpen" /\ ~timeout_outermost) ~> state # "HalfOpen"
=============================================================================
