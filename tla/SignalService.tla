--------------------------- MODULE SignalService ---------------------------
(***************************************************************************)
(* The signal service of crates/orchestration and the gates built on it,   *)
(* for the signals of one correlation id.  A receiver is the future of a   *)
(* step that waits for one signal, for all of several, or for the first of *)
(* several; every method of the service runs under its mutex, so each is   *)
(* one step.  Payloads are not told apart: what matters is whether one is  *)
(* there.                                                                  *)
(***************************************************************************)
EXTENDS Integers, Sequences, FiniteSets

CONSTANTS
  Signals,    \* signal names
  Receivers   \* the steps that may wait

VARIABLES
  waiters,   \* per signal: receivers whose sender the service keeps
  buffered,  \* per signal: a payload was delivered and nobody was there
  rx         \* per receiver and signal: its oneshot channel

svars == <<waiters, buffered, rx>>

NoChannel == [s \in Signals |-> "none"]

SignalInit ==
  /\ waiters = [s \in Signals |-> {}]
  /\ buffered = [s \in Signals |-> FALSE]
  /\ rx = [r \in Receivers |-> NoChannel]

\* Mutant of Subscribe: the buffer is not looked at.
SubscribeParks(r, S) ==
  /\ rx' = [rx EXCEPT ![r] = [s \in Signals |-> IF s \in S THEN "parked" ELSE "none"]]
  /\ waiters' = [s \in Signals |-> IF s \in S THEN waiters[s] \cup {r} ELSE waiters[s]]
  /\ UNCHANGED buffered

\* subscribe() to each signal of S: a buffered payload is taken out of the
\* buffer, otherwise the sender is registered.
Subscribe(r, S) ==
  /\ rx' = [rx EXCEPT ![r] = [s \in Signals |->
              IF s \notin S THEN "none" ELSE IF buffered[s] THEN "got" ELSE "parked"]]
  /\ waiters' = [s \in Signals |->
              IF s \in S /\ ~buffered[s] THEN waiters[s] \cup {r} ELSE waiters[s]]
  /\ buffered' = [s \in Signals |-> buffered[s] /\ s \notin S]

\* The signals a gate subscribes to when it is first polled: all of them, but
\* select_all() of wait_any() stops at the first that is ready.
Polled(gate) ==
  {gate.signals[i] : i \in {j \in DOMAIN gate.signals :
     gate.mode = "any" => \A k \in 1..(j - 1) : ~buffered[gate.signals[k]]}}

\* deliver(): every live waiter gets the payload; with none it is buffered, in
\* place of one that is there already.
Deliver(s) ==
  LET live == {r \in waiters[s] : rx[r][s] = "parked"}
  IN  /\ waiters' = [waiters EXCEPT ![s] = {}]
      /\ rx' = [r \in Receivers |-> IF r \in live THEN [rx[r] EXCEPT ![s] = "got"] ELSE rx[r]]
      /\ buffered' = [buffered EXCEPT ![s] = @ \/ live = {}]

\* unregister(): senders and payloads are discarded, waits see a closed channel.
Unregister ==
  /\ waiters' = [s \in Signals |-> {}]
  /\ buffered' = [s \in Signals |-> FALSE]
  /\ rx' = [r \in Receivers |-> [s \in Signals |->
              IF rx[r][s] = "parked" THEN "closed" ELSE rx[r][s]]]

\* The future of r ends and its receivers with it; their senders stay behind.
DropReceivers(r) ==
  /\ rx' = [rx EXCEPT ![r] = NoChannel]
  /\ UNCHANGED <<waiters, buffered>>

Is(r, state) == {s \in Signals : rx[r][s] = state}

\* The gate r waits at can return Ok: the signal, all of them, or the first.
GateOpen(r, gate) ==
  IF gate.mode = "any" THEN Is(r, "got") # {}
  ELSE Is(r, "got") = {gate.signals[i] : i \in DOMAIN gate.signals}

\* A closed channel fails the gate.
GateClosed(r) == Is(r, "closed") # {}
=============================================================================
