------------------------- MODULE MCResilienceChain -------------------------
(* Small instances of ResilienceChain for TLC. *)
EXTENDS ResilienceChain, TLC

Config(threshold, window, rate, probes) ==
  [failure_threshold |-> threshold, window |-> window, open_duration |-> 2,
   rate |-> rate, window_size |-> 2, half_open_max_calls |-> probes]

\* Consecutive mode, windowed mode and failure-rate mode, with one and two probes.
MCConfigs ==
  {Config(2, 0, 0, 1), Config(2, 1, 0, 2), Config(1, 0, 50, 2)}
=============================================================================
