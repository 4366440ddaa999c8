------------------------ MODULE ResilienceChainProofs ------------------------
(***************************************************************************)
(* The breaker and the bulkhead, for any number of calls, any caps and any *)
(* breaker configuration.                                                  *)
(*                                                                         *)
(* The argument about slots: every call that holds a permit is running     *)
(* (PermitsConserved).  A probe is a call in flight of the current         *)
(* half-open phase (ProbeLife); probes never outnumber the slots taken,    *)
(* and with the Timeout inside the breaker every slot taken is either      *)
(* still held by a probe or was turned into a success (SlotInv).           *)
(***************************************************************************)
EXTENDS ResilienceChain, FiniteSetTheorems, SequenceTheorems, TLAPS

\* Failures are listed oldest first.
AgesSorted ==
  \A i, j \in 1..Len(failures) : i <= j => failures[j] <= failures[i]

\* A probe is in flight, and its half-open phase is the current one.
ProbeLife ==
  \A c \in Calls : probe[c] => at[c] # "idle" /\ state = "HalfOpen"

\* The slots of a half-open phase.
SlotInv ==
  state = "HalfOpen" =>
    /\ half_open_calls <= cfg.half_open_max_calls
    /\ half_open_successes < cfg.half_open_max_calls
    /\ Cardinality(Probes) <= half_open_calls
    /\ ~timeout_outermost => half_open_calls <= half_open_successes + Cardinality(Probes)

IInv ==
  ChainTypeOK /\ AgesSorted /\ TripsAtThreshold /\ PermitsConserved
    /\ ProbeLife /\ SlotInv

USE ChainAssumption

\* The configuration's fields.
LEMMA CfgType ==
  ASSUME ChainTypeOK
  PROVE  /\ cfg.failure_threshold \in Nat \ {0} /\ cfg.window \in Nat
         /\ cfg.open_duration \in Nat \ {0} /\ cfg.half_open_max_calls \in Nat \ {0}
         /\ cfg.window_size \in Nat \ {0} /\ timeout_outermost \in BOOLEAN
  BY DEF ChainTypeOK, ConfigType

\* Sets of calls are finite.
LEMMA CallSets ==
  /\ IsFiniteSet(Holding) /\ Cardinality(Holding) \in Nat
  /\ IsFiniteSet(Probes) /\ Cardinality(Probes) \in Nat
<1>1. Holding \in SUBSET Calls /\ Probes \in SUBSET Calls
  BY DEF Holding, Probes
<1>2. IsFiniteSet(Holding) /\ IsFiniteSet(Probes)
  BY <1>1, FS_Subset
<1> QED
  BY <1>2, FS_CardinalityType

-----------------------------------------------------------------------------
(* The failure list *)

\* A downward closed set of indexes is the interval up to its size.
LEMMA InitialSegment ==
  ASSUME NEW n \in Nat, NEW D \in SUBSET (1..n),
         \A i \in D : \A j \in 1..n : j <= i => j \in D
  PROVE  /\ Cardinality(D) \in 0..n
         /\ \A i \in 1..n : i \in D <=> i <= Cardinality(D)
<1>1. IsFiniteSet(1..n) /\ Cardinality(1..n) = n
  BY FS_Interval
<1>2. IsFiniteSet(D) /\ Cardinality(D) <= n
  BY <1>1, FS_Subset, ZenonT(60)
<1>3. Cardinality(D) \in Nat
  BY <1>2, FS_CardinalityType
<1>4. ASSUME NEW i \in D PROVE i <= Cardinality(D)
  <2>1. i \in Nat /\ 1 <= i /\ (1..i) \in SUBSET D
    OBVIOUS
  <2>2. Cardinality(1..i) = i
    BY <2>1, FS_Interval
  <2> QED
    BY <1>2, <2>1, <2>2, FS_Subset
<1>5. ASSUME NEW i \in 1..n, i \notin D PROVE Cardinality(D) <= i - 1
  <2>1. D \in SUBSET (1..(i-1))
    BY <1>5
  <2>2. IsFiniteSet(1..(i-1)) /\ Cardinality(1..(i-1)) = i - 1
    BY FS_Interval
  <2>3. Cardinality(D) <= Cardinality(1..(i-1))
    BY <2>1, <2>2, FS_Subset
  <2> QED
    BY <2>2, <2>3
<1> QED
  BY <1>2, <1>3, <1>4, <1>5

\* What record() keeps of the failure list: with a window, the suffix of
\* exactly the failures in it; in every mode a list that is oldest first.
LEMMA WindowCut ==
  ASSUME ChainTypeOK, AgesSorted, cfg.rate = 0, cfg.window # 0,
         NEW fs, fs = Append(failures, 0)
  PROVE  /\ fs \in Seq(Nat) /\ Outdated(fs) \in 0..Len(fs)
         /\ \A i \in 1..Len(fs) : fs[i] <= cfg.window <=> i > Outdated(fs)
         /\ \A i, j \in 1..Len(fs) : i <= j => fs[j] <= fs[i]
<1>1. failures \in Seq(Nat) /\ Len(failures) \in Nat
  BY LenProperties DEF ChainTypeOK
<1>2. /\ fs \in Seq(Nat) /\ Len(fs) = Len(failures) + 1
      /\ \A i \in 1..Len(failures) : fs[i] = failures[i]
      /\ fs[Len(failures) + 1] = 0
  BY <1>1, AppendProperties
<1>3. DOMAIN fs = 1..Len(fs) /\ Len(fs) \in Nat /\ \A i \in 1..Len(fs) : fs[i] \in Nat
  BY <1>2, LenProperties
<1>4. \A i, j \in 1..Len(fs) : i <= j => fs[j] <= fs[i]
  BY <1>1, <1>2, <1>3 DEF AgesSorted
<1> DEFINE D == {i \in DOMAIN fs : fs[i] > cfg.window}
<1>5. cfg.window \in Nat
  BY CfgType
<1>6. \A i \in D : \A j \in 1..Len(fs) : j <= i => j \in D
  BY <1>3, <1>4, <1>5
<1>7. D \in SUBSET (1..Len(fs))
  BY <1>3
<1>8. Outdated(fs) = Cardinality(D)
  BY DEF Outdated
<1>9. \A i \in 1..Len(fs) : i \in D <=> ~(fs[i] <= cfg.window)
  BY <1>3, <1>5
<1> HIDE DEF D
<1>10. /\ Cardinality(D) \in 0..Len(fs)
       /\ \A i \in 1..Len(fs) : i \in D <=> i <= Cardinality(D)
  BY <1>3, <1>6, <1>7, InitialSegment
<1> QED
  BY <1>2, <1>3, <1>4, <1>8, <1>9, <1>10

LEMMA PushFailureFact ==
  ASSUME ChainTypeOK, AgesSorted
  PROVE  /\ PushFailure \in Seq(Nat)
         /\ \A i, j \in 1..Len(PushFailure) : i <= j => PushFailure[j] <= PushFailure[i]
<1>1. CASE cfg.rate # 0
  BY <1>1 DEF PushFailure, ChainTypeOK, AgesSorted
<1>2. CASE cfg.rate = 0 /\ cfg.window = 0
  <2> DEFINE fs == Append(failures, 0)
  <2>1. failures \in Seq(Nat) /\ Len(failures) \in Nat
    BY LenProperties DEF ChainTypeOK
  <2>2. /\ fs \in Seq(Nat) /\ Len(fs) = Len(failures) + 1
        /\ \A i \in 1..Len(failures) : fs[i] = failures[i]
        /\ fs[Len(failures) + 1] = 0
    BY <2>1, AppendProperties
  <2>3. PushFailure = fs
    BY <1>2 DEF PushFailure
  <2>4. \A i \in 1..Len(failures) : failures[i] \in Nat
    BY <2>1, ElementOfSeq
  <2> HIDE DEF fs
  <2> QED
    BY <2>1, <2>2, <2>3, <2>4, SMTT(30) DEF AgesSorted
<1>3. CASE cfg.rate = 0 /\ cfg.window # 0
  <2> DEFINE fs == Append(failures, 0)
             k == Outdated(fs) + 1
             n == Len(fs)
  <2>1. /\ fs \in Seq(Nat) /\ Outdated(fs) \in 0..n
        /\ \A i, j \in 1..n : i <= j => fs[j] <= fs[i]
    BY <1>3, WindowCut
  <2>2. PushFailure = SubSeq(fs, k, n)
    BY <1>3 DEF PushFailure
  <2>3. n \in Nat /\ \A i \in 1..n : fs[i] \in Nat
    BY <2>1, LenProperties, ElementOfSeq
  <2>4. k \in 1..(n + 1)
    BY <2>1, <2>3
  <2> HIDE DEF fs, k, n
  <2>5. \A i \in k..n : fs[i] \in Nat
    BY <2>3, <2>4
  <2>6. /\ SubSeq(fs, k, n) \in Seq(Nat)
        /\ Len(SubSeq(fs, k, n)) = IF k <= n THEN n - k + 1 ELSE 0
        /\ \A i \in 1..(n - k + 1) : SubSeq(fs, k, n)[i] = fs[k + i - 1]
    BY <2>3, <2>4, <2>5, SubSeqProperties
  <2> QED
    BY <2>1, <2>2, <2>3, <2>4, <2>6
<1> QED
  BY <1>1, <1>2, <1>3

\* The ring of outcomes.
LEMMA PushOutcomeFact ==
  ASSUME ChainTypeOK, NEW ok \in BOOLEAN
  PROVE  /\ PushOutcome(ok) \in Seq(BOOLEAN) /\ Len(PushOutcome(ok)) \in Nat
         /\ Len(PushOutcome(ok)) <= cfg.window_size
         /\ Len(outcomes) = cfg.window_size => Len(PushOutcome(ok)) = cfg.window_size
         /\ PushOutcome(ok)[Len(PushOutcome(ok))] = ok
<1> DEFINE kept == IF Len(outcomes) = cfg.window_size THEN Tail(outcomes) ELSE outcomes
<1>1. /\ outcomes \in Seq(BOOLEAN) /\ cfg.window_size \in Nat \ {0}
      /\ Len(outcomes) \in Nat /\ Len(outcomes) <= cfg.window_size
  BY CfgType, LenProperties DEF ChainTypeOK
<1>2. Len(outcomes) = cfg.window_size => outcomes # <<>>
  BY <1>1, EmptySeq
<1>3. /\ kept \in Seq(BOOLEAN)
      /\ Len(kept) = IF Len(outcomes) = cfg.window_size THEN Len(outcomes) - 1 ELSE Len(outcomes)
  BY <1>1, <1>2, HeadTailProperties
<1>4. PushOutcome(ok) = Append(kept, ok)
  BY DEF PushOutcome
<1> HIDE DEF kept
<1>5. /\ Append(kept, ok) \in Seq(BOOLEAN) /\ Len(Append(kept, ok)) = Len(kept) + 1
      /\ Append(kept, ok)[Len(kept) + 1] = ok
  BY <1>3, AppendProperties
<1> QED
  BY <1>1, <1>3, <1>4, <1>5

-----------------------------------------------------------------------------
(* The steps *)

LEMMA InitIInv == ChainInit => IInv
<1> SUFFICES ASSUME ChainInit PROVE IInv
  OBVIOUS
<1>1. /\ <<>> \in Seq(Nat) /\ <<>> \in Seq(BOOLEAN) /\ Len(<<>>) = 0
  OBVIOUS
<1>2. ChainTypeOK
  <2>1. /\ cfg \in Configs /\ cfg.window_size \in Nat /\ cfg.open_duration \in Nat
    BY DEF ChainInit, ConfigType
  <2>2. 0 <= cfg.window_size /\ 0 \in 0..cfg.open_duration
    BY <2>1
  <2> QED
    BY <1>1, <2>1, <2>2 DEF ChainInit, ChainTypeOK
<1>3. Holding = {} /\ Probes = {}
  BY DEF ChainInit, Holding, Probes
<1>4. PermitsConserved
  BY <1>3, FS_EmptySet DEF PermitsConserved, ChainInit
<1>5. AgesSorted /\ ProbeLife /\ SlotInv
  BY <1>1 DEF AgesSorted, ProbeLife, SlotInv, ChainInit
<1>6. TripsAtThreshold
  BY <1>1, <1>2, CfgType DEF TripsAtThreshold, RateReached, ChainInit
<1> QED
  BY <1>2, <1>4, <1>5, <1>6 DEF IInv

\* One call takes, keeps or gives back its permit.
LEMMA PermitStep ==
  ASSUME ChainTypeOK, PermitsConserved, NEW c \in Calls, NEW label \in {"idle", "acquire", "running", "returned"},
         at' = [at EXCEPT ![c] = label], label = "running" => permits > 0,
         permits' = permits + (IF at[c] = "running" THEN 1 ELSE 0)
                            - (IF label = "running" THEN 1 ELSE 0)
  PROVE  permits' \in 0..MaxConcurrent /\ PermitsConserved'
<1>1. IsFiniteSet(Holding) /\ Cardinality(Holding) \in Nat
  BY CallSets
<1>2. permits \in Nat /\ permits + Cardinality(Holding) = MaxConcurrent
  BY DEF ChainTypeOK, PermitsConserved
<1>3. Cardinality(Holding') = Cardinality(Holding) - (IF at[c] = "running" THEN 1 ELSE 0)
                                                  + (IF label = "running" THEN 1 ELSE 0)
  <2>1. CASE label = "running"
    <3>1. Holding' = Holding \cup {c}
      BY <2>1 DEF Holding, ChainTypeOK
    <3>2. c \in Holding <=> at[c] = "running"
      BY DEF Holding
    <3>3. Cardinality(Holding \cup {c}) =
            IF c \in Holding THEN Cardinality(Holding) ELSE Cardinality(Holding) + 1
      BY <1>1, FS_AddElement
    <3> QED
      BY <1>1, <2>1, <3>1, <3>2, <3>3
  <2>2. CASE label # "running"
    <3>1. Holding' = Holding \ {c}
      BY <2>2 DEF Holding, ChainTypeOK
    <3>2. c \in Holding <=> at[c] = "running"
      BY DEF Holding
    <3>3. Cardinality(Holding \ {c}) =
            IF c \in Holding THEN Cardinality(Holding) - 1 ELSE Cardinality(Holding)
      BY <1>1, FS_RemoveElement
    <3> QED
      BY <1>1, <2>2, <3>1, <3>2, <3>3
  <2> QED
    BY <2>1, <2>2
<1>4. Holding' \in SUBSET Calls
  BY DEF Holding
<1>5. IsFiniteSet(Holding')
  BY <1>4, FS_Subset
<1>6. Cardinality(Holding') \in Nat
  BY <1>5, FS_CardinalityType
<1>7. permits' + Cardinality(Holding') = MaxConcurrent /\ permits' \in Int
  BY <1>1, <1>2, <1>3
<1>8. permits' \in 0..MaxConcurrent
  BY <1>2, <1>6, <1>7
<1> QED
  BY <1>7, <1>8 DEF PermitsConserved

\* Steps of a call between allow() and record(): the breaker stands still.
LEMMA CallStep ==
  ASSUME IInv, NEW c \in Calls,
         \/ Acquire(c) \/ TryAcquireFull(c) \/ ExpireInside(c)
         \/ \E err \in BOOLEAN : Complete(c, err)
  PROVE  IInv'
<1> USE DEF IInv
<1>1. /\ UNCHANGED <<cfg, timeout_outermost, breakerVars, probe>>
      /\ at[c] # "idle"
      /\ \E label \in {"acquire", "running", "returned"} :
           /\ at' = [at EXCEPT ![c] = label] /\ (label = "running" => permits > 0)
           /\ permits' = permits + (IF at[c] = "running" THEN 1 ELSE 0)
                                  - (IF label = "running" THEN 1 ELSE 0)
  BY DEF ChainTypeOK, Acquire, TryAcquireFull, ExpireInside, Complete
<1>2. permits' \in 0..MaxConcurrent /\ PermitsConserved'
  BY <1>1, PermitStep
<1>3. failed' \in [Calls -> BOOLEAN]
  BY DEF ChainTypeOK, Acquire, TryAcquireFull, ExpireInside, Complete
<1>4. ChainTypeOK'
  BY <1>1, <1>2, <1>3 DEF ChainTypeOK, breakerVars
<1>5. AgesSorted' /\ TripsAtThreshold'
  BY <1>1 DEF AgesSorted, TripsAtThreshold, RateReached, breakerVars
<1>6. ProbeLife'
  BY <1>1 DEF ProbeLife, ChainTypeOK, breakerVars
<1>7. SlotInv'
  BY <1>1 DEF SlotInv, Probes, breakerVars
<1> QED
  BY <1>2, <1>4, <1>5, <1>6, <1>7

\* An outermost Timeout drops the call: its slot is not given back.
LEMMA ExpireOutsideStep == ASSUME IInv, NEW c \in Calls, ExpireOutside(c) PROVE IInv'
<1> USE DEF IInv, ExpireOutside
<1>1. permits' \in 0..MaxConcurrent /\ PermitsConserved'
  <2>1. permits' = permits + (IF at[c] = "running" THEN 1 ELSE 0)
                           - (IF "idle" = "running" THEN 1 ELSE 0)
    BY DEF ChainTypeOK
  <2> QED
    BY <2>1, PermitStep
<1>2. ChainTypeOK'
  BY <1>1 DEF ChainTypeOK, breakerVars
<1>3. AgesSorted' /\ TripsAtThreshold'
  BY DEF AgesSorted, TripsAtThreshold, RateReached, breakerVars
<1>4. ProbeLife'
  BY DEF ProbeLife, ChainTypeOK, breakerVars
<1>5. Probes' = Probes \ {c}
  BY DEF Probes, ChainTypeOK
<1>6. Cardinality(Probes') \in Nat /\ Cardinality(Probes') <= Cardinality(Probes)
  <2>1. Cardinality(Probes \ {c}) =
          IF c \in Probes THEN Cardinality(Probes) - 1 ELSE Cardinality(Probes)
    BY CallSets, FS_RemoveElement
  <2>2. c \in Probes => Cardinality(Probes) # 0
    BY CallSets, FS_EmptySet
  <2> QED
    BY <1>5, <2>1, <2>2, CallSets
<1>7. SlotInv'
  BY <1>6, CallSets DEF SlotInv, breakerVars, ChainTypeOK
<1> QED
  BY <1>1, <1>2, <1>3, <1>4, <1>7

\* allow(): the admitted call is a probe of the phase it was admitted in.
LEMMA AdmitStep == ASSUME IInv, NEW c \in Calls, Admit(c) PROVE IInv'
<1> USE DEF IInv, Admit
<1>1. permits' \in 0..MaxConcurrent /\ PermitsConserved'
  <2>1. permits' = permits + (IF at[c] = "running" THEN 1 ELSE 0)
                           - (IF "acquire" = "running" THEN 1 ELSE 0)
    BY DEF ChainTypeOK
  <2> QED
    BY <2>1, PermitStep
<1>2. ~probe[c]
  BY DEF ProbeLife
<1>3. IsFiniteSet(Probes) /\ Cardinality(Probes) \in Nat /\ c \notin Probes
  BY <1>2, CallSets DEF Probes
<1>4. CASE AllowClosed
  <2>1. state' = "Closed" /\ UNCHANGED breakerVars /\ probe' = [probe EXCEPT ![c] = FALSE]
    BY <1>4 DEF AllowClosed, breakerVars
  <2>2. ChainTypeOK'
    BY <1>1, <2>1 DEF ChainTypeOK, breakerVars
  <2>3. AgesSorted' /\ TripsAtThreshold' /\ SlotInv'
    BY <2>1 DEF AgesSorted, TripsAtThreshold, RateReached, SlotInv, breakerVars
  <2>4. ProbeLife'
    BY <2>1 DEF ProbeLife, breakerVars, ChainTypeOK
  <2> QED
    BY <1>1, <2>2, <2>3, <2>4
<1>5. CASE AllowProbe
  <2>1. /\ state' = "HalfOpen" /\ UNCHANGED <<failures, opened, outcomes>>
        /\ probe' = [probe EXCEPT ![c] = TRUE]
        /\ half_open_calls' = (IF Lapsed THEN 0 ELSE half_open_calls) + 1
        /\ half_open_successes' = IF Lapsed THEN 0 ELSE half_open_successes
        /\ (IF Lapsed THEN 0 ELSE half_open_calls) < cfg.half_open_max_calls
    BY <1>5 DEF AllowProbe
  <2>2. half_open_calls' \in Nat /\ half_open_successes' \in Nat
    BY <2>1 DEF ChainTypeOK
  <2>3. ChainTypeOK'
    BY <1>1, <2>1, <2>2 DEF ChainTypeOK
  <2>4. AgesSorted' /\ TripsAtThreshold'
    BY <1>5, <2>1 DEF AgesSorted, TripsAtThreshold, AllowProbe, Lapsed
  <2>5. Probes' = Probes \cup {c}
    BY <2>1 DEF Probes, ChainTypeOK
  <2>6. Cardinality(Probes') = Cardinality(Probes) + 1
    BY <1>3, <2>5, FS_AddElement
  <2>7. CASE Lapsed
    <3>1. Probes = {}
      BY <2>7 DEF Lapsed, ProbeLife, Probes
    <3>2. Cardinality(Probes) = 0
      BY <3>1, FS_EmptySet
    <3>3. half_open_calls' = 1 /\ half_open_successes' = 0 /\ Cardinality(Probes') = 1
      BY <2>1, <2>6, <2>7, <3>2
    <3>4. SlotInv'
      BY <3>3, CfgType DEF SlotInv
    <3>5. ProbeLife'
      BY <3>1, <2>1 DEF ProbeLife, Probes, ChainTypeOK
    <3> QED
      BY <1>1, <2>3, <2>4, <3>4, <3>5
  <2>8. CASE ~Lapsed
    <3>1. state = "HalfOpen"
      BY <1>5, <2>8 DEF AllowProbe
    <3>2. half_open_calls' = half_open_calls + 1 /\ half_open_successes' = half_open_successes
          /\ half_open_calls < cfg.half_open_max_calls
      BY <2>1, <2>8
    <3>3. SlotInv'
      BY <1>3, <2>6, <3>1, <3>2, CfgType, SMTT(30) DEF SlotInv, ChainTypeOK
    <3>4. ProbeLife'
      BY <2>1, <3>1 DEF ProbeLife, ChainTypeOK
    <3> QED
      BY <1>1, <2>3, <2>4, <3>3, <3>4
  <2> QED
    BY <2>7, <2>8
<1> QED
  BY <1>4, <1>5

\* record() of a failure: a probe phase ends, or the failure is counted.
LEMMA RecordFailure ==
  ASSUME IInv, UNCHANGED <<cfg, timeout_outermost>>, ReopenOnFailure \/ CountFailure
  PROVE  /\ state' \in {"Closed", "Open"}
         /\ failures' \in Seq(Nat)
         /\ outcomes' \in Seq(BOOLEAN) /\ Len(outcomes') <= cfg.window_size
         /\ opened' \in 0..cfg.open_duration
         /\ half_open_calls' \in Nat /\ half_open_successes' \in Nat
         /\ AgesSorted' /\ TripsAtThreshold'
<1> USE DEF IInv
<1>0. /\ state \in {"Closed", "Open", "HalfOpen"} /\ opened \in 0..cfg.open_duration
      /\ 0 \in 0..cfg.open_duration
      /\ failures \in Seq(Nat) /\ half_open_calls \in Nat /\ half_open_successes \in Nat
  BY CfgType DEF ChainTypeOK
<1>1. /\ outcomes' = PushOutcome(FALSE)
      /\ outcomes' \in Seq(BOOLEAN) /\ Len(outcomes') \in Nat
      /\ Len(outcomes') <= cfg.window_size
      /\ Len(outcomes) = cfg.window_size => Len(outcomes') = cfg.window_size
      /\ outcomes'[Len(outcomes')] = FALSE
  <2>1. outcomes' = PushOutcome(FALSE)
    BY DEF ReopenOnFailure, CountFailure
  <2> QED
    BY <2>1, PushOutcomeFact, Zenon
<1>2. /\ PushFailure \in Seq(Nat)
      /\ \A i, j \in 1..Len(PushFailure) : i <= j => PushFailure[j] <= PushFailure[i]
  BY PushFailureFact
<1>3. <<>> \in Seq(Nat) /\ Len(<<>>) = 0
  OBVIOUS
<1>4. CASE failures' = <<>> /\ state' = "Open"
  <2>1. AgesSorted' /\ failures' \in Seq(Nat)
    BY <1>3, <1>4 DEF AgesSorted
  <2>2. opened' \in 0..cfg.open_duration /\ half_open_calls' \in Nat /\ half_open_successes' \in Nat
    <3>1. CASE ReopenOnFailure
      BY <1>0, <3>1 DEF ReopenOnFailure
    <3>2. CASE CountFailure
      <4>1. /\ half_open_calls' = half_open_calls /\ half_open_successes' = half_open_successes
            /\ (opened' = 0 \/ opened' = opened)
        BY <3>2 DEF CountFailure
      <4> QED
        BY <1>0, <4>1
    <3> QED
      BY <3>1, <3>2
  <2>3. cfg.rate # 0 => Len(outcomes') = cfg.window_size
    <3> SUFFICES ASSUME cfg.rate # 0 PROVE Len(outcomes') = cfg.window_size
      OBVIOUS
    <3>1. CASE state # "Closed"
      BY <1>1, <3>1 DEF TripsAtThreshold
    <3>2. CASE state = "Closed"
      <4>1. Tripped(PushFailure, PushOutcome(FALSE))
        BY <1>4, <3>2 DEF ReopenOnFailure, CountFailure
      <4>2. Len(outcomes') >= cfg.window_size
        BY <1>1, <4>1 DEF Tripped
      <4>3. Len(outcomes') \in Nat /\ Len(outcomes') <= cfg.window_size
        BY <1>1, Zenon
      <4>4. cfg.window_size \in Nat
        BY CfgType, Zenon
      <4> QED
        BY <4>2, <4>3, <4>4
    <3> QED
      BY <3>1, <3>2
  <2>4. TripsAtThreshold'
    BY <1>4, <2>3 DEF TripsAtThreshold
  <2> QED
    BY <1>1, <1>4, <2>1, <2>2, <2>4
<1>5. CASE ~(failures' = <<>> /\ state' = "Open")
  <2>1. /\ ~Tripped(PushFailure, PushOutcome(FALSE))
        /\ failures' = PushFailure /\ UNCHANGED <<state, opened, half_open_calls, half_open_successes>>
        /\ state # "HalfOpen"
    BY <1>5 DEF ReopenOnFailure, CountFailure
  <2>2. AgesSorted'
    BY <1>2, <2>1 DEF AgesSorted
  <2>3. Len(PushFailure) \in Nat
    BY <1>2, LenProperties
  <2>4. cfg.rate = 0 => ~(Len(PushFailure) >= cfg.failure_threshold)
    BY <2>1 DEF Tripped
  <2>5. state' = "Closed" /\ cfg.rate = 0 => Len(failures') < cfg.failure_threshold
    BY <2>1, <2>3, <2>4, CfgType
  <2>6. cfg.rate # 0 /\ Len(outcomes') = cfg.window_size =>
          ~(100 * FailedCount(outcomes') >= cfg.rate * cfg.window_size)
    <3>1. cfg.rate # 0 /\ Len(outcomes') >= cfg.window_size =>
            ~(100 * FailedCount(outcomes') >= cfg.rate * Len(outcomes'))
      BY <1>1, <2>1 DEF Tripped
    <3>2. Len(outcomes') = cfg.window_size => Len(outcomes') >= cfg.window_size
      BY CfgType
    <3> QED
      BY <3>1, <3>2
  <2>7. cfg.rate # 0 => ~RateReached'
    BY <2>6 DEF RateReached
  <2>8. state' # "Closed" /\ cfg.rate # 0 => Len(outcomes') = cfg.window_size
    BY <1>1, <2>1 DEF TripsAtThreshold
  <2>9. TripsAtThreshold'
    BY <2>5, <2>7, <2>8 DEF TripsAtThreshold
  <2> QED
    BY <1>0, <1>1, <1>2, <2>1, <2>2, <2>9
<1> QED
  BY <1>4, <1>5

\* record() of a success that leaves the phase undecided, or outside of one.
LEMMA RecordSuccess ==
  ASSUME IInv, UNCHANGED <<cfg, timeout_outermost>>, ProbeSuccess \/ CountSuccess
  PROVE  /\ state' \in {"Closed", "Open", "HalfOpen"}
         /\ failures' \in Seq(Nat)
         /\ outcomes' \in Seq(BOOLEAN) /\ Len(outcomes') <= cfg.window_size
         /\ opened' \in 0..cfg.open_duration
         /\ half_open_calls' \in Nat /\ half_open_successes' \in Nat
         /\ AgesSorted' /\ TripsAtThreshold'
         /\ state' = "HalfOpen" =>
              /\ state = "HalfOpen" /\ half_open_calls' = half_open_calls
              /\ half_open_successes' = half_open_successes + 1
              /\ half_open_successes' < cfg.half_open_max_calls
<1> USE DEF IInv
<1>0. /\ state \in {"Closed", "Open", "HalfOpen"} /\ opened \in 0..cfg.open_duration
      /\ failures \in Seq(Nat) /\ half_open_calls \in Nat /\ half_open_successes \in Nat
  BY DEF ChainTypeOK
<1>1. /\ PushOutcome(TRUE) \in Seq(BOOLEAN) /\ Len(PushOutcome(TRUE)) \in Nat
      /\ Len(PushOutcome(TRUE)) <= cfg.window_size
      /\ Len(outcomes) = cfg.window_size => Len(PushOutcome(TRUE)) = cfg.window_size
      /\ PushOutcome(TRUE)[Len(PushOutcome(TRUE))] = TRUE
  BY PushOutcomeFact, Zenon
<1>2. <<>> \in Seq(Nat) /\ <<>> \in Seq(BOOLEAN) /\ Len(<<>>) = 0
  OBVIOUS
<1>3. failures' = failures \/ failures' = <<>>
  BY DEF ProbeSuccess, CountSuccess
<1>4. AgesSorted' /\ failures' \in Seq(Nat)
  <2>1. CASE failures' = failures
    BY <1>0, <2>1 DEF AgesSorted
  <2>2. CASE failures' = <<>>
    BY <1>2, <2>2 DEF AgesSorted
  <2> QED
    BY <1>3, <2>1, <2>2
<1>5. \/ outcomes' = PushOutcome(TRUE) /\ state' = state
      \/ outcomes' = <<>> /\ state' = "Closed"
  BY DEF ProbeSuccess, CountSuccess
<1>6. /\ state' \in {"Closed", "Open", "HalfOpen"}
      /\ outcomes' \in Seq(BOOLEAN) /\ Len(outcomes') <= cfg.window_size
      /\ opened' \in 0..cfg.open_duration
      /\ half_open_calls' \in Nat /\ half_open_successes' \in Nat
  <2>1. /\ opened' = opened
        /\ half_open_calls' \in {half_open_calls, 0}
        /\ half_open_successes' \in {half_open_successes, half_open_successes + 1, 0}
    BY DEF ProbeSuccess, CountSuccess
  <2>2. outcomes' \in Seq(BOOLEAN) /\ Len(outcomes') <= cfg.window_size
    <3>1. CASE outcomes' = PushOutcome(TRUE)
      BY <1>1, <3>1, Zenon
    <3>2. CASE outcomes' = <<>>
      <4>1. cfg.window_size \in Nat /\ 0 <= cfg.window_size
        BY CfgType
      <4> QED
        BY <1>2, <3>2, <4>1, Zenon
    <3> QED
      BY <1>5, <3>1, <3>2
  <2>3. state' \in {"Closed", "Open", "HalfOpen"}
    BY <1>0, <1>5
  <2>4. /\ opened' \in 0..cfg.open_duration
        /\ half_open_calls' \in Nat /\ half_open_successes' \in Nat
    BY <1>0, <2>1
  <2> QED
    BY <2>2, <2>3, <2>4
<1>7. TripsAtThreshold'
  <2>1. cfg.rate = 0 /\ state' = "Closed" => Len(failures') < cfg.failure_threshold
    <3>1. CASE failures' = <<>>
      BY <1>2, <3>1, CfgType
    <3>2. CASE failures' # <<>>
      <4>1. failures' = failures /\ state' = state
        BY <1>3, <3>2 DEF ProbeSuccess, CountSuccess
      <4> QED
        BY <4>1 DEF TripsAtThreshold
    <3> QED
      BY <3>1, <3>2
  <2>2. CASE outcomes' = PushOutcome(TRUE) /\ state' = state
    <3>1. outcomes'[Len(outcomes')]
      BY <1>1, <2>2
    <3>2. state' # "Closed" /\ cfg.rate # 0 => Len(outcomes') = cfg.window_size
      BY <1>1, <2>2 DEF TripsAtThreshold
    <3> QED
      BY <2>1, <3>1, <3>2 DEF TripsAtThreshold
  <2>3. CASE outcomes' = <<>> /\ state' = "Closed"
    <3>1. Len(outcomes') # cfg.window_size
      BY <1>2, <2>3, CfgType
    <3> QED
      BY <2>1, <2>3, <3>1 DEF TripsAtThreshold, RateReached
  <2> QED
    BY <1>5, <2>2, <2>3
<1>8. state' = "HalfOpen" =>
        /\ state = "HalfOpen" /\ half_open_calls' = half_open_calls
        /\ half_open_successes' = half_open_successes + 1
        /\ half_open_successes' < cfg.half_open_max_calls
  <2> SUFFICES ASSUME state' = "HalfOpen"
               PROVE  /\ state = "HalfOpen" /\ half_open_calls' = half_open_calls
                      /\ half_open_successes' = half_open_successes + 1
                      /\ half_open_successes' < cfg.half_open_max_calls
    OBVIOUS
  <2>1. ProbeSuccess
    BY DEF CountSuccess
  <2>2. ~(half_open_successes + 1 >= cfg.half_open_max_calls)
    BY <2>1 DEF ProbeSuccess
  <2>3. /\ state = "HalfOpen" /\ half_open_calls' = half_open_calls
        /\ half_open_successes' = half_open_successes + 1
    BY <2>1, <2>2 DEF ProbeSuccess
  <2> QED
    BY <1>0, <2>2, <2>3, CfgType
<1> QED
  BY <1>4, <1>6, <1>7, <1>8

LEMMA RecordStep == ASSUME IInv, NEW c \in Calls, Record(c) PROVE IInv'
<1> USE DEF IInv
<1>1. /\ at[c] = "returned" /\ at' = [at EXCEPT ![c] = "idle"]
      /\ failed' = [failed EXCEPT ![c] = FALSE]
      /\ probe' = EndPhase([probe EXCEPT ![c] = FALSE])
      /\ UNCHANGED <<cfg, timeout_outermost, permits>>
      /\ (ReopenOnFailure \/ CountFailure) \/ (ProbeSuccess \/ CountSuccess)
  BY DEF Record
<1>2. permits' \in 0..MaxConcurrent /\ PermitsConserved'
  <2>1. permits' = permits + (IF at[c] = "running" THEN 1 ELSE 0)
                           - (IF "idle" = "running" THEN 1 ELSE 0)
    BY <1>1 DEF ChainTypeOK
  <2> QED
    BY <1>1, <2>1, PermitStep
<1>3. /\ state' \in {"Closed", "Open", "HalfOpen"}
      /\ failures' \in Seq(Nat)
      /\ outcomes' \in Seq(BOOLEAN) /\ Len(outcomes') <= cfg.window_size
      /\ opened' \in 0..cfg.open_duration
      /\ half_open_calls' \in Nat /\ half_open_successes' \in Nat
      /\ AgesSorted' /\ TripsAtThreshold'
      /\ state' = "HalfOpen" =>
           /\ state = "HalfOpen" /\ half_open_calls' = half_open_calls
           /\ half_open_successes' = half_open_successes + 1
           /\ half_open_successes' < cfg.half_open_max_calls
  <2>1. CASE ReopenOnFailure \/ CountFailure
    BY <1>1, <2>1, RecordFailure
  <2>2. CASE ProbeSuccess \/ CountSuccess
    BY <1>1, <2>2, RecordSuccess
  <2> QED
    BY <1>1, <2>1, <2>2
<1>4. probe' = IF state' = "HalfOpen" THEN [probe EXCEPT ![c] = FALSE]
                                      ELSE [d \in Calls |-> FALSE]
  BY <1>1 DEF EndPhase
<1>5. ChainTypeOK'
  BY <1>1, <1>2, <1>3, <1>4 DEF ChainTypeOK
<1>6. ProbeLife'
  BY <1>1, <1>3, <1>4 DEF ProbeLife, ChainTypeOK
<1>7. SlotInv'
  <2> SUFFICES ASSUME state' = "HalfOpen" PROVE SlotInv'
    BY DEF SlotInv
  <2>1. Probes' = Probes \ {c}
    BY <1>4 DEF Probes, ChainTypeOK
  <2>2. Cardinality(Probes \ {c}) =
          IF c \in Probes THEN Cardinality(Probes) - 1 ELSE Cardinality(Probes)
    BY CallSets, FS_RemoveElement
  <2>3. c \in Probes => Cardinality(Probes) # 0
    BY CallSets, FS_EmptySet
  <2>4. /\ Cardinality(Probes') <= Cardinality(Probes)
        /\ Cardinality(Probes) <= Cardinality(Probes') + 1
        /\ Cardinality(Probes') \in Nat /\ Cardinality(Probes) \in Nat
    BY <2>1, <2>2, <2>3, CallSets
  <2> QED
    BY <1>1, <1>3, <2>4, CfgType, SMTT(30) DEF SlotInv, ChainTypeOK
<1> QED
  BY <1>2, <1>3, <1>5, <1>6, <1>7

\* Time passes.
LEMMA TickStep == ASSUME IInv, Tick PROVE IInv'
<1> USE DEF IInv, Tick
<1>1. failures \in Seq(Nat) /\ cfg.window \in Nat /\ cfg.open_duration \in Nat
  BY CfgType DEF ChainTypeOK
<1>2. DOMAIN failures = 1..Len(failures) /\ Len(failures) \in Nat
      /\ \A i \in 1..Len(failures) : failures[i] \in Nat
  BY <1>1, LenProperties
<1>3. failures' \in [1..Len(failures) -> Nat]
  BY <1>1, <1>2
<1>4. failures' \in Seq(Nat) /\ Len(failures') = Len(failures)
  BY <1>2, <1>3, SeqDef, LenProperties
<1>5. ChainTypeOK'
  BY <1>1, <1>4 DEF ChainTypeOK
<1>6. AgesSorted'
  BY <1>1, <1>2, <1>4 DEF AgesSorted
<1>7. TripsAtThreshold'
  BY <1>4 DEF TripsAtThreshold, RateReached
<1>8. PermitsConserved' /\ ProbeLife' /\ SlotInv'
  BY DEF PermitsConserved, Holding, ProbeLife, SlotInv, Probes
<1> QED
  BY <1>5, <1>6, <1>7, <1>8

LEMMA NextIInv == IInv /\ [ChainNext]_chainVars => IInv'
<1> SUFFICES ASSUME IInv, [ChainNext]_chainVars PROVE IInv'
  OBVIOUS
<1>1. CASE Tick
  BY <1>1, TickStep
<1>2. ASSUME NEW c \in Calls, Admit(c) PROVE IInv'
  BY <1>2, AdmitStep
<1>3. ASSUME NEW c \in Calls,
             \/ Acquire(c) \/ TryAcquireFull(c) \/ ExpireInside(c)
             \/ \E err \in BOOLEAN : Complete(c, err)
      PROVE  IInv'
  BY <1>3, CallStep
<1>4. ASSUME NEW c \in Calls, ExpireOutside(c) PROVE IInv'
  BY <1>4, ExpireOutsideStep
<1>5. ASSUME NEW c \in Calls, Record(c) PROVE IInv'
  BY <1>5, RecordStep
<1>6. CASE UNCHANGED chainVars
  BY <1>6 DEF chainVars, breakerVars, IInv, ChainTypeOK, AgesSorted, TripsAtThreshold, RateReached,
              PermitsConserved, Holding, ProbeLife, SlotInv, Probes
<1> QED
  BY <1>1, <1>2, <1>3, <1>4, <1>5, <1>6 DEF ChainNext

-----------------------------------------------------------------------------
\* The inductive invariant: failures are oldest first, a probe lives in the
\* current half-open phase, permits and slots are accounted for.
THEOREM ChainInvariant == ChainSpec => []IInv
<1> QED
  BY InitIInv, NextIInv, PTL DEF ChainSpec

\* Type correctness of the guarded calls, the breaker and the bulkhead; the ring
\* of record() never holds more than window_size outcomes.
THEOREM ChainTypeCorrect == ChainSpec => []ChainTypeOK
<1>1. IInv => ChainTypeOK
  BY DEF IInv
<1> QED
  BY <1>1, ChainInvariant, PTL

\* The breaker trips at its threshold: no order of late results, successes and
\* the passing of time lets record() leave the circuit closed behind a failure
\* that met the condition, or opens it by rate before the ring has been full.
THEOREM BreakerTripsAtThreshold == ChainSpec => []TripsAtThreshold
<1>1. IInv => TripsAtThreshold
  BY DEF IInv
<1> QED
  BY <1>1, ChainInvariant, PTL

\* The permits of the bulkhead are conserved and the probe slots stay within
\* their budget in both orders of the chain; with the Timeout inside the breaker
\* every slot is also recorded or still with a call in flight.
THEOREM ChainSlotsAreHeld == ChainSpec => []SlotsAreHeld
<1>1. IInv => SlotsAreHeld
  BY DEF IInv, SlotInv, SlotsAreHeld, ProbeBudget, EverySlotRecorded
<1> QED
  BY <1>1, ChainInvariant, PTL
=============================================================================
