--------------------------- MODULE RecoveryProofs ---------------------------
(***************************************************************************)
(* Safety of overlapping recovery passes, for any number of executions and *)
(* passes and any threshold and retention.                                 *)
(*                                                                         *)
(* The argument: a row in a pass's cutoff set is older than the threshold  *)
(* (OldInv), and a row is never older than the claim of a handler working  *)
(* on it (HeldInv).  So a claim that succeeds while a handler is at work   *)
(* finds that handler beyond the threshold.                                *)
(***************************************************************************)
EXTENDS Recovery, TLAPS

\* A row that does not exist has no age and is in no cutoff set.
AbsentInv ==
  \A e \in Execs : rowStatus[e] = "ABSENT" => age[e] = 0 /\ \A p \in Passes : e \notin old[p]

\* A pass's cutoff set holds rows older than the threshold only.
OldInv == \A p \in Passes : \A e \in old[p] : age[e] > Threshold

\* A handler's row was written no earlier than the handler's claim.
HeldInv ==
  \A p \in Passes : \A e \in current[p] : phase[p] = "handler" /\ age[e] <= held[p]

\* Unless an execution was taken up while worked on, one party works on it at
\* most, and its row is then not terminal.
SoloInv ==
  \A e \in Execs \ overrun :
    /\ owner[e] \/ InHandler(e) => Stale(e)
    /\ ~(owner[e] /\ InHandler(e))
    /\ \A p, q \in Passes : e \in current[p] \cap current[q] => p = q

IInv ==
  /\ RecoveryTypeOK /\ AbsentInv /\ OldInv /\ HeldInv
  /\ DoubleOnlyAfterThreshold /\ SoloInv

USE RecoveryAssumption

\* The saturation bound of ages lies beyond the threshold.
LEMMA AgeLimitFact == AgeLimit \in Nat /\ AgeLimit > Threshold
  BY DEF AgeLimit

\* Ages grow in step: Older keeps the order of two ages, and never shrinks one.
LEMMA OlderFact ==
  ASSUME NEW m \in 0..AgeLimit, NEW n \in 0..AgeLimit
  PROVE  /\ Older(m) \in 0..AgeLimit
         /\ Older(m) >= m
         /\ m <= n => Older(m) <= Older(n)
  BY AgeLimitFact DEF Older

\* What a write does to the rows: it refreshes one, and takes it out of every
\* cutoff set; every other row stays.
LEMMA WriteRow ==
  ASSUME RecoveryTypeOK, AbsentInv, OldInv,
         NEW e \in Execs, NEW s \in Status \ {"ABSENT"}, Write(e, s)
  PROVE  /\ rowStatus' \in [Execs -> Status] /\ age' \in [Execs -> 0..AgeLimit]
         /\ old' \in [Passes -> SUBSET Execs]
         /\ AbsentInv' /\ OldInv'
         /\ rowStatus'[e] = s
         /\ \A f \in Execs : age'[f] <= age[f]
         /\ \A f \in Execs : f # e => rowStatus'[f] = rowStatus[f]
<1> USE AgeLimitFact DEF RecoveryTypeOK, Write
<1>1. rowStatus' \in [Execs -> Status] /\ age' \in [Execs -> 0..AgeLimit]
  OBVIOUS
<1>2. old' \in [Passes -> SUBSET Execs]
  OBVIOUS
<1>3. AbsentInv'
  BY DEF AbsentInv
<1>4. OldInv'
  BY DEF OldInv
<1>5. /\ rowStatus'[e] = s
      /\ \A f \in Execs : age'[f] <= age[f]
      /\ \A f \in Execs : f # e => rowStatus'[f] = rowStatus[f]
  OBVIOUS
<1> QED
  BY <1>1, <1>2, <1>3, <1>4, <1>5

\* Writes of a process that runs an execution leave the passes alone.
LEMMA OwnerWrite ==
  ASSUME IInv, NEW e \in Execs, NEW s \in {"RUNNING", "COMPLETED", "SUSPENDED"},
         Write(e, s), UNCHANGED <<passVars, held, faults, overrun>>,
         owner' \in [Execs -> BOOLEAN],
         \A f \in Execs : f # e => owner'[f] = owner[f],
         owner'[e] => s = "RUNNING",
         owner[e] \/ (rowStatus[e] = "ABSENT" /\ ~owner[e])
  PROVE  IInv'
<1>1. s \in Status \ {"ABSENT"} /\ RecoveryTypeOK /\ AbsentInv /\ OldInv
  BY DEF Status, Terminal, IInv
<1>2. /\ rowStatus' \in [Execs -> Status] /\ age' \in [Execs -> 0..AgeLimit]
      /\ old' \in [Passes -> SUBSET Execs]
      /\ AbsentInv' /\ OldInv'
      /\ rowStatus'[e] = s
      /\ \A f \in Execs : age'[f] <= age[f]
      /\ \A f \in Execs : f # e => rowStatus'[f] = rowStatus[f]
  BY <1>1, WriteRow
<1>3. RecoveryTypeOK'
  BY <1>1, <1>2 DEF RecoveryTypeOK, passVars
<1>4. HeldInv'
  <2> SUFFICES ASSUME NEW p \in Passes, NEW f \in current[p]
               PROVE  phase[p] = "handler" /\ age'[f] <= held[p]
    BY DEF HeldInv, passVars
  <2>1. phase[p] = "handler" /\ age[f] <= held[p] /\ f \in Execs
    BY <1>1 DEF IInv, HeldInv, RecoveryTypeOK
  <2> QED
    BY <2>1, <1>1, <1>2, AgeLimitFact DEF RecoveryTypeOK
<1>5. DoubleOnlyAfterThreshold'
  BY DEF IInv, DoubleOnlyAfterThreshold, passVars
<1>6. SoloInv'
  <2> SUFFICES ASSUME NEW f \in Execs \ overrun
               PROVE  /\ owner'[f] \/ InHandler(f) => Stale(f)'
                      /\ ~(owner'[f] /\ InHandler(f))
                      /\ \A p, q \in Passes : f \in current[p] \cap current[q] => p = q
    BY DEF SoloInv, InHandler, passVars
  <2>1. /\ owner[f] \/ InHandler(f) => Stale(f)
        /\ ~(owner[f] /\ InHandler(f))
        /\ \A p, q \in Passes : f \in current[p] \cap current[q] => p = q
    BY DEF IInv, SoloInv
  <2>2. CASE f # e
    BY <2>1, <2>2, <1>2 DEF Stale
  <2>3. CASE f = e
    <3>1. ~InHandler(e)
      BY <2>1, <2>3 DEF Stale
    <3> QED
      BY <3>1, <2>1, <2>3, <1>2 DEF Stale, Terminal
  <2> QED
    BY <2>2, <2>3
<1> QED
  BY <1>2, <1>3, <1>4, <1>5, <1>6 DEF IInv

\* Steps of a process that runs an execution preserve the invariant.
LEMMA OwnerStep ==
  ASSUME IInv, NEW e \in Execs,
         Begin(e) \/ Progress(e) \/ FinishRun(e) \/ Suspend(e)
  PROVE  IInv'
<1>0. owner \in [Execs -> BOOLEAN]
  BY DEF IInv, RecoveryTypeOK
<1>1. CASE Begin(e)
  BY <1>0, <1>1, OwnerWrite DEF Begin
<1>2. CASE Progress(e)
  BY <1>0, <1>2, OwnerWrite DEF Progress
<1>3. CASE FinishRun(e)
  BY <1>0, <1>3, OwnerWrite DEF FinishRun
<1>4. CASE Suspend(e)
  BY <1>0, <1>4, OwnerWrite DEF Suspend
<1> QED
  BY <1>1, <1>2, <1>3, <1>4

\* Steps that write no row and start no handler preserve the invariant: a run
\* resumed or lost, a pass begun, ended, aborted or moving on.
LEMMA QuietStep ==
  ASSUME IInv,
         \/ \E e \in Execs : Resume(e) \/ OwnerCrash(e)
         \/ \E p \in Passes : StartPass(p) \/ EndPass(p) \/ PassAborts(p)
         \/ \E p \in Passes, e \in Execs : PassOver(p, e)
  PROVE  IInv'
<1> USE DEF rowVars, passVars
<1>0. RecoveryTypeOK /\ AbsentInv /\ OldInv /\ HeldInv /\ DoubleOnlyAfterThreshold /\ SoloInv
  BY DEF IInv
<1>1. ASSUME NEW e \in Execs, Resume(e) PROVE IInv'
  <2>1. RecoveryTypeOK' /\ AbsentInv' /\ OldInv' /\ HeldInv' /\ DoubleOnlyAfterThreshold'
    BY <1>0, <1>1 DEF Resume, RecoveryTypeOK, AbsentInv, OldInv, HeldInv, DoubleOnlyAfterThreshold
  <2>2. SoloInv'
    <3> SUFFICES ASSUME NEW f \in Execs \ overrun'
                 PROVE  /\ owner'[f] \/ InHandler(f) => Stale(f)
                        /\ ~(owner'[f] /\ InHandler(f))
                        /\ \A p, q \in Passes : f \in current[p] \cap current[q] => p = q
      BY <1>1 DEF SoloInv, InHandler, Stale, Resume
    <3>1. CASE f = e
      BY <3>1, <1>0, <1>1 DEF Resume, SoloInv, Stale, RecoveryTypeOK
    <3>2. CASE f # e
      BY <3>2, <1>0, <1>1 DEF Resume, SoloInv, RecoveryTypeOK
    <3> QED
      BY <3>1, <3>2
  <2> QED
    BY <2>1, <2>2 DEF IInv
<1>2. ASSUME NEW e \in Execs, OwnerCrash(e) PROVE IInv'
  <2>1. RecoveryTypeOK' /\ AbsentInv' /\ OldInv' /\ HeldInv' /\ DoubleOnlyAfterThreshold'
    BY <1>0, <1>2 DEF OwnerCrash, RecoveryTypeOK, AbsentInv, OldInv, HeldInv, DoubleOnlyAfterThreshold
  <2>2. SoloInv'
    BY <1>0, <1>2 DEF OwnerCrash, SoloInv, InHandler, Stale, RecoveryTypeOK
  <2> QED
    BY <2>1, <2>2 DEF IInv
<1>3. ASSUME NEW p \in Passes, StartPass(p) PROVE IInv'
  <2>1. RecoveryTypeOK' /\ AbsentInv' /\ OldInv'
    BY <1>0, <1>3 DEF StartPass, RecoveryTypeOK, AbsentInv, OldInv
  <2>2. HeldInv' /\ DoubleOnlyAfterThreshold' /\ SoloInv'
    BY <1>0, <1>3 DEF StartPass, HeldInv, DoubleOnlyAfterThreshold, SoloInv, InHandler, Stale, RecoveryTypeOK
  <2> QED
    BY <2>1, <2>2 DEF IInv
<1>4. ASSUME NEW p \in Passes, EndPass(p) PROVE IInv'
  <2>1. RecoveryTypeOK' /\ AbsentInv' /\ OldInv'
    BY <1>0, <1>4 DEF EndPass, RecoveryTypeOK, AbsentInv, OldInv
  <2>2. HeldInv' /\ DoubleOnlyAfterThreshold' /\ SoloInv'
    BY <1>0, <1>4 DEF EndPass, HeldInv, DoubleOnlyAfterThreshold, SoloInv, InHandler, Stale, RecoveryTypeOK
  <2> QED
    BY <2>1, <2>2 DEF IInv
<1>5. ASSUME NEW p \in Passes, PassAborts(p) PROVE IInv'
  <2>1. RecoveryTypeOK' /\ AbsentInv' /\ OldInv'
    BY <1>0, <1>5, AgeLimitFact DEF PassAborts, RecoveryTypeOK, AbsentInv, OldInv
  <2>2. HeldInv' /\ DoubleOnlyAfterThreshold'
    BY <1>0, <1>5 DEF PassAborts, HeldInv, DoubleOnlyAfterThreshold, RecoveryTypeOK
  <2>3. SoloInv'
    BY <1>0, <1>5 DEF PassAborts, SoloInv, InHandler, Stale, RecoveryTypeOK
  <2> QED
    BY <2>1, <2>2, <2>3 DEF IInv
<1>6. ASSUME NEW p \in Passes, NEW e \in Execs, PassOver(p, e) PROVE IInv'
  <2>1. RecoveryTypeOK' /\ AbsentInv' /\ OldInv'
    BY <1>0, <1>6 DEF PassOver, RecoveryTypeOK, AbsentInv, OldInv
  <2>2. HeldInv' /\ DoubleOnlyAfterThreshold' /\ SoloInv'
    BY <1>0, <1>6 DEF PassOver, HeldInv, DoubleOnlyAfterThreshold, SoloInv, InHandler, Stale, RecoveryTypeOK
  <2> QED
    BY <2>1, <2>2 DEF IInv
<1> QED
  BY <1>1, <1>2, <1>3, <1>4, <1>5, <1>6

\* Time passing preserves the invariant: the age of a row and the time its
\* handler has held it grow together.
LEMMA TickStep ==
  ASSUME IInv, Tick
  PROVE  IInv'
<1> USE DEF passVars, Tick
<1>0. RecoveryTypeOK /\ AbsentInv /\ OldInv /\ HeldInv /\ DoubleOnlyAfterThreshold /\ SoloInv
  BY DEF IInv
<1>1. RecoveryTypeOK'
  BY <1>0, AgeLimitFact, OlderFact DEF RecoveryTypeOK
<1>2. AbsentInv'
  BY <1>0 DEF AbsentInv, RecoveryTypeOK
<1>3. OldInv'
  <2> SUFFICES ASSUME NEW p \in Passes, NEW e \in old[p] PROVE age'[e] > Threshold
    BY DEF OldInv
  <2>1. e \in Execs /\ age[e] > Threshold /\ age[e] \in 0..AgeLimit /\ rowStatus[e] # "ABSENT"
    BY <1>0 DEF OldInv, AbsentInv, RecoveryTypeOK
  <2>2. Older(age[e]) >= age[e] /\ Older(age[e]) \in 0..AgeLimit
    BY <2>1, OlderFact
  <2> QED
    BY <2>1, <2>2, AgeLimitFact
<1>4. HeldInv'
  <2> SUFFICES ASSUME NEW p \in Passes, NEW e \in current[p]
               PROVE  phase[p] = "handler" /\ age'[e] <= held'[p]
    BY DEF HeldInv
  <2>1. /\ phase[p] = "handler" /\ age[e] <= held[p] /\ e \in Execs
        /\ age[e] \in 0..AgeLimit /\ held[p] \in 0..AgeLimit
    BY <1>0 DEF HeldInv, RecoveryTypeOK
  <2>2. Older(age[e]) <= Older(held[p]) /\ Older(held[p]) \in 0..AgeLimit
    BY <2>1, OlderFact
  <2> QED
    BY <2>1, <2>2, AgeLimitFact
<1>5. DoubleOnlyAfterThreshold'
  <2> SUFFICES ASSUME NEW p \in Passes, NEW q \in Passes, p # q,
                      current[p] \cap current[q] # {}
               PROVE  held'[p] > Threshold \/ held'[q] > Threshold
    BY DEF DoubleOnlyAfterThreshold
  <2>1. /\ held[p] > Threshold \/ held[q] > Threshold
        /\ phase[p] = "handler" /\ phase[q] = "handler"
        /\ held[p] \in 0..AgeLimit /\ held[q] \in 0..AgeLimit
    BY <1>0 DEF DoubleOnlyAfterThreshold, HeldInv, RecoveryTypeOK
  <2>2. /\ Older(held[p]) >= held[p] /\ Older(held[q]) >= held[q]
        /\ Older(held[p]) \in 0..AgeLimit /\ Older(held[q]) \in 0..AgeLimit
    BY <2>1, OlderFact
  <2> QED
    BY <2>1, <2>2, AgeLimitFact
<1>6. SoloInv'
  BY <1>0 DEF SoloInv, InHandler, Stale
<1> QED
  BY <1>1, <1>2, <1>3, <1>4, <1>5, <1>6 DEF IInv

\* Deleting old terminal rows preserves the invariant: nobody works on one,
\* unless its execution was taken up while worked on.
LEMMA CleanupStep ==
  ASSUME IInv, Cleanup
  PROVE  IInv'
<1> USE DEF passVars, Cleanup
<1>0. RecoveryTypeOK /\ AbsentInv /\ OldInv /\ HeldInv /\ DoubleOnlyAfterThreshold /\ SoloInv
  BY DEF IInv
<1>1. RecoveryTypeOK'
  BY <1>0, AgeLimitFact DEF RecoveryTypeOK, Status
<1>2. AbsentInv' /\ OldInv'
  BY <1>0 DEF AbsentInv, OldInv, RecoveryTypeOK
<1>3. HeldInv'
  BY <1>0, AgeLimitFact DEF HeldInv, RecoveryTypeOK
<1>4. DoubleOnlyAfterThreshold'
  BY <1>0 DEF DoubleOnlyAfterThreshold
<1>5. SoloInv'
  BY <1>0 DEF SoloInv, InHandler, Stale, Doomed, RecoveryTypeOK
<1> QED
  BY <1>1, <1>2, <1>3, <1>4, <1>5 DEF IInv

\* A claim finds every handler already at work on the row beyond the
\* threshold: the row is in the claiming pass's cutoff set.
LEMMA ClaimFindsLate ==
  ASSUME IInv, NEW p \in Passes, NEW q \in Passes, NEW e \in Execs,
         e \in old[p], e \in current[q]
  PROVE  held[q] > Threshold
  BY AgeLimitFact DEF IInv, RecoveryTypeOK, OldInv, HeldInv

\* A claim preserves the invariant, whether or not a handler follows it.
LEMMA ClaimStep ==
  ASSUME IInv, NEW p \in Passes, NEW e \in Execs,
         ClaimFailed(p, e) \/ \E a \in {"Resume", "Compensate"} : Claim(p, e, a)
  PROVE  IInv'
<1>0. RecoveryTypeOK /\ AbsentInv /\ OldInv /\ HeldInv /\ DoubleOnlyAfterThreshold /\ SoloInv
  BY DEF IInv
<1>1. CASE ClaimFailed(p, e)
  <2>1. "FAILED" \in Status \ {"ABSENT"} /\ Write(e, "FAILED")
    BY <1>1 DEF ClaimFailed, Status, Terminal
  <2>2. /\ rowStatus' \in [Execs -> Status] /\ age' \in [Execs -> 0..AgeLimit]
        /\ old' \in [Passes -> SUBSET Execs]
        /\ AbsentInv' /\ OldInv'
        /\ \A f \in Execs : age'[f] <= age[f]
        /\ \A f \in Execs : f # e => rowStatus'[f] = rowStatus[f]
    BY <1>0, <2>1, WriteRow
  <2>3. RecoveryTypeOK'
    BY <1>0, <1>1, <2>2 DEF ClaimFailed, RecoveryTypeOK
  <2>4. HeldInv'
    BY <1>0, <1>1, <2>2, AgeLimitFact DEF ClaimFailed, HeldInv, RecoveryTypeOK
  <2>5. DoubleOnlyAfterThreshold'
    BY <1>0, <1>1 DEF ClaimFailed, DoubleOnlyAfterThreshold
  <2>6. SoloInv'
    BY <1>0, <1>1, <2>2 DEF ClaimFailed, SoloInv, InHandler, Stale
  <2> QED
    BY <2>2, <2>3, <2>4, <2>5, <2>6 DEF IInv
<1>2. ASSUME NEW a \in {"Resume", "Compensate"}, Claim(p, e, a) PROVE IInv'
  <2> DEFINE s == IF a = "Resume" THEN "RUNNING" ELSE "COMPENSATING"
  <2>1. s \in Status \ {"ABSENT"} /\ s \notin Terminal /\ Write(e, s)
    BY <1>2 DEF Claim, Status, Terminal
  <2> HIDE DEF s
  <2>2. /\ rowStatus' \in [Execs -> Status] /\ age' \in [Execs -> 0..AgeLimit]
        /\ old' \in [Passes -> SUBSET Execs]
        /\ AbsentInv' /\ OldInv'
        /\ rowStatus'[e] = s
        /\ \A f \in Execs : age'[f] <= age[f]
        /\ \A f \in Execs : f # e => rowStatus'[f] = rowStatus[f]
    BY <1>0, <2>1, WriteRow
  <2>3. age'[e] = 0
    BY <1>0, <2>1 DEF Write, RecoveryTypeOK
  <2>4. RecoveryTypeOK'
    <3>1. {e} \in SUBSET Execs /\ stale[p] \ {e} \in SUBSET Execs
      BY <1>0 DEF RecoveryTypeOK
    <3>2. 0 \in 0..AgeLimit
      BY AgeLimitFact
    <3>3. phase' \in [Passes -> {"idle", "scan", "handler"}]
      BY <1>0, <1>2 DEF Claim, RecoveryTypeOK
    <3>4. stale' \in [Passes -> SUBSET Execs] /\ current' \in [Passes -> SUBSET Execs]
      BY <1>0, <1>2, <3>1 DEF Claim, RecoveryTypeOK
    <3>5. action' \in [Passes -> {"None", "Resume", "Compensate"}]
      BY <1>0, <1>2 DEF Claim, RecoveryTypeOK
    <3>6. held' \in [Passes -> 0..AgeLimit]
      BY <1>0, <1>2, <3>2 DEF Claim, RecoveryTypeOK
    <3>7. owner' \in [Execs -> BOOLEAN] /\ faults' \in 0..MaxFaults
      BY <1>0, <1>2 DEF Claim, RecoveryTypeOK
    <3>8. overrun' \subseteq Execs
      BY <1>0, <1>2 DEF Claim, RecoveryTypeOK
    <3>9. ASSUME NEW q \in Passes
          PROVE  /\ phase'[q] = "handler" => action'[q] # "None" /\ \E f \in Execs : current'[q] = {f}
                 /\ phase'[q] # "handler" => action'[q] = "None" /\ current'[q] = {}
      <4>1. CASE q = p
        <5>1. phase'[p] = "handler" /\ action'[p] = a /\ current'[p] = {e}
          BY <1>0, <1>2 DEF Claim, RecoveryTypeOK
        <5> QED
          BY <4>1, <5>1
      <4>2. CASE q # p
        <5>1. phase'[q] = phase[q] /\ action'[q] = action[q] /\ current'[q] = current[q]
          BY <1>0, <1>2, <4>2 DEF Claim, RecoveryTypeOK
        <5> QED
          BY <1>0, <5>1 DEF RecoveryTypeOK
      <4> QED
        BY <4>1, <4>2
    <3> QED
      BY <2>2, <3>3, <3>4, <3>5, <3>6, <3>7, <3>8, <3>9 DEF RecoveryTypeOK
  <2>5. HeldInv'
    BY <1>0, <1>2, <2>2, <2>3, AgeLimitFact DEF Claim, HeldInv, RecoveryTypeOK
  <2>6. DoubleOnlyAfterThreshold'
    <3> SUFFICES ASSUME NEW q \in Passes, NEW r \in Passes, q # r,
                        current'[q] \cap current'[r] # {}
                 PROVE  held'[q] > Threshold \/ held'[r] > Threshold
      BY DEF DoubleOnlyAfterThreshold
    <3>1. CASE q # p /\ r # p
      BY <3>1, <1>0, <1>2 DEF Claim, DoubleOnlyAfterThreshold, RecoveryTypeOK
    <3>2. CASE q = p
      BY <3>2, <1>0, <1>2, ClaimFindsLate DEF Claim, Claimable, RecoveryTypeOK
    <3>3. CASE r = p
      BY <3>3, <1>0, <1>2, ClaimFindsLate DEF Claim, Claimable, RecoveryTypeOK
    <3> QED
      BY <3>1, <3>2, <3>3
  <2>7. SoloInv'
    <3> SUFFICES ASSUME NEW f \in Execs \ overrun'
                 PROVE  /\ owner[f] \/ InHandler(f)' => Stale(f)'
                        /\ ~(owner[f] /\ InHandler(f)')
                        /\ \A q, r \in Passes : f \in current'[q] \cap current'[r] => q = r
      BY <1>2 DEF SoloInv, Claim
    <3>0. phase[p] = "scan" /\ current[p] = {}
      BY <1>0, <1>2 DEF Claim, HeldInv, RecoveryTypeOK
    <3>1. CASE f = e
      <4>1. ~owner[e] /\ ~InHandler(e)
        BY <1>2, <3>1 DEF Claim
      <4> QED
        BY <4>1, <3>1, <1>0, <1>2, <2>1, <2>2 DEF Claim, InHandler, Stale, RecoveryTypeOK, Status
    <3>2. CASE f # e
      <4>1. /\ \A q \in Passes : f \in current'[q] <=> f \in current[q]
            /\ f \notin overrun /\ rowStatus'[f] = rowStatus[f]
        BY <3>0, <3>2, <1>0, <1>2, <2>2 DEF Claim, RecoveryTypeOK
      <4> QED
        BY <4>1, <1>0 DEF SoloInv, InHandler, Stale
    <3> QED
      BY <3>1, <3>2
  <2> QED
    BY <2>2, <2>4, <2>5, <2>6, <2>7 DEF IInv
<1> QED
  BY <1>1, <1>2

\* The result of a handler preserves the invariant.
LEMMA HandlerStep ==
  ASSUME IInv, NEW p \in Passes, NEW e \in Execs, NEW ok \in BOOLEAN,
         HandlerDone(p, e, ok)
  PROVE  IInv'
<1>0. RecoveryTypeOK /\ AbsentInv /\ OldInv /\ HeldInv /\ DoubleOnlyAfterThreshold /\ SoloInv
  BY DEF IInv
<1> DEFINE s == IF ~ok THEN "FAILED"
                ELSE IF action[p] = "Resume" THEN "COMPLETED" ELSE "COMPENSATED"
<1>1. s \in Status \ {"ABSENT"} /\ Write(e, s)
  BY DEF HandlerDone, Status, Terminal
<1> HIDE DEF s
<1>2. /\ rowStatus' \in [Execs -> Status] /\ age' \in [Execs -> 0..AgeLimit]
      /\ old' \in [Passes -> SUBSET Execs]
      /\ AbsentInv' /\ OldInv'
      /\ \A f \in Execs : age'[f] <= age[f]
      /\ \A f \in Execs : f # e => rowStatus'[f] = rowStatus[f]
  BY <1>0, <1>1, WriteRow
<1>3. RecoveryTypeOK'
  BY <1>0, <1>2, AgeLimitFact DEF HandlerDone, RecoveryTypeOK
<1>4. HeldInv'
  BY <1>0, <1>2, AgeLimitFact DEF HandlerDone, HeldInv, RecoveryTypeOK
<1>5. DoubleOnlyAfterThreshold'
  BY <1>0 DEF HandlerDone, DoubleOnlyAfterThreshold, RecoveryTypeOK
<1>6. SoloInv'
  <2> SUFFICES ASSUME NEW f \in Execs \ overrun
               PROVE  /\ owner[f] \/ InHandler(f)' => Stale(f)'
                      /\ ~(owner[f] /\ InHandler(f)')
                      /\ \A q, r \in Passes : f \in current'[q] \cap current'[r] => q = r
    BY DEF SoloInv, HandlerDone
  <2>0. \A q \in Passes : current'[q] = IF q = p THEN {} ELSE current[q]
    BY <1>0 DEF HandlerDone, RecoveryTypeOK
  <2>1. CASE f = e
    <3>1. InHandler(e) /\ \A q \in Passes : e \in current[q] => q = p
      BY <1>0, <2>1 DEF HandlerDone, SoloInv, InHandler
    <3> QED
      BY <3>1, <2>0, <2>1, <1>0 DEF SoloInv, InHandler
  <2>2. CASE f # e
    BY <2>0, <2>2, <1>0, <1>2 DEF SoloInv, InHandler, Stale
  <2> QED
    BY <2>1, <2>2
<1> QED
  BY <1>2, <1>3, <1>4, <1>5, <1>6 DEF IInv

\* The initial states satisfy the invariant.
LEMMA InitInv == RecoveryInit => IInv
  BY AgeLimitFact DEF RecoveryInit, IInv, RecoveryTypeOK, Status, AbsentInv, OldInv, HeldInv,
     DoubleOnlyAfterThreshold, SoloInv, InHandler, Stale

\* Every step preserves the invariant.
LEMMA StepInv == IInv /\ [RecoveryNext]_recoveryVars => IInv'
<1> SUFFICES ASSUME IInv, [RecoveryNext]_recoveryVars PROVE IInv'
  OBVIOUS
<1>1. CASE Tick
  BY <1>1, TickStep
<1>2. CASE Cleanup
  BY <1>2, CleanupStep
<1>3. CASE \E e \in Execs : Begin(e) \/ Progress(e) \/ FinishRun(e) \/ Suspend(e)
  BY <1>3, OwnerStep
<1>4. CASE \/ \E e \in Execs : Resume(e) \/ OwnerCrash(e)
           \/ \E p \in Passes : StartPass(p) \/ EndPass(p) \/ PassAborts(p)
           \/ \E p \in Passes, e \in Execs : PassOver(p, e)
  BY <1>4, QuietStep
<1>5. CASE \E p \in Passes, e \in Execs :
             ClaimFailed(p, e) \/ \E a \in {"Resume", "Compensate"} : Claim(p, e, a)
  BY <1>5, ClaimStep
<1>6. CASE \E p \in Passes, e \in Execs : \E ok \in BOOLEAN : HandlerDone(p, e, ok)
  BY <1>6, HandlerStep
<1>7. CASE UNCHANGED recoveryVars
  BY <1>7 DEF recoveryVars, rowVars, passVars, IInv, RecoveryTypeOK, AbsentInv, OldInv, HeldInv,
     DoubleOnlyAfterThreshold, SoloInv, InHandler, Stale
<1> QED
  BY <1>1, <1>2, <1>3, <1>4, <1>5, <1>6, <1>7 DEF RecoveryNext, Pass

\* The inductive invariant holds in every reachable state of the store.
THEOREM RecoveryInvariant == RecoverySpec => []IInv
  BY InitInv, StepInv, PTL DEF RecoverySpec

\* Rows, owners and passes keep their types through every write and claim.
THEOREM RecoveryTypeCorrect == RecoverySpec => []RecoveryTypeOK
<1>1. IInv => RecoveryTypeOK
  BY DEF IInv
<1> QED
  BY <1>1, RecoveryInvariant, PTL

\* claim_stale() keeps overlapping passes apart: two handlers meet on one
\* execution only after one of them has outlived the stale threshold.
THEOREM RecoveryDoubleOnlyAfterThreshold == RecoverySpec => []DoubleOnlyAfterThreshold
<1>1. IInv => DoubleOnlyAfterThreshold
  BY DEF IInv
<1> QED
  BY <1>1, RecoveryInvariant, PTL

\* No step overwrites a terminal status of an execution on which no two
\* parties ever worked at once.
LEMMA TerminalStep ==
  ASSUME IInv, [RecoveryNext]_recoveryVars, NEW e \in Execs,
         rowStatus[e] \in Terminal, rowStatus'[e] \notin {rowStatus[e], "ABSENT"}
  PROVE  e \in overrun
<1> SUFFICES ASSUME e \notin overrun PROVE FALSE
  OBVIOUS
<1>0. rowStatus \in [Execs -> Status] /\ ~owner[e] /\ ~InHandler(e) /\ ~Stale(e)
  BY DEF IInv, RecoveryTypeOK, SoloInv, Stale, Terminal
<1> USE DEF Write, rowVars, passVars, Terminal
<1>1. CASE Tick \/ Cleanup
  BY <1>0, <1>1 DEF Tick, Cleanup
<1>2. CASE \E f \in Execs : \/ Begin(f) \/ Progress(f) \/ FinishRun(f)
                            \/ Suspend(f) \/ Resume(f) \/ OwnerCrash(f)
  BY <1>0, <1>2 DEF Begin, Progress, FinishRun, Suspend, Resume, OwnerCrash
<1>3. CASE \E p \in Passes : StartPass(p) \/ EndPass(p) \/ PassAborts(p)
  BY <1>0, <1>3 DEF StartPass, EndPass, PassAborts
<1>4. CASE \E p \in Passes, f \in Execs :
             \/ PassOver(p, f) \/ ClaimFailed(p, f)
             \/ \E a \in {"Resume", "Compensate"} : Claim(p, f, a)
  BY <1>0, <1>4 DEF PassOver, ClaimFailed, Claim, Claimable
<1>5. CASE \E p \in Passes, f \in Execs : \E ok \in BOOLEAN : HandlerDone(p, f, ok)
  BY <1>0, <1>5 DEF HandlerDone, InHandler
<1>6. CASE UNCHANGED recoveryVars
  BY <1>0, <1>6 DEF recoveryVars
<1> QED
  BY <1>1, <1>2, <1>3, <1>4, <1>5, <1>6 DEF RecoveryNext, Pass

\* A terminal row is final as far as recovery is concerned: only an execution
\* that was taken up while somebody still worked on it can lose its status.
THEOREM RecoveryTerminalIsFinal == RecoverySpec => TerminalIsFinal
<1>1. IInv /\ [RecoveryNext]_recoveryVars =>
        [\A e \in Execs :
           rowStatus[e] \in Terminal /\ rowStatus'[e] \notin {rowStatus[e], "ABSENT"} =>
             e \in overrun]_recoveryVars
  BY TerminalStep
<1> QED
  BY <1>1, RecoveryInvariant, PTL DEF RecoverySpec, TerminalIsFinal
=============================================================================
