---------------------------- MODULE OutboxProofs ----------------------------
(***************************************************************************)
(* Safety of the transactional outbox, for any number of relays, records   *)
(* and attempts.                                                           *)
(*                                                                         *)
(* The argument: a relay's handle goes from start() through stop() and is  *)
(* let go only when the relay has ended (HandleInv), so as long as no      *)
(* start() falls into a stop() one handle is out at most (SoloInv).  A     *)
(* relay alone works from a copy that is never stale (FreshInv).  With     *)
(* more of them, each can add one attempt for every record in its copy     *)
(* (BudgetInv).                                                            *)
(***************************************************************************)
EXTENDS Outbox, FiniteSetTheorems, SequenceTheorems, TLAPS

\* The relay's handle is out: stored by start() or taken by a stop().
Out(r) == handle[r] \in {"task", "taken", "awaited"}

\* The handle stored is the one marked so; a relay that lives has its handle
\* out, one that is not spawned has none, and one that was joined has ended.
HandleInv ==
  /\ \A r \in Relays : handle[r] = "task" <=> task = r
  /\ \A r \in Live : Out(r)
  /\ \A r \in Relays : at[r] = "unborn" => handle[r] = "none"

\* Only a publishing relay has records to publish.
CopyInv == \A r \in Relays : batch[r] # {} => at[r] = "publishing"

\* Without a race one handle is out at most.
SoloInv == ~raced => \A r, q \in Relays : Out(r) /\ Out(q) => r = q

\* Without a race the records a relay is about to publish are pending.
FreshInv == ~raced => \A r \in Relays : \A i \in batch[r] : Unsettled(records[i])

\* The relays that are about to publish record i.
Holders(i) == {r \in Relays : i \in batch[r]}

\* Attempts made and attempts under way stay within one round beyond the limit.
BudgetInv ==
  \A i \in DOMAIN records :
    records[i].attempts + Cardinality(Holders(i)) <= MaxAttempts + MaxStarts - 1

\* The type of the state, with attempts not yet bounded.
Records == [attempts : Nat, delivered : BOOLEAN]

Shape ==
  /\ records \in Seq(Records)
  /\ Len(records) <= MaxRecords
  /\ task \in Relays \cup {NoRelay}
  /\ stop \in BOOLEAN
  /\ handle \in [Relays -> {"none", "task", "taken", "awaited", "joined"}]
  /\ at \in [Relays -> {"unborn", "checking", "publishing", "waiting", "ended"}]
  /\ batch \in [Relays -> SUBSET DOMAIN records]
  /\ raced \in BOOLEAN

IInv == Shape /\ HandleInv /\ CopyInv /\ SoloInv /\ FreshInv /\ BudgetInv

USE OutboxAssumption DEF Relays, NoRelay

\* Holders of a record are counted, and there are no more than relays.
LEMMA HoldersFact ==
  \A S \in SUBSET Relays :
    IsFiniteSet(S) /\ Cardinality(S) \in Nat /\ Cardinality(S) <= MaxStarts
<1>1. IsFiniteSet(Relays) /\ Cardinality(Relays) = MaxStarts
  BY FS_Interval
<1> QED
  BY <1>1, FS_Subset, FS_CardinalityType

\* The queue as a function.
LEMMA RecordsFact ==
  ASSUME Shape
  PROVE  /\ Len(records) \in Nat /\ DOMAIN records = 1..Len(records)
         /\ \A i \in DOMAIN records :
              /\ records[i] \in Records /\ records[i].attempts \in Nat
              /\ records[i].delivered \in BOOLEAN
<1>1. Len(records) \in Nat /\ DOMAIN records = 1..Len(records)
  BY LenProperties DEF Shape
<1>2. \A i \in DOMAIN records : records[i] \in Records
  BY <1>1, ElementOfSeq DEF Shape
<1> QED
  BY <1>1, <1>2 DEF Records

\* The initial state.
LEMMA InitIInv == OutboxInit => IInv
<1> SUFFICES ASSUME OutboxInit PROVE IInv
  OBVIOUS
<1>1. Shape
  <2>1. records \in Seq(Records) /\ Len(records) = 0
    BY EmptySeq DEF OutboxInit
  <2>2. batch \in [Relays -> SUBSET DOMAIN records]
    BY DEF OutboxInit
  <2>3. Len(records) <= MaxRecords
    BY <2>1
  <2>4. /\ task \in Relays \cup {NoRelay} /\ stop \in BOOLEAN /\ raced \in BOOLEAN
        /\ handle \in [Relays -> {"none", "task", "taken", "awaited", "joined"}]
        /\ at \in [Relays -> {"unborn", "checking", "publishing", "waiting", "ended"}]
    BY DEF OutboxInit
  <2> QED
    BY <2>1, <2>2, <2>3, <2>4 DEF Shape
<1>2. HandleInv /\ CopyInv
  BY DEF OutboxInit, HandleInv, CopyInv, Live
<1>3. SoloInv /\ FreshInv /\ BudgetInv
  BY DEF OutboxInit, SoloInv, FreshInv, BudgetInv, Out
<1> QED
  BY <1>1, <1>2, <1>3 DEF IInv

\* A step that touches neither records nor copies keeps what is said of them,
\* as `raced` is never taken back.
LEMMA RecordsKept ==
  ASSUME IInv, UNCHANGED <<records, batch>>, raced => raced'
  PROVE  FreshInv' /\ BudgetInv'
BY DEF IInv, FreshInv, BudgetInv, Holders, Unsettled

\* A new record is in no copy.
LEMMA EnqueueStep == ASSUME IInv, Enqueue PROVE IInv'
<1> DEFINE rec == [attempts |-> 0, delivered |-> FALSE]
<1>1. /\ Len(records') = Len(records) + 1 /\ DOMAIN records' = 1..(Len(records) + 1)
      /\ DOMAIN records = 1..Len(records) /\ Len(records) \in Nat
      /\ \A i \in DOMAIN records : records'[i] = records[i]
      /\ records'[Len(records) + 1] = rec
      /\ records' \in Seq(Records)
  <2>1. rec \in Records /\ records \in Seq(Records) /\ records' = Append(records, rec)
    BY DEF IInv, Shape, Enqueue, Records
  <2> QED
    BY <2>1, AppendProperties, LenProperties
<1>2. Shape'
  BY <1>1 DEF IInv, Shape, Enqueue
<1>3. HandleInv' /\ CopyInv' /\ SoloInv'
  BY DEF IInv, HandleInv, CopyInv, SoloInv, Live, Out, Enqueue
<1>4. FreshInv'
  BY <1>1 DEF IInv, Shape, FreshInv, Unsettled, Enqueue
<1>5. BudgetInv'
  <2> SUFFICES ASSUME NEW i \in DOMAIN records'
               PROVE  records'[i].attempts + Cardinality(Holders(i)') <= MaxAttempts + MaxStarts - 1
    BY DEF BudgetInv
  <2>1. Holders(i)' = Holders(i)
    BY DEF Holders, Enqueue
  <2>2. CASE i \in DOMAIN records
    BY <1>1, <2>1, <2>2 DEF IInv, BudgetInv
  <2>3. CASE i = Len(records) + 1
    <3>1. Holders(i) \in SUBSET Relays
      BY DEF Holders
    <3> QED
      BY <1>1, <2>1, <2>3, <3>1, HoldersFact
  <2> QED
    BY <1>1, <2>2, <2>3
<1> QED
  BY <1>2, <1>3, <1>4, <1>5 DEF IInv

\* start() and the three parts of stop().
LEMMA CallerStep ==
  ASSUME IInv, NEW r \in Relays, Start(r) \/ StopTake(r) \/ StopStep(r)
  PROVE  IInv'
<1> USE DEF IInv
<1>1. UNCHANGED <<records, batch>> /\ (raced' = raced \/ raced' = (raced \/ Stopping # {}))
  BY DEF Start, StopTake, StopStep, StopSignal, StopJoin
<1>2. FreshInv' /\ BudgetInv'
  BY <1>1, RecordsKept DEF Shape
<1>3. CASE Start(r)
  <2>1. Shape'
    BY <1>3 DEF Shape, Start, Send
  <2>2. HandleInv' /\ CopyInv'
    BY <1>3 DEF Shape, HandleInv, CopyInv, Start, Live, Out, Fresh
  <2>3. SoloInv'
    <3> SUFFICES ASSUME ~raced', NEW p \in Relays, NEW q \in Relays, Out(p)', Out(q)'
                 PROVE  p = q
      BY DEF SoloInv
    <3>1. Stopping = {}
      BY <1>3 DEF Start, Shape
    <3>2. \A x \in Relays : x # r => ~Out(x)'
      <4>1. \A x \in Relays : handle[x] \notin {"task", "taken", "awaited"}
        BY <1>3, <3>1 DEF Start, HandleInv, Stopping
      <4>2. \A x \in Relays : x # r => handle'[x] = handle[x]
        BY <1>3 DEF Start, Shape
      <4> QED
        BY <4>1, <4>2 DEF Out
    <3> QED
      BY <3>2
  <2> QED
    BY <1>2, <2>1, <2>2, <2>3
<1>4. CASE StopTake(r)
  <2>1. Shape' /\ CopyInv'
    BY <1>4 DEF Shape, CopyInv, StopTake
  <2>2. HandleInv' /\ SoloInv'
    BY <1>4 DEF Shape, HandleInv, SoloInv, StopTake, Live, Out
  <2> QED
    BY <1>2, <2>1, <2>2
<1>5. CASE StopSignal(r)
  <2>1. Shape' /\ CopyInv'
    BY <1>5 DEF Shape, CopyInv, StopSignal, Send
  <2>2. HandleInv' /\ SoloInv'
    BY <1>5 DEF Shape, HandleInv, SoloInv, StopSignal, Live, Out
  <2> QED
    BY <1>2, <2>1, <2>2
<1>6. CASE StopJoin(r)
  <2>1. Shape' /\ CopyInv'
    BY <1>6 DEF Shape, CopyInv, StopJoin
  <2>2. HandleInv' /\ SoloInv'
    BY <1>6 DEF Shape, HandleInv, SoloInv, StopJoin, Live, Out
  <2> QED
    BY <1>2, <2>1, <2>2
<1> QED
  BY <1>3, <1>4, <1>5, <1>6 DEF StopStep

\* A relay that sleeps, wakes or ends.
LEMMA IdleStep ==
  ASSUME IInv, NEW r \in Relays, RelayExit(r) \/ RelaySleep(r) \/ RelayWake(r)
  PROVE  IInv'
<1> USE DEF IInv, RelayExit, RelaySleep, RelayWake
<1>1. Shape'
  BY DEF Shape
<1>2. HandleInv' /\ CopyInv' /\ SoloInv'
  BY DEF Shape, HandleInv, CopyInv, SoloInv, Live, Out
<1>3. FreshInv' /\ BudgetInv'
  BY RecordsKept
<1> QED
  BY <1>1, <1>2, <1>3

\* A relay copies the pending records.
LEMMA ScanStep == ASSUME IInv, NEW r \in Relays, RelayScan(r) PROVE IInv'
<1> USE DEF IInv, RelayScan
<1>1. Shape'
  BY DEF Shape
<1>2. HandleInv' /\ CopyInv' /\ SoloInv'
  BY DEF Shape, HandleInv, CopyInv, SoloInv, Live, Out
<1>3. FreshInv'
  BY DEF Shape, FreshInv, Unsettled
<1>4. BudgetInv'
  <2> SUFFICES ASSUME NEW i \in DOMAIN records
               PROVE  records[i].attempts + Cardinality(Holders(i)') <= MaxAttempts + MaxStarts - 1
    BY DEF BudgetInv
  <2>0. records[i].attempts \in Nat
    BY RecordsFact
  <2>1. CASE Unsettled(records[i])
    <3>1. Holders(i)' \in SUBSET Relays
      BY DEF Holders
    <3> QED
      BY <2>0, <2>1, <3>1, HoldersFact DEF Unsettled
  <2>2. CASE ~Unsettled(records[i])
    <3>1. batch[r] = {}
      BY DEF CopyInv
    <3>2. Holders(i)' = Holders(i)
      BY <2>2, <3>1 DEF Holders, Shape
    <3> QED
      BY <3>2 DEF BudgetInv
  <2> QED
    BY <2>1, <2>2
<1> QED
  BY <1>1, <1>2, <1>3, <1>4

\* The record a relay publishes leaves its copy; without a race no other relay
\* has it in its own.
LEMMA PublishesFact ==
  ASSUME IInv, NEW r \in Relays, NEW i \in batch[r], Publishes(r, i)
  PROVE  /\ i \in DOMAIN records
         /\ Holders(i)' = Holders(i) \ {r} /\ r \in Holders(i)
         /\ \A j \in DOMAIN records : j # i => Holders(j)' = Holders(j)
         /\ ~raced => \A q \in Relays : q # r => batch[q] = {}
<1> USE DEF IInv, Shape, Publishes, Holders
<1>1. i \in DOMAIN records
  OBVIOUS
<1>2. Holders(i)' = Holders(i) \ {r} /\ r \in Holders(i)
  OBVIOUS
<1>3. \A j \in DOMAIN records : j # i => Holders(j)' = Holders(j)
  OBVIOUS
<1>4. ~raced => \A q \in Relays : q # r => batch[q] = {}
  BY DEF CopyInv, SoloInv, HandleInv, Live
<1> QED
  BY <1>1, <1>2, <1>3, <1>4

\* The sink takes an event or fails.
LEMMA PublishStep ==
  ASSUME IInv, NEW r \in Relays, PublishOk(r) \/ PublishErr(r)
  PROVE  IInv'
<1> USE DEF IInv
<1>1. PICK i \in batch[r] :
        /\ Publishes(r, i)
        /\ \/ records' = [records EXCEPT ![i].delivered = TRUE]
           \/ records' = [records EXCEPT ![i].attempts = @ + 1]
        /\ UNCHANGED <<task, stop, handle, at, raced>>
  BY DEF PublishOk, PublishErr
<1>2. /\ i \in DOMAIN records
      /\ Holders(i)' = Holders(i) \ {r} /\ r \in Holders(i)
      /\ \A j \in DOMAIN records : j # i => Holders(j)' = Holders(j)
      /\ ~raced => \A q \in Relays : q # r => batch[q] = {}
  BY <1>1, PublishesFact
<1>3. /\ records' \in Seq(Records)
      /\ Len(records') = Len(records) /\ DOMAIN records' = DOMAIN records
      /\ records'[i].attempts <= records[i].attempts + 1
      /\ records[i].attempts \in Nat /\ records'[i].attempts \in Nat
      /\ \A j \in DOMAIN records : j # i => records'[j] = records[j]
  <2>1. /\ records \in Seq(Records) /\ DOMAIN records = 1..Len(records)
        /\ records[i] \in Records /\ records[i].attempts \in Nat
    BY <1>2, RecordsFact DEF Shape
  <2>2. PICK rec \in Records :
          /\ records' = [records EXCEPT ![i] = rec]
          /\ rec.attempts <= records[i].attempts + 1 /\ rec.attempts \in Nat
    <3>1. CASE records' = [records EXCEPT ![i].delivered = TRUE]
      <4> DEFINE rec == [records[i] EXCEPT !.delivered = TRUE]
      <4>1. rec \in Records /\ rec.attempts = records[i].attempts
        BY <2>1 DEF Records
      <4>2. records' = [records EXCEPT ![i] = rec]
        BY <3>1
      <4> HIDE DEF rec
      <4>3. rec.attempts <= records[i].attempts + 1 /\ rec.attempts \in Nat
        BY <2>1, <4>1
      <4> QED
        BY <4>1, <4>2, <4>3
    <3>2. CASE records' = [records EXCEPT ![i].attempts = @ + 1]
      <4> DEFINE rec == [records[i] EXCEPT !.attempts = @ + 1]
      <4>1. rec \in Records /\ rec.attempts = records[i].attempts + 1
        BY <2>1 DEF Records
      <4>2. records' = [records EXCEPT ![i] = rec]
        BY <3>2
      <4> HIDE DEF rec
      <4>3. rec.attempts <= records[i].attempts + 1 /\ rec.attempts \in Nat
        BY <2>1, <4>1
      <4> QED
        BY <4>1, <4>2, <4>3
    <3> QED
      BY <1>1, <3>1, <3>2
  <2>3. i \in 1..Len(records)
    BY <1>2, <2>1
  <2>4. records' \in Seq(Records) /\ Len(records') = Len(records)
    BY <2>1, <2>2, <2>3, ExceptSeq
  <2> QED
    BY <2>1, <2>2, <2>3, <2>4
<1>4. Shape'
  BY <1>1, <1>3 DEF Shape, Publishes
<1>5. HandleInv' /\ CopyInv' /\ SoloInv'
  BY <1>1 DEF Shape, HandleInv, CopyInv, SoloInv, Live, Out, Publishes
<1>6. FreshInv'
  BY <1>1, <1>2, <1>3 DEF Shape, FreshInv, Publishes, Unsettled
<1>7. BudgetInv'
  <2> SUFFICES ASSUME NEW j \in DOMAIN records
               PROVE  records'[j].attempts + Cardinality(Holders(j)') <= MaxAttempts + MaxStarts - 1
    BY <1>3 DEF BudgetInv
  <2>1. CASE j = i
    <3>1. Holders(i) \in SUBSET Relays
      BY DEF Holders
    <3>2. /\ IsFiniteSet(Holders(i)) /\ Cardinality(Holders(i)) \in Nat
          /\ Cardinality(Holders(i) \ {r}) = Cardinality(Holders(i)) - 1
      BY <1>2, <3>1, HoldersFact, FS_RemoveElement
    <3>3. records[i].attempts + Cardinality(Holders(i)) <= MaxAttempts + MaxStarts - 1
      BY <1>2 DEF BudgetInv
    <3>4. Cardinality(Holders(j)') = Cardinality(Holders(i)) - 1
      BY <1>2, <2>1, <3>2
    <3> QED
      BY <1>3, <2>1, <3>2, <3>3, <3>4
  <2>2. CASE j # i
    BY <1>2, <1>3, <2>2 DEF BudgetInv
  <2> QED
    BY <2>1, <2>2
<1> QED
  BY <1>4, <1>5, <1>6, <1>7

\* Every step preserves the invariant.
LEMMA NextIInv == IInv /\ [OutboxNext]_outboxVars => IInv'
<1> SUFFICES ASSUME IInv, [OutboxNext]_outboxVars PROVE IInv'
  OBVIOUS
<1>1. CASE Enqueue
  BY <1>1, EnqueueStep
<1>2. ASSUME NEW r \in Relays, Start(r) \/ StopTake(r) \/ StopStep(r)
      PROVE  IInv'
  BY <1>2, CallerStep
<1>3. ASSUME NEW r \in Relays, RelayStep(r)
      PROVE  IInv'
  BY <1>3, IdleStep, ScanStep, PublishStep DEF RelayStep
<1>4. CASE UNCHANGED outboxVars
  <2>1. Shape' /\ CopyInv'
    BY <1>4 DEF IInv, Shape, CopyInv, outboxVars
  <2>2. HandleInv' /\ SoloInv'
    BY <1>4 DEF IInv, HandleInv, SoloInv, Live, Out, outboxVars
  <2>3. FreshInv' /\ BudgetInv'
    BY <1>4, RecordsKept DEF outboxVars
  <2> QED
    BY <2>1, <2>2, <2>3 DEF IInv
<1> QED
  BY <1>1, <1>2, <1>3, <1>4 DEF OutboxNext

\* The handle protocol of start() and stop() and the copies of the relays keep
\* the inductive invariant, however the callers interleave.
THEOREM OutboxInvariant == OutboxSpec => []IInv
<1>1. OutboxInit => IInv
  BY InitIInv
<1>2. IInv /\ [OutboxNext]_outboxVars => IInv'
  BY NextIInv
<1> QED
  BY <1>1, <1>2, PTL DEF OutboxSpec

\* The state keeps its type; in particular relays that race push the attempts
\* of a record at most one round beyond max_attempts.
THEOREM OutboxTypeCorrect == OutboxSpec => []OutboxTypeOK
<1>1. IInv => OutboxTypeOK
  <2> SUFFICES ASSUME IInv PROVE OutboxTypeOK
    OBVIOUS
  <2> USE DEF IInv, Shape
  <2>1. ASSUME NEW i \in DOMAIN records
        PROVE  records[i] \in [attempts : 0..(MaxAttempts + MaxStarts - 1), delivered : BOOLEAN]
    <3>1. Holders(i) \in SUBSET Relays
      BY DEF Holders
    <3>2. Cardinality(Holders(i)) \in Nat
      BY <3>1, HoldersFact
    <3>3. records[i] \in Records /\ records[i].attempts \in Nat
      BY RecordsFact
    <3>4. records[i].attempts <= MaxAttempts + MaxStarts - 1
      BY <3>2, <3>3 DEF BudgetInv
    <3> QED
      BY <3>3, <3>4 DEF Records
  <2>2. records \in Seq([attempts : 0..(MaxAttempts + MaxStarts - 1), delivered : BOOLEAN])
    <3> DEFINE Bounded == [attempts : 0..(MaxAttempts + MaxStarts - 1), delivered : BOOLEAN]
    <3>1. records \in [1..Len(records) -> Bounded] /\ Len(records) \in Nat
      BY <2>1, RecordsFact, LenProperties
    <3> HIDE DEF Bounded
    <3>2. records \in Seq(Bounded)
      BY <3>1, SeqDef
    <3> QED
      BY <3>2 DEF Bounded
  <2> QED
    BY <2>2 DEF OutboxTypeOK
<1> QED
  BY <1>1, OutboxInvariant, PTL

\* At most one relay is alive, and it is the one stored or being stopped, for
\* any number of start() and stop() calls that do not overlap.
THEOREM OutboxOneRelay == OutboxSpec => []OneRelay
<1>1. IInv => OneRelay
  <2> SUFFICES ASSUME IInv, ~raced
               PROVE  Cardinality(Live) <= 1 /\ \A r \in Live : r = task \/ r \in Stopping
    BY DEF OneRelay
  <2> USE DEF IInv
  <2>1. \A r \in Live : r = task \/ r \in Stopping
    BY DEF HandleInv, Live, Out, Stopping
  <2>2. \A r, q \in Live : r = q
    BY DEF HandleInv, SoloInv, Live
  <2>3. Live = {} \/ \E r : Live = {r}
    BY <2>2
  <2>4. Cardinality(Live) <= 1
    <3>1. Cardinality({}) = 0 /\ \A x : Cardinality({x}) = 1
      BY FS_EmptySet, FS_Singleton
    <3>2. CASE Live = {}
      BY <3>1, <3>2
    <3>3. ASSUME NEW r, Live = {r} PROVE Cardinality(Live) <= 1
      <4>1. Cardinality(Live) = 1
        BY <3>1, <3>3, Zenon
      <4> QED
        BY <4>1
    <3> QED
      BY <2>3, <3>2, <3>3
  <2> QED
    BY <2>1, <2>4
<1> QED
  BY <1>1, OutboxInvariant, PTL

\* Without a race a delivered record and a dead letter are never touched again.
THEOREM OutboxSettledIsFinal == OutboxSpec => SettledIsFinal
<1>1. ASSUME IInv, [OutboxNext]_outboxVars
      PROVE  [\A i \in DOMAIN records :
                ~raced /\ ~Unsettled(records[i]) => records'[i] = records[i]]_outboxVars
  <2> SUFFICES ASSUME OutboxNext, NEW i \in DOMAIN records, ~raced, ~Unsettled(records[i])
               PROVE  records'[i] = records[i]
    BY <1>1
  <2> USE <1>1 DEF IInv
  <2>1. CASE Enqueue
    BY <2>1 DEF Enqueue, Shape
  <2>2. ASSUME NEW r \in Relays, PublishOk(r) \/ PublishErr(r)
        PROVE  records'[i] = records[i]
    <3>1. PICK j \in batch[r] :
            \/ records' = [records EXCEPT ![j].delivered = TRUE]
            \/ records' = [records EXCEPT ![j].attempts = @ + 1]
      BY <2>2 DEF PublishOk, PublishErr
    <3>2. j # i
      BY DEF FreshInv
    <3> QED
      BY <3>1, <3>2 DEF Shape
  <2>3. CASE UNCHANGED records
    BY <2>3
  <2> QED
    BY <2>1, <2>2, <2>3 DEF OutboxNext, Start, StopTake, StopStep, StopSignal, StopJoin,
       RelayStep, RelayExit, RelayScan, RelaySleep, RelayWake
<1> QED
  BY <1>1, OutboxInvariant, PTL DEF OutboxSpec, SettledIsFinal
=============================================================================
