----------------------------- MODULE SagaProofs -----------------------------
(***************************************************************************)
(* A run of the saga engine, for every definition: any number of steps,    *)
(* any edges between them, any compensations, groups and policy.           *)
(*                                                                         *)
(* The argument about the order: Kahn's loop places a step only behind all *)
(* its dependencies, so no set of placed steps waits for itself            *)
(* (OrderInv), and when no layer is left, the steps that are not placed    *)
(* wait for each other (KahnInv).  The forward pass walks that order       *)
(* (ForwardInv).                                                           *)
(*                                                                         *)
(* The argument about the rollback: results are collected from the last    *)
(* executed step down, and only members of the batch under way have one    *)
(* that is not collected yet (RollbackInv).  So steps_rolled is a list of  *)
(* the collected successes (RolledInv), StopOnError has collected no       *)
(* failure before its last result (StopInv), and consecutive_failures      *)
(* counts the failures at the end of what was collected (CircuitInv).      *)
(***************************************************************************)
EXTENDS Saga, FiniteSetTheorems, SequenceTheorems, TLAPS

LOCAL INSTANCE SequencesExt

Deps(i) == def.depends_on[i]

\* The steps placed so far: each once, behind its dependencies, and no set of
\* them waits for itself.
OrderInv ==
  /\ \A k, l \in DOMAIN order : order[k] = order[l] => k = l
  /\ \A k \in DOMAIN order : \A d \in Deps(order[k]) :
       \E m \in DOMAIN order : m < k /\ order[m] = d
  /\ IsFiniteSet(Placed) /\ Cardinality(Placed) = Len(order)
  /\ \A S \in SUBSET Placed : S # {} => \E i \in S : Deps(i) \cap S = {}

\* The layer under way, and what the order is when the loop has ended.
KahnInv ==
  /\ pc = "start" => order = <<>> /\ ready = {}
  /\ pc = "ordering" =>
       /\ \A i \in Steps : Deps(i) \subseteq Steps \ {i}
       /\ ready \subseteq Frontier(Placed)
       /\ ready = {} => Frontier(Placed) = {}
  /\ pc \in {"forward", "step", "compensate"} => Placed = Steps
  /\ status = "Completed" => Placed = Steps /\ Len(executed) = Len(order)
  /\ error = "Definition" => executed = <<>> /\ (def.duplicate \/ Unservable)

\* The status and error of the stages of a run.
StatusInv ==
  /\ pc # "done" => status = "Running" /\ error = "None"
  /\ status = "Running" => pc # "done"
  /\ status = "Completed" => error = "None"
  /\ status = "Failed" => error \in {"Definition", "Cancelled"}
  /\ status = "Compensated" => error \in {"Step", "Compensation"}
  /\ error = "Compensation" => def.policy = "StopOnError"

\* The forward pass: `executed` is a prefix of `order`, and only its steps and
\* the one behind it were invoked.
ForwardInv ==
  /\ pc \in {"start", "ordering"} => executed = <<>>
  /\ error = "Definition" => \A i \in Steps : runs[i] = 0
  /\ Len(executed) <= Len(order)
  /\ \A k \in DOMAIN executed : executed[k] = order[k]
  /\ pc = "step" => /\ Len(executed) < Len(order) /\ attempt >= 1
                    /\ runs[order[Len(executed) + 1]] = attempt
  /\ pc # "step" => attempt = 0
  /\ \A i \in Steps :
       /\ runs[i] <= def.max_attempts
       /\ runs[i] > 0 =>
            \/ i \in Executed
            \/ /\ pc \in {"step", "compensate", "done"} /\ Len(executed) < Len(order)
               /\ i = order[Len(executed) + 1]

\* Positions whose compensation has been joined and its result collected.
Collected == DOMAIN settled \ rest

\* The rollback goes from the last executed step down.
RollbackInv ==
  /\ pc \in {"start", "ordering", "forward", "step"} \/ status \in {"Completed", "Failed"} =>
       DOMAIN settled = {} /\ rest = {} /\ rolled = <<>> /\ failures = 0
  /\ pc = "compensate" => DOMAIN settled = CompOrder /\ rest # {}
  /\ status = "Compensated" => DOMAIN settled = CompOrder
  /\ \A p \in Collected : settled[p] # "pending" /\ \A q \in rest : q < p
  /\ \A q \in rest : settled[q] # "pending" => q \in Batch /\ pc = "compensate"
  /\ pc = "done" /\ rest # {} => def.policy \in {"StopOnError", "CircuitBreaker"}

\* The successes collected so far.
OkCollected == {p \in Collected : settled[p] = "ok"}

\* steps_rolled lists them, last executed first.
RolledInv ==
  /\ ToSet(rolled) = {executed[p] : p \in OkCollected}
  /\ IsFiniteSet(OkCollected) /\ Len(rolled) = Cardinality(OkCollected)
  /\ \A k, l \in DOMAIN rolled :
       k < l => \E m, n \in DOMAIN executed :
                  m > n /\ executed[m] = rolled[k] /\ executed[n] = rolled[l]

\* Under StopOnError a failure is the last result collected.
StopInv ==
  def.policy = "StopOnError" =>
    /\ \A p \in Collected : settled[p] = "err" =>
         error = "Compensation" /\ \A q \in Collected : p <= q
    /\ error = "Compensation" => \E p \in Collected : settled[p] = "err"
    /\ pc = "done" /\ rest # {} => error = "Compensation"

\* q was the last result collected.
Latest(q) == q \in Collected /\ \A p \in Collected : q <= p

\* q, or b and q, failed and were collected last.
OneFailed(q) == Latest(q) /\ settled[q] = "err"
TwoFailed(b, q) ==
  /\ OneFailed(q) /\ b \in Collected /\ b > q /\ settled[b] = "err"
  /\ \A p \in Collected : p > q => b <= p

\* Under CircuitBreaker consecutive_failures counts the failures collected
\* last, and the third one is the last result there is.
CircuitInv ==
  def.policy = "CircuitBreaker" =>
    /\ failures >= 1 <=> \E q \in Collected : OneFailed(q)
    /\ failures >= 2 <=> \E b, q \in Collected : TwoFailed(b, q)
    /\ failures >= 3 => \E q \in Collected : OneFailed(q) /\ Third(q)
    /\ \A q \in Collected : Third(q) => Latest(q) /\ pc = "done"
    /\ pc = "compensate" => failures < 3
    /\ pc = "done" /\ rest # {} => failures >= 3

IInv ==
  /\ SagaTypeOK /\ OrderInv /\ KahnInv /\ StatusInv /\ ForwardInv
  /\ RollbackInv /\ RolledInv /\ StopInv /\ CircuitInv

-----------------------------------------------------------------------------
\* What the assumption says of the definition of a run.
LEMMA DefFacts ==
  ASSUME SagaTypeOK
  PROVE  /\ Len(def.depends_on) \in Nat /\ Steps = 1..Len(def.depends_on)
         /\ IsFiniteSet(Steps) /\ Cardinality(Steps) = Len(def.depends_on)
         /\ \A i \in Steps : Deps(i) \subseteq Nat
         /\ def.compensable \subseteq Steps
         /\ def.policy \in Policies
         /\ def.max_attempts \in Nat \ {0}
         /\ def.duplicate \in BOOLEAN
         /\ CompAttempts \in Nat \ {0}
<1>1. def \in Sagas
  BY DEF SagaTypeOK
<1>2. def.depends_on \in Seq(SUBSET Nat)
  BY <1>1, SagaAssumption
<1>3. Len(def.depends_on) \in Nat /\ Steps = 1..Len(def.depends_on)
  BY <1>2 DEF Steps
<1>4. IsFiniteSet(Steps) /\ Cardinality(Steps) = Len(def.depends_on)
  BY <1>3, FS_Interval
<1>5. \A i \in Steps : Deps(i) \subseteq Nat
  BY <1>2 DEF Steps, Deps
<1>6. def.compensable \subseteq Steps /\ def.policy \in Policies /\ def.max_attempts \in Nat \ {0}
      /\ def.duplicate \in BOOLEAN
  BY <1>1, SagaAssumption DEF Steps
<1>7. CompAttempts \in Nat \ {0}
  BY <1>6 DEF CompAttempts
<1> QED
  BY <1>3, <1>4, <1>5, <1>6, <1>7

\* The parts of the state the properties of each stage depend on.
ovars == <<def, order>>
rvars == <<def, executed, pc, status, error, rest, settled, failures, rolled>>

\* OrderInv survives whatever leaves the order alone.
LEMMA OrderKept ==
  ASSUME OrderInv, UNCHANGED ovars
  PROVE  OrderInv'
<1>1. Placed' = Placed
  BY DEF ovars, Placed, ToSet
<1>2. \A i : Deps(i)' = Deps(i)
  BY DEF ovars, Deps
<1> QED
  BY <1>1, <1>2 DEF ovars, OrderInv

\* Placing one more step, behind all its dependencies.
LEMMA OrderGrows ==
  ASSUME SagaTypeOK, OrderInv, NEW i \in Frontier(Placed),
         order' = Append(order, i), def' = def
  PROVE  OrderInv' /\ Placed' = Placed \cup {i}
<1>0. order \in Seq(Steps) /\ i \in Steps /\ i \notin Placed /\ Deps(i) \subseteq Placed
  BY DEF SagaTypeOK, Frontier, Deps
<1>1. /\ DOMAIN order = 1..Len(order) /\ Len(order) \in Nat
      /\ DOMAIN order' = 1..(Len(order) + 1) /\ Len(order') = Len(order) + 1
      /\ order'[Len(order) + 1] = i /\ \A k \in DOMAIN order : order'[k] = order[k]
  BY <1>0
<1>2. Placed = {order[k] : k \in DOMAIN order} /\ Placed' = {order'[k] : k \in DOMAIN order'}
  BY DEF Placed, ToSet
<1>3. Placed' = Placed \cup {i}
  BY <1>1, <1>2
<1>4. \A j : Deps(j)' = Deps(j)
  BY DEF Deps
<1>5. \A k, l \in DOMAIN order' : order'[k] = order'[l] => k = l
  <2> SUFFICES ASSUME NEW k \in DOMAIN order', NEW l \in DOMAIN order', order'[k] = order'[l]
               PROVE  k = l
    OBVIOUS
  <2>1. CASE k \in DOMAIN order /\ l \in DOMAIN order
    BY <1>1, <2>1 DEF OrderInv
  <2>2. CASE k = Len(order) + 1 /\ l \in DOMAIN order
    BY <1>0, <1>1, <1>2, <2>2
  <2>3. CASE k \in DOMAIN order /\ l = Len(order) + 1
    BY <1>0, <1>1, <1>2, <2>3
  <2> QED
    BY <1>1, <2>1, <2>2, <2>3
<1>6. \A k \in DOMAIN order' : \A d \in Deps(order[k])' :
        \E m \in DOMAIN order' : m < k /\ order'[m] = d
  <2> SUFFICES ASSUME NEW k \in DOMAIN order', NEW d \in Deps(order'[k])
               PROVE  \E m \in DOMAIN order' : m < k /\ order'[m] = d
    BY <1>4
  <2>1. CASE k \in DOMAIN order
    BY <1>1, <2>1, SMTT(30) DEF OrderInv
  <2>2. CASE k = Len(order) + 1
    BY <1>0, <1>1, <1>2, <2>2
  <2> QED
    BY <1>1, <2>1, <2>2
<1>7. IsFiniteSet(Placed') /\ Cardinality(Placed') = Len(order')
  <2>1. IsFiniteSet(Placed) /\ Cardinality(Placed) = Len(order)
    BY DEF OrderInv
  <2>2. IsFiniteSet(Placed \cup {i}) /\ Cardinality(Placed \cup {i}) = Cardinality(Placed) + 1
    BY <1>0, <2>1, FS_AddElement
  <2> QED
    BY <1>1, <1>3, <2>1, <2>2
<1>8. \A S \in SUBSET (Placed \cup {i}) : S # {} => \E j \in S : Deps(j) \cap S = {}
  <2> SUFFICES ASSUME NEW S \in SUBSET (Placed \cup {i}), S # {}
               PROVE  \E j \in S : Deps(j) \cap S = {}
    OBVIOUS
  <2>1. \A j \in Placed : i \notin Deps(j)
    BY <1>0, <1>2 DEF OrderInv
  <2>2. CASE S \ {i} = {}
    BY <1>0, <2>2
  <2>3. CASE S \ {i} # {}
    <3>1. PICK j \in S \ {i} : Deps(j) \cap (S \ {i}) = {}
      BY <2>3 DEF OrderInv
    <3> QED
      BY <2>1, <3>1
  <2> QED
    BY <2>2, <2>3
<1>9. \A S \in SUBSET Placed' : S # {} => \E j \in S : Deps(j)' \cap S = {}
  BY <1>3, <1>4, <1>8
<1>10. OrderInv'
  BY <1>5, <1>6, <1>7, <1>9 DEF OrderInv
<1> QED
  BY <1>3, <1>10

\* Without edges the insertion order is an order.
LEMMA OrderAsDeclared ==
  ASSUME SagaTypeOK, \A i \in Steps : def.depends_on[i] = {},
         order' = [i \in Steps |-> i], def' = def
  PROVE  OrderInv' /\ Placed' = Steps /\ order' \in Seq(Steps)
         /\ Len(order') = Len(def.depends_on)
<1>1. Len(def.depends_on) \in Nat /\ Steps = 1..Len(def.depends_on)
      /\ IsFiniteSet(Steps) /\ Cardinality(Steps) = Len(def.depends_on)
  BY DefFacts
<1>2. order' \in [1..Len(def.depends_on) -> Steps]
  BY <1>1
<1>3. order' \in Seq(Steps) /\ Len(order') = Len(def.depends_on) /\ DOMAIN order' = Steps
  BY <1>1, <1>2
<1>4. Placed' = Steps
  <2>1. Placed' = {order'[k] : k \in DOMAIN order'}
    BY DEF Placed, ToSet
  <2> QED
    BY <2>1, <1>3
<1>5. \A i \in Steps : Deps(i)' = {}
  BY DEF Deps
<1>6. \A k, l \in DOMAIN order' : order'[k] = order'[l] => k = l
  BY <1>3
<1>7. \A k \in DOMAIN order' : Deps(order[k])' = {}
  BY <1>3, <1>5
<1>8. \A S \in SUBSET Placed' : S # {} => \E i \in S : Deps(i)' \cap S = {}
  BY <1>4, <1>5
<1> QED
  BY <1>1, <1>3, <1>4, <1>6, <1>7, <1>8 DEF OrderInv

-----------------------------------------------------------------------------
(* The steps after the order is known *)

\* The forward pass and the rollback: they leave the definition and the order.
Onward ==
  \/ StopCancelled \/ BeginStep \/ StepOk \/ StepRetry \/ StepFail \/ CompleteRun
  \/ CollectResult
  \/ \E p \in Batch : CompensationOk(p) \/ CompensationRetry(p) \/ CompensationErr(p)
  \/ Cancel

LEMMA NextCases ==
  ASSUME [SagaNext]_sagaVars
  PROVE  ResolveOrder \/ PlaceStep \/ OrderDone \/ Onward \/ UNCHANGED sagaVars
BY DEF SagaNext, Engine, Onward

LEMMA OnwardFrame ==
  ASSUME Onward
  PROVE  UNCHANGED <<def, order, ready>>
BY DEF Onward, StopCancelled, BeginStep, StepOk, StepRetry, StepFail, CompleteRun, CollectResult,
       CompensationOk, CompensationRetry, CompensationErr, Cancel

LEMMA DefKept ==
  ASSUME [SagaNext]_sagaVars
  PROVE  def' = def
<1>1. CASE ResolveOrder
  BY <1>1 DEF ResolveOrder
<1>2. CASE PlaceStep
  BY <1>2 DEF PlaceStep
<1>3. CASE OrderDone
  BY <1>3 DEF OrderDone
<1>4. CASE Onward
  BY <1>4, OnwardFrame
<1>5. CASE UNCHANGED sagaVars
  BY <1>5 DEF sagaVars
<1> QED
  BY <1>1, <1>2, <1>3, <1>4, <1>5, NextCases

\* The derived notions of a definition and an order that stay.
LEMMA OrderFrame ==
  ASSUME def' = def
  PROVE  /\ Steps' = Steps /\ Unservable' = Unservable /\ CompAttempts' = CompAttempts
         /\ \A i : Deps(i)' = Deps(i)
         /\ order' = order => Placed' = Placed /\ Frontier(Placed)' = Frontier(Placed)
<1>1. Steps' = Steps
  BY DEF Steps
<1>2. Unservable' = Unservable
  BY <1>1 DEF Unservable
<1>3. \A i : Deps(i)' = Deps(i)
  BY DEF Deps
<1>4. order' = order => Placed' = Placed
  BY DEF Placed, ToSet
<1>5. order' = order => Frontier(Placed)' = Frontier(Placed)
  BY <1>1, <1>4 DEF Frontier
<1>6. CompAttempts' = CompAttempts
  BY DEF CompAttempts
<1> QED
  BY <1>1, <1>2, <1>3, <1>4, <1>5, <1>6

\* Steps that nothing can place any more wait for each other.
LEMMA StuckIsUnservable ==
  ASSUME SagaTypeOK, \A i \in Steps : Deps(i) \subseteq Steps, Frontier(Placed) = {}, Placed # Steps
  PROVE  Unservable
<1>1. Placed \subseteq Steps
  <2>1. order \in Seq(Steps)
    BY DEF SagaTypeOK
  <2> QED
    BY <2>1 DEF Placed, ToSet
<1> DEFINE S == Steps \ Placed
<1>2. S \in (SUBSET Steps) \ {{}}
  BY <1>1
<1>3. \A i \in S : def.depends_on[i] \cap S # {}
  BY DEF Frontier, Deps
<1> QED
  BY <1>2, <1>3 DEF Unservable

\* A layer that is empty means an order that is complete or cannot be.
LEMMA PlacedAll ==
  ASSUME SagaTypeOK, OrderInv, Len(order) = Len(def.depends_on)
  PROVE  Placed = Steps
<1>1. Placed \subseteq Steps
  <2>1. order \in Seq(Steps)
    BY DEF SagaTypeOK
  <2> QED
    BY <2>1 DEF Placed, ToSet
<1>2. IsFiniteSet(Steps) /\ Cardinality(Steps) = Len(def.depends_on)
  BY DefFacts
<1>3. Cardinality(Placed) = Cardinality(Steps)
  BY <1>2 DEF OrderInv
<1> QED
  BY <1>1, <1>2, <1>3, FS_Subset

LEMMA PlacedSome ==
  ASSUME SagaTypeOK, OrderInv, Len(order) # Len(def.depends_on)
  PROVE  Placed # Steps
BY DefFacts DEF OrderInv

LEMMA OrderStep ==
  ASSUME IInv, [SagaNext]_sagaVars
  PROVE  OrderInv' /\ KahnInv'
<1> USE DEF IInv
<1>0. def' = def
  BY DefKept
<1>1. CASE ResolveOrder
  <2>1. /\ pc = "start" /\ order = <<>> /\ ready = {} /\ executed' = executed /\ executed = <<>>
        /\ status = "Running" /\ error = "None"
    BY <1>1 DEF ResolveOrder, KahnInv, ForwardInv, StatusInv
  <2>2. CASE \A i \in Steps : def.depends_on[i] = {}
    <3>1. order' = [i \in Steps |-> i] /\ pc' = "forward" /\ status' = status /\ error' = error
      BY <1>1, <2>2 DEF ResolveOrder
    <3>2. OrderInv' /\ Placed' = Steps
      BY <1>0, <2>2, <3>1, OrderAsDeclared
    <3>3. Steps' = Steps
      BY <1>0 DEF Steps
    <3> QED
      BY <2>1, <3>1, <3>2, <3>3 DEF KahnInv
  <2>3. CASE ~(\A i \in Steps : def.depends_on[i] = {}) /\ BadNames
    <3>1. order' = order /\ pc' = "done" /\ status' = "Failed" /\ error' = "Definition"
      BY <1>1, <2>3 DEF ResolveOrder, Finish
    <3>2. def.duplicate \/ Unservable
      <4>1. SUFFICES ASSUME ~def.duplicate
                     PROVE  Unservable
        OBVIOUS
      <4>2. PICK i \in Steps : ~(def.depends_on[i] \subseteq Steps \ {i})
        BY <2>3, <4>1 DEF BadNames
      <4>3. {i} \in (SUBSET Steps) \ {{}}
        OBVIOUS
      <4> QED
        BY <4>2, <4>3 DEF Unservable
    <3>3. OrderInv'
      BY <1>0, <3>1, OrderKept DEF ovars
    <3>4. Unservable' = Unservable
      BY <1>0, OrderFrame
    <3> QED
      BY <1>0, <2>1, <3>1, <3>2, <3>3, <3>4 DEF KahnInv
  <2>4. CASE ~(\A i \in Steps : def.depends_on[i] = {}) /\ ~BadNames
    <3>1. order' = order /\ pc' = "ordering" /\ ready' = Frontier({}) /\ status' = status /\ error' = error
      BY <1>1, <2>4 DEF ResolveOrder
    <3>2. \A i \in Steps : Deps(i) \subseteq Steps \ {i}
      BY <2>4 DEF BadNames, Deps
    <3>3. OrderInv'
      BY <1>0, <3>1, OrderKept DEF ovars
    <3>4. Placed = {}
      BY <2>1 DEF Placed, ToSet
    <3>5. Frontier(Placed)' = ready' /\ Steps' = Steps /\ \A i : Deps(i)' = Deps(i)
      BY <1>0, <3>1, <3>4, OrderFrame
    <3> QED
      BY <2>1, <3>1, <3>2, <3>3, <3>5 DEF KahnInv
  <2> QED
    BY <2>2, <2>3, <2>4
<1>2. CASE PlaceStep
  <2>1. PICK i \in ready :
          /\ order' = Append(order, i)
          /\ ready' = IF ready = {i} THEN Frontier(Placed \cup {i}) ELSE ready \ {i}
    BY <1>2 DEF PlaceStep
  <2>2. /\ pc = "ordering" /\ pc' = "ordering" /\ status' = status /\ error' = error
        /\ status = "Running" /\ error = "None"
    BY <1>2 DEF PlaceStep, StatusInv
  <2>3. ready \subseteq Frontier(Placed) /\ \A j \in Steps : Deps(j) \subseteq Steps \ {j}
    BY <2>2 DEF KahnInv
  <2>4. OrderInv' /\ Placed' = Placed \cup {i}
    BY <1>0, <2>1, <2>3, OrderGrows
  <2>5. Steps' = Steps /\ \A j : Deps(j)' = Deps(j)
    BY <1>0, OrderFrame
  <2>6. Frontier(Placed)' = Frontier(Placed \cup {i})
    BY <1>0, <2>4, <2>5 DEF Frontier
  <2>7. ready \ {i} \subseteq Frontier(Placed \cup {i})
    BY <2>3 DEF Frontier
  <2>8. ready' \subseteq Frontier(Placed)' /\ (ready' = {} => Frontier(Placed)' = {})
    <3>1. CASE ready = {i}
      BY <2>1, <2>6, <3>1
    <3>2. CASE ready # {i}
      BY <2>1, <2>6, <2>7, <3>2
    <3> QED
      BY <3>1, <3>2
  <2> QED
    BY <2>2, <2>3, <2>4, <2>5, <2>8 DEF KahnInv
<1>3. CASE OrderDone
  <2>1. /\ pc = "ordering" /\ ready = {} /\ order' = order /\ executed' = executed /\ executed = <<>>
        /\ status = "Running" /\ error = "None"
    BY <1>3 DEF OrderDone, StatusInv, ForwardInv
  <2>2. Frontier(Placed) = {} /\ \A i \in Steps : Deps(i) \subseteq Steps
    BY <2>1 DEF KahnInv
  <2>3. OrderInv' /\ Placed' = Placed /\ Steps' = Steps /\ Unservable' = Unservable
    BY <1>0, <2>1, OrderKept, OrderFrame DEF ovars
  <2>4. CASE Len(order) # Len(def.depends_on)
    <3>1. pc' = "done" /\ status' = "Failed" /\ error' = "Definition"
      BY <1>3, <2>4 DEF OrderDone, Finish
    <3>2. Unservable
      BY <2>2, <2>4, PlacedSome, StuckIsUnservable
    <3> QED
      BY <2>1, <2>3, <3>1, <3>2 DEF KahnInv
  <2>5. CASE Len(order) = Len(def.depends_on)
    <3>1. pc' = "forward" /\ status' = status /\ error' = error
      BY <1>3, <2>5 DEF OrderDone
    <3>2. Placed = Steps
      BY <2>5, PlacedAll
    <3> QED
      BY <2>1, <2>3, <3>1, <3>2 DEF KahnInv
  <2> QED
    BY <2>4, <2>5
<1>4. CASE Onward
  <2>1. UNCHANGED <<def, order, ready>>
    BY <1>4, OnwardFrame
  <2>2. /\ OrderInv' /\ Placed' = Placed /\ Steps' = Steps /\ Unservable' = Unservable
        /\ \A i : Deps(i)' = Deps(i) /\ Frontier(Placed)' = Frontier(Placed)
    BY <2>1, OrderKept, OrderFrame DEF ovars
  <2>3. CASE UNCHANGED <<pc, executed, status, error>>
    BY <2>1, <2>2, <2>3 DEF KahnInv
  <2>4. CASE /\ pc \in {"forward", "step", "compensate"}
             /\ \/ pc' \in {"forward", "step", "compensate"} /\ status' = status /\ error' = error
                \/ pc' = "done" /\ status' \in {"Failed", "Compensated"} /\ error' # "Definition"
    <3>1. Placed = Steps /\ status = "Running" /\ error = "None"
      BY <2>4 DEF KahnInv, StatusInv
    <3> QED
      BY <2>2, <2>4, <3>1 DEF KahnInv
  <2>5. CASE CompleteRun
    <3>1. Placed = Steps
      BY <2>5 DEF KahnInv, CompleteRun
    <3> QED
      BY <2>2, <2>5, <3>1 DEF KahnInv, CompleteRun, Finish
  <2>6. CASE StopCancelled
    BY <2>4, <2>6 DEF StopCancelled, Finish
  <2>7. CASE BeginStep
    BY <2>4, <2>7 DEF BeginStep
  <2>8. CASE StepOk
    BY <2>4, <2>8 DEF StepOk
  <2>9. CASE StepRetry
    BY <2>3, <2>9 DEF StepRetry
  <2>10. CASE StepFail
    BY <2>4, <2>10 DEF StepFail, Finish
  <2>11. CASE CollectResult
    BY <2>4, <2>11 DEF CollectResult, Finish
  <2>12. CASE \E p \in Batch : CompensationOk(p) \/ CompensationRetry(p) \/ CompensationErr(p)
    BY <2>3, <2>12 DEF CompensationOk, CompensationRetry, CompensationErr
  <2>13. CASE Cancel
    BY <2>3, <2>13 DEF Cancel
  <2> QED
    BY <1>4, <2>5, <2>6, <2>7, <2>8, <2>9, <2>10, <2>11, <2>12, <2>13 DEF Onward
<1>5. CASE UNCHANGED sagaVars
  <2>1. UNCHANGED <<def, order, ready, pc, executed, status, error>>
    BY <1>5 DEF sagaVars
  <2>2. /\ OrderInv' /\ Placed' = Placed /\ Steps' = Steps /\ Unservable' = Unservable
        /\ \A i : Deps(i)' = Deps(i) /\ Frontier(Placed)' = Frontier(Placed)
    BY <2>1, OrderKept, OrderFrame DEF ovars
  <2> QED
    BY <2>1, <2>2 DEF KahnInv
<1> QED
  BY <1>1, <1>2, <1>3, <1>4, <1>5, NextCases

-----------------------------------------------------------------------------
(* The forward pass *)

\* The step about to be invoked or being invoked.
LEMMA NextStep ==
  ASSUME SagaTypeOK, Len(executed) < Len(order)
  PROVE  /\ Len(executed) \in Nat /\ Len(executed) + 1 \in DOMAIN order
         /\ order[Len(executed) + 1] \in Steps
BY SMTT(30) DEF SagaTypeOK

LEMMA NextNotExecuted ==
  ASSUME SagaTypeOK, OrderInv, ForwardInv, Len(executed) < Len(order)
  PROVE  order[Len(executed) + 1] \notin Executed
<1> SUFFICES ASSUME NEW k \in DOMAIN executed, executed[k] = order[Len(executed) + 1]
             PROVE  FALSE
  BY DEF Executed, ToSet
<1>1. Len(executed) + 1 \in DOMAIN order
  BY NextStep
<1>t. order \in Seq(Steps) /\ executed \in Seq(Steps)
  BY DEF SagaTypeOK
<1>2. order[k] = order[Len(executed) + 1] /\ k \in DOMAIN order /\ k # Len(executed) + 1
  BY <1>t DEF ForwardInv
<1> QED
  BY <1>1, <1>2 DEF OrderInv

\* An action that is not one of the five of the order and of the forward pass
\* that change what ForwardInv speaks of.
LEMMA ForwardKept ==
  ASSUME SagaTypeOK, ForwardInv, StatusInv, UNCHANGED <<def, order, executed, runs>>,
         \/ UNCHANGED <<pc, attempt, error>>
         \/ /\ pc \in {"step", "compensate"} /\ pc' \in {"compensate", "done"}
            /\ attempt' = 0 /\ error' # "Definition"
         \/ /\ pc = "forward" /\ pc' = "done" /\ attempt' = attempt /\ error' # "Definition"
         \/ /\ pc \in {"start", "ordering"} /\ pc' \in {"ordering", "done"} /\ attempt' = attempt
  PROVE  ForwardInv'
<1>1. Steps' = Steps /\ Executed' = Executed
  BY DEF Steps, Executed, ToSet
<1>2. pc \in {"start", "ordering"} => \A i \in Steps : runs[i] = 0
  <2> SUFFICES ASSUME pc \in {"start", "ordering"}, NEW i \in Steps
               PROVE  runs[i] = 0
    OBVIOUS
  <2>1. executed = <<>>
    BY DEF ForwardInv
  <2>2. i \notin Executed
    BY <2>1 DEF Executed, ToSet
  <2>3. ~(runs[i] > 0) /\ runs[i] \in Nat
    BY <2>2 DEF ForwardInv, SagaTypeOK
  <2> QED
    BY <2>3
<1>3. pc # "step" => attempt = 0
  BY DEF ForwardInv
<1>4. CASE UNCHANGED <<pc, attempt, error>>
  BY <1>1, <1>4 DEF ForwardInv
<1>5. CASE pc \in {"step", "compensate"} /\ pc' \in {"compensate", "done"}
           /\ attempt' = 0 /\ error' # "Definition"
  BY <1>1, <1>5 DEF ForwardInv
<1>6. CASE pc = "forward" /\ pc' = "done" /\ attempt' = attempt /\ error' # "Definition"
  BY <1>1, <1>3, <1>6 DEF ForwardInv
<1>7. CASE pc \in {"start", "ordering"} /\ pc' \in {"ordering", "done"} /\ attempt' = attempt
  BY <1>1, <1>2, <1>3, <1>7 DEF ForwardInv
<1> QED
  BY <1>4, <1>5, <1>6, <1>7

LEMMA ForwardStep ==
  ASSUME IInv, [SagaNext]_sagaVars
  PROVE  ForwardInv' /\ StatusInv'
<1> USE DEF IInv
<1>0. def' = def /\ Steps' = Steps
  BY DefKept, OrderFrame
<1>t. /\ order \in Seq(Steps) /\ executed \in Seq(Steps) /\ runs \in [Steps -> Nat]
      /\ attempt \in Nat /\ def.max_attempts \in Nat \ {0}
  BY DefFacts DEF SagaTypeOK
<1>1. CASE ResolveOrder
  <2>1. StatusInv'
    BY <1>0, <1>1 DEF ResolveOrder, Finish, StatusInv
  <2>2. /\ pc = "start" /\ executed = <<>> /\ order = <<>> /\ attempt = 0 /\ error = "None"
        /\ UNCHANGED <<executed, attempt, runs>>
    BY <1>1 DEF ResolveOrder, ForwardInv, KahnInv, StatusInv
  <2>3. \A i \in Steps : runs[i] = 0
    <3> SUFFICES ASSUME NEW i \in Steps
                 PROVE  runs[i] = 0
      OBVIOUS
    <3>1. i \notin Executed
      BY <2>2 DEF Executed, ToSet
    <3>2. ~(runs[i] > 0)
      BY <2>2, <3>1 DEF ForwardInv
    <3> QED
      BY <3>2, <1>t
  <2>4. CASE \A i \in Steps : def.depends_on[i] = {}
    <3>1. order' = [i \in Steps |-> i] /\ pc' = "forward" /\ error' = error
      BY <1>1, <2>4 DEF ResolveOrder
    <3>2. Len(order') \in Nat
      BY <1>0, <2>4, <3>1, OrderAsDeclared, DefFacts
    <3>3. /\ Len(executed') = 0 /\ DOMAIN executed' = {}
      BY <2>2
    <3>4. \A i \in Steps : runs'[i] = 0
      BY <2>2, <2>3
    <3> HIDE <2>4, <1>1
    <3> QED
      BY <1>0, <1>t, <2>1, <2>2, <3>1, <3>2, <3>3, <3>4 DEF ForwardInv
  <2>5. CASE ~(\A i \in Steps : def.depends_on[i] = {})
    <3>1. order' = order /\ pc' \in {"ordering", "done"}
      BY <1>1, <2>5 DEF ResolveOrder, Finish
    <3> QED
      BY <1>0, <2>1, <2>2, <3>1, ForwardKept
  <2> QED
    BY <2>1, <2>4, <2>5
<1>2. CASE PlaceStep
  <2>1. StatusInv'
    BY <1>0, <1>2 DEF PlaceStep, StatusInv
  <2>2. PICK i \in ready : order' = Append(order, i)
    BY <1>2 DEF PlaceStep
  <2>3. /\ pc = "ordering" /\ executed = <<>> /\ UNCHANGED <<pc, executed, attempt, error, runs>>
        /\ i \in Steps
    BY <1>2 DEF PlaceStep, ForwardInv, SagaTypeOK
  <2>4. Len(order') = Len(order) + 1 /\ Len(order) \in Nat
    BY <1>t, <2>2, <2>3
  <2>5. \A j \in Steps : ~(runs[j] > 0)
    <3>1. Executed = {}
      BY <2>3 DEF Executed, ToSet
    <3> QED
      BY <2>3, <3>1 DEF ForwardInv
  <2> QED
    BY <1>0, <2>1, <2>3, <2>4, <2>5 DEF ForwardInv
<1>3. CASE OrderDone
  <2>1. StatusInv'
    BY <1>0, <1>3 DEF OrderDone, Finish, StatusInv
  <2>2. /\ pc = "ordering" /\ pc' \in {"forward", "done"} /\ attempt = 0 /\ executed = <<>>
        /\ error = "None"
        /\ UNCHANGED <<order, executed, attempt, runs>>
    BY <1>3 DEF OrderDone, Finish, ForwardInv, StatusInv
  <2>3. CASE pc' = "done"
    BY <1>0, <2>1, <2>2, <2>3, ForwardKept
  <2>4. CASE pc' = "forward"
    <3>1. error' = error
      BY <1>3, <2>4 DEF OrderDone, Finish
    <3>2. Executed' = Executed /\ Executed = {}
      BY <2>2 DEF Executed, ToSet
    <3> QED
      BY <1>0, <2>1, <2>2, <2>4, <3>1, <3>2 DEF ForwardInv
  <2> QED
    BY <2>2, <2>3, <2>4
<1>4. CASE StopCancelled
  BY <1>0, <1>4, ForwardKept DEF StopCancelled, Finish, StatusInv
<1>5. CASE BeginStep
  <2> DEFINE x == order[Len(executed) + 1]
  <2>1. /\ pc = "forward" /\ Len(executed) < Len(order) /\ pc' = "step" /\ attempt' = 1
        /\ runs' = [runs EXCEPT ![x] = @ + 1] /\ UNCHANGED <<order, executed, status, error>>
    BY <1>5 DEF BeginStep
  <2>2. StatusInv'
    BY <1>0, <2>1 DEF StatusInv
  <2>3. x \in Steps /\ Len(executed) + 1 \in DOMAIN order /\ Len(executed) \in Nat
    BY <2>1, NextStep
  <2>4. x \notin Executed
    BY <2>1, NextNotExecuted
  <2>5. runs[x] = 0
    BY <1>t, <2>1, <2>3, <2>4 DEF ForwardInv
  <2>6. runs'[x] = 1 /\ \A i \in Steps : i # x => runs'[i] = runs[i]
    BY <1>t, <2>1, <2>3, <2>5
  <2>7. Executed' = Executed /\ error' = "None"
    BY <2>1 DEF Executed, ToSet, StatusInv
  <2>8. \A i \in Steps : runs'[i] <= def.max_attempts /\ (runs'[i] > 0 => i \in Executed \/ i = x)
    BY <1>t, <2>1, <2>6, SMTT(30) DEF ForwardInv
  <2>9. x' = x
    BY <2>1
  <2> HIDE DEF x
  <2> QED
    BY <1>0, <2>1, <2>2, <2>6, <2>7, <2>8, <2>9 DEF ForwardInv, x
<1>6. CASE StepOk
  <2> DEFINE x == order[Len(executed) + 1]
  <2>1. /\ pc = "step" /\ Len(executed) < Len(order) /\ pc' = "forward" /\ attempt' = 0
        /\ executed' = Append(executed, x) /\ UNCHANGED <<order, status, error, runs>>
    BY <1>6 DEF StepOk, ForwardInv
  <2>2. StatusInv' /\ error' = "None"
    BY <1>0, <2>1 DEF StatusInv
  <2>3. x \in Steps /\ Len(executed) \in Nat
    BY <2>1, NextStep
  <2>4. /\ Len(executed') = Len(executed) + 1 /\ DOMAIN executed' = 1..(Len(executed) + 1)
        /\ DOMAIN executed = 1..Len(executed)
        /\ executed'[Len(executed) + 1] = x /\ \A k \in DOMAIN executed : executed'[k] = executed[k]
    BY <1>t, <2>1, <2>3, SMTT(30)
  <2>5. Executed' = Executed \cup {x}
    BY <2>4 DEF Executed, ToSet
  <2>6. \A k \in DOMAIN executed' : executed'[k] = order[k]
    BY <2>3, <2>4 DEF ForwardInv
  <2>7. \A i \in Steps : runs[i] <= def.max_attempts /\ (runs[i] > 0 => i \in Executed \/ i = x)
    BY <2>1 DEF ForwardInv
  <2>8. Len(order) \in Nat
    BY <1>t
  <2> HIDE DEF x
  <2> QED
    BY <1>0, <2>1, <2>2, <2>3, <2>4, <2>5, <2>6, <2>7, <2>8 DEF ForwardInv
<1>7. CASE StepRetry
  <2> DEFINE x == order[Len(executed) + 1]
  <2>1. /\ pc = "step" /\ attempt < def.max_attempts /\ pc' = pc /\ attempt' = attempt + 1
        /\ runs' = [runs EXCEPT ![x] = @ + 1] /\ UNCHANGED <<order, executed, status, error>>
    BY <1>7 DEF StepRetry
  <2>2. Len(executed) < Len(order) /\ runs[x] = attempt /\ attempt >= 1
    BY <2>1 DEF ForwardInv
  <2>3. StatusInv' /\ error' = "None"
    BY <1>0, <2>1 DEF StatusInv
  <2>4. x \in Steps
    BY <2>2, NextStep
  <2>5. runs'[x] = attempt' /\ \A i \in Steps : i # x => runs'[i] = runs[i]
    BY <1>t, <2>1, <2>2, <2>4
  <2>6. Executed' = Executed /\ x' = x
    BY <2>1 DEF Executed, ToSet
  <2>7. \A i \in Steps : runs'[i] <= def.max_attempts /\ (runs'[i] > 0 => i \in Executed \/ i = x)
    BY <1>t, <2>1, <2>5 DEF ForwardInv
  <2>8. attempt' >= 1
    BY <1>t, <2>1, <2>2
  <2> HIDE DEF x
  <2> QED
    BY <1>0, <2>1, <2>2, <2>3, <2>5, <2>6, <2>7, <2>8 DEF ForwardInv, x
<1>8. CASE StepFail
  BY <1>0, <1>8, ForwardKept DEF StepFail, Finish, StatusInv
<1>9. CASE CompleteRun
  BY <1>0, <1>9, ForwardKept DEF CompleteRun, Finish, StatusInv
<1>10. CASE CollectResult
  <2>1. attempt = 0
    BY <1>10 DEF CollectResult, ForwardInv
  <2>2. CASE pc' = pc
    BY <1>0, <1>10, <2>2, ForwardKept DEF CollectResult, Finish, StatusInv
  <2>3. CASE pc' # pc
    BY <1>0, <1>10, <2>1, <2>3, ForwardKept DEF CollectResult, Finish, StatusInv
  <2> QED
    BY <2>2, <2>3
<1>11. CASE \E p \in Batch : CompensationOk(p) \/ CompensationRetry(p) \/ CompensationErr(p)
  BY <1>0, <1>11, ForwardKept DEF CompensationOk, CompensationRetry, CompensationErr, StatusInv
<1>12. CASE Cancel
  BY <1>0, <1>12, ForwardKept DEF Cancel, StatusInv
<1>13. CASE UNCHANGED sagaVars
  BY <1>0, <1>13, ForwardKept DEF sagaVars, StatusInv
<1> QED
  BY <1>1, <1>2, <1>3, <1>4, <1>5, <1>6, <1>7, <1>8, <1>9, <1>10, <1>11, <1>12, <1>13, NextCases DEF Onward

-----------------------------------------------------------------------------
(* Types *)

\* What the rollback reads of the forward pass.
LEMMA PlanFrame ==
  ASSUME UNCHANGED <<def, executed>>
  PROVE  /\ CompOrder' = CompOrder
         /\ rest' = rest => Batch' = Batch
<1>1. CompOrder' = CompOrder
  BY DEF CompOrder
<1>2. rest' = rest => Batch' = Batch
  BY DEF Batch, SameGroup
<1> QED
  BY <1>1, <1>2

LEMMA CompOrderType ==
  ASSUME SagaTypeOK
  PROVE  /\ CompOrder \subseteq DOMAIN executed
         /\ DOMAIN executed = 1..Len(executed) /\ Len(executed) \in Nat
         /\ \A p \in CompOrder : p \in Nat /\ executed[p] \in Steps
<1>1. executed \in Seq(Steps)
  BY DEF SagaTypeOK
<1> QED
  BY <1>1 DEF CompOrder

LEMMA TypeStep ==
  ASSUME IInv, [SagaNext]_sagaVars
  PROVE  SagaTypeOK'
<1> USE DEF IInv
<1>0. def' = def /\ Steps' = Steps /\ CompAttempts' = CompAttempts
  BY DefKept, OrderFrame
<1>1. def.max_attempts \in Nat \ {0} /\ CompAttempts \in Nat \ {0}
  BY DefFacts
<1>2. CASE ResolveOrder
  <2>1. UNCHANGED <<cancelled, executed, attempt, rest, tries, settled, failures, rolled, runs>>
    BY <1>2 DEF ResolveOrder, cvars
  <2>2. CompOrder' = CompOrder
    BY <1>0, <2>1, PlanFrame
  <2>3. Frontier({}) \subseteq Steps
    BY DEF Frontier
  <2>4. order' \in Seq(Steps)
    <3>1. CASE \A i \in Steps : def.depends_on[i] = {}
      <4>1. order' = [i \in Steps |-> i]
        BY <1>2, <3>1 DEF ResolveOrder
      <4> QED
        BY <1>0, <3>1, <4>1, OrderAsDeclared
    <3>2. CASE ~(\A i \in Steps : def.depends_on[i] = {})
      BY <1>2, <3>2 DEF ResolveOrder, SagaTypeOK
    <3> QED
      BY <3>1, <3>2
  <2>5. /\ pc' \in {"forward", "ordering", "done"}
        /\ status' \in {"Running", "Completed", "Compensated", "Failed"}
        /\ error' \in {"None", "Definition", "Cancelled", "Step", "Compensation"}
        /\ ready' \subseteq Steps
    BY <1>2, <2>3 DEF ResolveOrder, Finish, SagaTypeOK
  <2> QED
    BY <1>0, <2>1, <2>2, <2>4, <2>5 DEF SagaTypeOK
<1>3. CASE PlaceStep
  <2>1. UNCHANGED <<cancelled, pc, executed, attempt, rest, tries, settled, failures, rolled, runs, status, error>>
    BY <1>3 DEF PlaceStep, cvars
  <2>2. CompOrder' = CompOrder
    BY <1>0, <2>1, PlanFrame
  <2>3. order' \in Seq(Steps) /\ ready' \subseteq Steps
    <3>1. PICK i \in ready :
            /\ order' = Append(order, i)
            /\ ready' = IF ready = {i} THEN Frontier(Placed \cup {i}) ELSE ready \ {i}
      BY <1>3 DEF PlaceStep
    <3>2. i \in Steps /\ order \in Seq(Steps) /\ ready \subseteq Steps
      BY DEF SagaTypeOK
    <3> QED
      BY <3>1, <3>2 DEF Frontier
  <2> QED
    BY <1>0, <2>1, <2>2, <2>3 DEF SagaTypeOK
<1>4. CASE OrderDone
  <2>1. UNCHANGED <<cancelled, order, ready, executed, attempt, rest, tries, settled, failures, rolled, runs>>
    BY <1>4 DEF OrderDone, cvars
  <2>2. CompOrder' = CompOrder
    BY <1>0, <2>1, PlanFrame
  <2>3. /\ pc' \in {"forward", "ordering", "done"}
        /\ status' \in {"Running", "Completed", "Compensated", "Failed"}
        /\ error' \in {"None", "Definition", "Cancelled", "Step", "Compensation"}
    BY <1>4 DEF OrderDone, Finish, SagaTypeOK
  <2> QED
    BY <1>0, <2>1, <2>2, <2>3 DEF SagaTypeOK
<1>5. CASE StopCancelled \/ CompleteRun
  <2>1. UNCHANGED <<cancelled, order, ready, executed, attempt, rest, tries, settled, failures, rolled, runs>>
    BY <1>5 DEF StopCancelled, CompleteRun, cvars
  <2>2. CompOrder' = CompOrder
    BY <1>0, <2>1, PlanFrame
  <2> QED
    BY <1>0, <1>5, <2>1, <2>2 DEF SagaTypeOK, StopCancelled, CompleteRun, Finish
<1>6. CASE BeginStep \/ StepRetry
  <2>1. UNCHANGED <<cancelled, order, ready, executed, rest, tries, settled, failures, rolled, status, error>>
    BY <1>6 DEF BeginStep, StepRetry, cvars
  <2>2. CompOrder' = CompOrder
    BY <1>0, <2>1, PlanFrame
  <2>3. Len(executed) < Len(order)
    BY <1>6 DEF BeginStep, StepRetry, ForwardInv
  <2>4. order[Len(executed) + 1] \in Steps
    BY <2>3, NextStep
  <2>5. runs' = [runs EXCEPT ![order[Len(executed) + 1]] = @ + 1] /\ pc' = "step"
    BY <1>6 DEF BeginStep, StepRetry
  <2>6. runs' \in [Steps -> Nat]
    BY <2>4, <2>5, SMTT(30) DEF SagaTypeOK
  <2>7. attempt' \in 0..def.max_attempts
    BY <1>1, <1>6 DEF BeginStep, StepRetry, SagaTypeOK
  <2> QED
    BY <1>0, <2>1, <2>2, <2>5, <2>6, <2>7 DEF SagaTypeOK
<1>7. CASE StepOk
  <2>1. UNCHANGED <<cancelled, order, ready, rest, tries, settled, failures, rolled, status, error, runs>>
        /\ pc' = "forward" /\ attempt' = 0
    BY <1>7 DEF StepOk, cvars
  <2>2. Len(executed) < Len(order) /\ DOMAIN settled = {}
    BY <1>7 DEF StepOk, ForwardInv, RollbackInv
  <2>3. order[Len(executed) + 1] \in Steps
    BY <2>2, NextStep
  <2>4. executed' \in Seq(Steps)
    BY <1>7, <2>3 DEF StepOk, SagaTypeOK
  <2> QED
    BY <1>0, <1>1, <2>1, <2>2, <2>4 DEF SagaTypeOK
<1>8. CASE StepFail
  <2>1. UNCHANGED <<cancelled, order, ready, executed, failures, rolled, runs>> /\ attempt' = 0
    BY <1>8 DEF StepFail
  <2>2. CompOrder' = CompOrder
    BY <1>0, <2>1, PlanFrame
  <2>3. /\ pc' \in {"compensate", "done"}
        /\ status' \in {"Running", "Completed", "Compensated", "Failed"}
        /\ error' \in {"None", "Definition", "Cancelled", "Step", "Compensation"}
    BY <1>8 DEF StepFail, Finish, SagaTypeOK
  <2>4. CASE CompOrder = {}
    BY <1>0, <1>1, <1>8, <2>1, <2>2, <2>3, <2>4 DEF StepFail, SagaTypeOK
  <2>5. CASE CompOrder # {}
    <3>1. /\ rest' = CompOrder /\ tries' = [p \in CompOrder |-> 1]
          /\ settled' = [p \in CompOrder |-> "pending"]
      BY <1>8, <2>5 DEF StepFail
    <3>2. DOMAIN settled' = CompOrder /\ settled' \in [CompOrder -> {"pending", "ok", "err"}]
      BY <3>1
    <3>3. tries' \in [CompOrder -> 1..CompAttempts]
      BY <1>1, <3>1
    <3> QED
      BY <1>0, <1>1, <2>1, <2>2, <2>3, <3>1, <3>2, <3>3 DEF SagaTypeOK
  <2> QED
    BY <2>4, <2>5
<1>9. CASE CollectResult
  <2>1. UNCHANGED <<cancelled, order, ready, executed, attempt, tries, settled, runs>>
    BY <1>9 DEF CollectResult
  <2>2. CompOrder' = CompOrder
    BY <1>0, <2>1, PlanFrame
  <2>3. PICK p \in rest :
          /\ rest' = rest \ {p}
          /\ rolled' = IF settled[p] = "err" THEN rolled ELSE Append(rolled, executed[p])
          /\ failures' = FailureCount(settled[p] = "err")
    BY <1>9 DEF CollectResult
  <2>4. executed[p] \in Steps
    BY CompOrderType DEF SagaTypeOK
  <2>5. rolled' \in Seq(Steps)
    BY <2>3, <2>4 DEF SagaTypeOK
  <2>6. failures' \in Nat
    BY <2>3 DEF SagaTypeOK, FailureCount
  <2>7. /\ pc' \in {"compensate", "done"}
        /\ status' \in {"Running", "Completed", "Compensated", "Failed"}
        /\ error' \in {"None", "Definition", "Cancelled", "Step", "Compensation"}
    BY <1>9 DEF CollectResult, Finish, SagaTypeOK
  <2> QED
    BY <1>0, <2>1, <2>2, <2>3, <2>5, <2>6, <2>7 DEF SagaTypeOK
<1>10. ASSUME NEW p \in Batch, CompensationOk(p) \/ CompensationErr(p)
       PROVE  SagaTypeOK'
  <2>1. UNCHANGED <<cancelled, pc, order, ready, executed, attempt, rest, tries, failures, rolled, status, error, runs>>
    BY <1>10 DEF CompensationOk, CompensationErr
  <2>2. CompOrder' = CompOrder
    BY <1>0, <2>1, PlanFrame
  <2>3. \E r \in {"ok", "err"} : settled' = [settled EXCEPT ![p] = r]
    BY <1>10 DEF CompensationOk, CompensationErr
  <2>4. DOMAIN settled' = DOMAIN settled /\ settled' \in [DOMAIN settled -> {"pending", "ok", "err"}]
    BY <2>3 DEF SagaTypeOK
  <2> QED
    BY <1>0, <2>1, <2>2, <2>4 DEF SagaTypeOK
<1>11. ASSUME NEW p \in Batch, CompensationRetry(p)
       PROVE  SagaTypeOK'
  <2>1. UNCHANGED <<cancelled, pc, order, ready, executed, attempt, rest, settled, failures, rolled, status, error, runs>>
    BY <1>11 DEF CompensationRetry
  <2>2. CompOrder' = CompOrder
    BY <1>0, <2>1, PlanFrame
  <2>3. p \in DOMAIN settled
    BY DEF Batch, SagaTypeOK
  <2>4. tries' \in [DOMAIN settled -> 1..CompAttempts]
    BY <1>1, <1>11, <2>3 DEF CompensationRetry, SagaTypeOK
  <2> QED
    BY <1>0, <2>1, <2>2, <2>4 DEF SagaTypeOK
<1>12. CASE Cancel \/ UNCHANGED sagaVars
  <2>1. UNCHANGED <<pc, order, ready, executed, attempt, rest, tries, settled, failures, rolled, status, error, runs>>
        /\ cancelled' \in BOOLEAN
    BY <1>12 DEF Cancel, sagaVars, cvars, SagaTypeOK
  <2>2. CompOrder' = CompOrder
    BY <1>0, <2>1, PlanFrame
  <2> QED
    BY <1>0, <2>1, <2>2 DEF SagaTypeOK
<1> QED
  BY <1>2, <1>3, <1>4, <1>5, <1>6, <1>7, <1>8, <1>9, <1>10, <1>11, <1>12, NextCases DEF Onward

-----------------------------------------------------------------------------
(* The rollback *)

RollbackPart == RollbackInv /\ RolledInv /\ StopInv /\ CircuitInv

\* Positions are numbers.
LEMMA PositionType ==
  ASSUME SagaTypeOK
  PROVE  /\ DOMAIN settled \subseteq Nat /\ rest \subseteq DOMAIN settled /\ Collected \subseteq DOMAIN settled
         /\ \A p \in DOMAIN settled : /\ settled[p] \in {"pending", "ok", "err"}
                                       /\ p \in DOMAIN executed /\ executed[p] \in Steps
<1>1. CompOrder \subseteq DOMAIN executed /\ \A p \in CompOrder : p \in Nat /\ executed[p] \in Steps
  BY CompOrderType
<1>2. DOMAIN settled \subseteq CompOrder /\ rest \subseteq DOMAIN settled
  BY DEF SagaTypeOK
<1>3. \A p \in DOMAIN settled : settled[p] \in {"pending", "ok", "err"}
  BY DEF SagaTypeOK
<1> QED
  BY <1>1, <1>2, <1>3 DEF Collected

LEMMA RolledKept ==
  ASSUME RolledInv, UNCHANGED <<executed, rolled>>, OkCollected' = OkCollected
  PROVE  RolledInv'
<1>1. ToSet(rolled)' = ToSet(rolled)
  BY DEF ToSet
<1>2. ToSet(rolled)' = {executed'[p] : p \in OkCollected'}
  BY <1>1 DEF RolledInv
<1>3. IsFiniteSet(OkCollected') /\ Len(rolled') = Cardinality(OkCollected')
  BY DEF RolledInv
<1>4. \A k, l \in DOMAIN rolled' :
        k < l => \E m, n \in DOMAIN executed' :
                   m > n /\ executed'[m] = rolled'[k] /\ executed'[n] = rolled'[l]
  BY DEF RolledInv
<1> QED
  BY <1>2, <1>3, <1>4 DEF RolledInv

LEMMA RollbackKept ==
  ASSUME RollbackPart, UNCHANGED rvars
  PROVE  RollbackPart'
<1>1. UNCHANGED <<def, executed, pc, status, error, rest, settled, failures, rolled>>
  BY DEF rvars
<1>2. CompOrder' = CompOrder /\ Batch' = Batch
  BY <1>1, PlanFrame
<1>3. Collected' = Collected /\ OkCollected' = OkCollected
  BY <1>1 DEF Collected, OkCollected
<1>4. RollbackInv'
  BY <1>1, <1>2, <1>3 DEF RollbackPart, RollbackInv
<1>5. RolledInv'
  BY <1>1, <1>3, RolledKept DEF RollbackPart
<1>6. StopInv'
  BY <1>1, <1>3 DEF RollbackPart, StopInv
<1>7. CircuitInv'
  BY <1>1, <1>3 DEF RollbackPart, CircuitInv, OneFailed, TwoFailed, Latest, Third
<1> QED
  BY <1>4, <1>5, <1>6, <1>7 DEF RollbackPart

\* Nothing is rolled back, yet or at all.
LEMMA NothingCollected ==
  ASSUME (DOMAIN settled)' = rest', rolled' = <<>>, failures' = 0, pc' # "done" \/ rest' = {},
         error' # "Compensation"
  PROVE  RolledInv' /\ StopInv' /\ CircuitInv'
<1>1. Collected' = {} /\ OkCollected' = {}
  BY DEF Collected, OkCollected
<1>2. ToSet(rolled)' = {} /\ Len(rolled)' = 0 /\ DOMAIN rolled' = {}
  BY DEF ToSet
<1>3. IsFiniteSet({}) /\ Cardinality({}) = 0
  BY FS_EmptySet
<1>4. RolledInv'
  BY <1>1, <1>2, <1>3 DEF RolledInv
<1>5. StopInv'
  BY <1>1 DEF StopInv
<1>6. CircuitInv'
  BY <1>1 DEF CircuitInv
<1> QED
  BY <1>4, <1>5, <1>6

LEMMA RollbackIdle ==
  ASSUME RollbackInv, StatusInv, def' = def, UNCHANGED <<rest, settled, failures, rolled>>,
         pc \in {"start", "ordering", "forward", "step"},
         \/ pc' \in {"start", "ordering", "forward", "step"} /\ status' = "Running"
         \/ pc' = "done" /\ status' \in {"Completed", "Failed"}
         \/ pc' = "done" /\ status' = "Compensated" /\ CompOrder' = {},
         error' # "Compensation"
  PROVE  RollbackPart'
<1>1. DOMAIN settled = {} /\ rest = {} /\ rolled = <<>> /\ failures = 0
  BY DEF RollbackInv
<1>2. RolledInv' /\ StopInv' /\ CircuitInv'
  BY <1>1, NothingCollected
<1>3. RollbackInv'
  BY <1>1 DEF RollbackInv, Collected
<1> QED
  BY <1>2, <1>3 DEF RollbackPart

\* The result of a compensation arrives: nothing that was collected changes.
LEMMA RollbackSettles ==
  ASSUME SagaTypeOK, RollbackPart, NEW p \in Batch, NEW r \in {"ok", "err"},
         pc = "compensate", settled[p] = "pending",
         settled' = [settled EXCEPT ![p] = r],
         UNCHANGED <<def, executed, pc, status, error, rest, failures, rolled>>
  PROVE  RollbackPart'
<1>0. p \in rest /\ rest \subseteq DOMAIN settled /\ DOMAIN settled \subseteq Nat
      /\ Collected \subseteq DOMAIN settled
  BY PositionType DEF Batch
<1>1. CompOrder' = CompOrder /\ Batch' = Batch
  BY PlanFrame
<1>2. DOMAIN settled' = DOMAIN settled /\ Collected' = Collected
  BY DEF Collected
<1>3. p \notin Collected /\ \A q \in DOMAIN settled : q # p => settled'[q] = settled[q]
  BY <1>0 DEF Collected
<1>4. settled'[p] = r
  BY <1>0
<1>5. RollbackInv'
  BY <1>0, <1>1, <1>2, <1>3, <1>4 DEF RollbackPart, RollbackInv
<1>6. OkCollected' = OkCollected
  BY <1>0, <1>2, <1>3 DEF OkCollected
<1>7. RolledInv'
  BY <1>6, RolledKept DEF RollbackPart
<1>8. StopInv'
  BY <1>0, <1>2, <1>3 DEF RollbackPart, StopInv
<1>9. \A q \in Collected : /\ Latest(q)' = Latest(q) /\ OneFailed(q)' = OneFailed(q)
                           /\ \A b \in Collected : TwoFailed(b, q)' = TwoFailed(b, q)
  BY <1>0, <1>2, <1>3 DEF Latest, OneFailed, TwoFailed
<1>10. \A q \in Collected : Third(q)' = Third(q)
  <2> SUFFICES ASSUME NEW q \in Collected
               PROVE  Third(q)' = Third(q)
    OBVIOUS
  <2>1. p < q
    BY <1>0 DEF RollbackPart, RollbackInv
  <2>2. q \in Nat /\ p \in Nat
    BY <1>0
  <2>3. \A a \in DOMAIN settled : a >= q => settled'[a] = settled[a]
    BY <1>0, <1>3, <2>1, <2>2
  <2>4. q \in DOMAIN settled
    BY <1>0
  <2> QED
    BY <1>0, <1>2, <2>2, <2>3, <2>4 DEF Third
<1>11. CircuitInv'
  BY <1>2, <1>9, <1>10 DEF RollbackPart, CircuitInv
<1> QED
  BY <1>5, <1>7, <1>8, <1>11 DEF RollbackPart

-----------------------------------------------------------------------------
(* Collecting one more result *)

\* p is the last executed of the positions left, its result is in and is
\* collected; what ends the rollback is in the definition of CollectResult.
Collects(p) ==
  /\ p \in rest /\ \A q \in rest : q <= p
  /\ pc = "compensate" /\ p \in Batch /\ settled[p] \in {"ok", "err"}
  /\ rest' = rest \ {p}
  /\ rolled' = IF settled[p] = "err" THEN rolled ELSE Append(rolled, executed[p])
  /\ failures' = IF settled[p] = "err" THEN failures + 1 ELSE 0
  /\ IF Halts(settled[p] = "err") \/ rest = {p}
     THEN /\ pc' = "done" /\ status' = "Compensated"
          /\ error' = IF def.policy = "StopOnError" /\ settled[p] = "err" THEN "Compensation" ELSE "Step"
     ELSE UNCHANGED <<pc, status, error>>
  /\ UNCHANGED <<def, executed, settled>>

LEMMA CollectCases ==
  ASSUME SagaTypeOK, CollectResult
  PROVE  \E p \in rest : Collects(p)
<1>1. PICK p \in rest :
        /\ \A q \in rest : q <= p
        /\ rest' = rest \ {p}
        /\ rolled' = IF settled[p] = "err" THEN rolled ELSE Append(rolled, executed[p])
        /\ failures' = FailureCount(settled[p] = "err")
        /\ IF Halts(settled[p] = "err") \/ rest = {p}
           THEN Finish("Compensated",
                       IF def.policy = "StopOnError" /\ settled[p] = "err" THEN "Compensation" ELSE "Step")
           ELSE UNCHANGED <<pc, status, error>>
  BY DEF CollectResult
<1>2. p \in Batch
  <2>1. \A q \in rest : ~(q > p)
    BY <1>1, PositionType
  <2> QED
    BY <2>1 DEF Batch
<1>3. settled[p] \in {"ok", "err"} /\ pc = "compensate" /\ UNCHANGED <<def, executed, settled>>
  BY <1>2, PositionType DEF CollectResult
<1> QED
  BY <1>1, <1>2, <1>3 DEF Collects, Finish, FailureCount

\* p joins the collected positions, below all others and above what is left.
LEMMA CollectFacts ==
  ASSUME SagaTypeOK, RollbackInv, NEW p \in rest, Collects(p)
  PROVE  /\ p \in Nat /\ p \notin Collected
         /\ Collected' = Collected \cup {p}
         /\ \A q \in Collected : p < q
         /\ \A q \in rest' : q < p
         /\ DOMAIN settled \subseteq Nat
         /\ Collected \subseteq DOMAIN settled /\ rest \subseteq DOMAIN settled
<1>1. /\ DOMAIN settled \subseteq Nat /\ rest \subseteq DOMAIN settled
      /\ Collected \subseteq DOMAIN settled
  BY PositionType
<1>2. rest' = rest \ {p} /\ settled' = settled /\ \A q \in rest : q <= p
  BY DEF Collects
<1>3. Collected' = Collected \cup {p} /\ p \notin Collected
  BY <1>1, <1>2 DEF Collected
<1>4. \A q \in Collected : p < q
  BY DEF RollbackInv
<1>5. \A q \in rest' : q < p
  BY <1>1, <1>2
<1> QED
  BY <1>1, <1>3, <1>4, <1>5

LEMMA CollectRollback ==
  ASSUME SagaTypeOK, StatusInv, RollbackInv, NEW p \in rest, Collects(p)
  PROVE  RollbackInv'
<1>1. /\ p \in Nat /\ Collected' = Collected \cup {p}
      /\ \A q \in Collected : p < q
      /\ \A q \in rest' : q < p
      /\ DOMAIN settled \subseteq Nat /\ rest \subseteq DOMAIN settled
  BY CollectFacts
<1>2. /\ rest' = rest \ {p} /\ UNCHANGED <<def, executed, settled>>
      /\ pc = "compensate" /\ settled[p] # "pending"
      /\ \/ pc' = "done" /\ status' = "Compensated"
         \/ pc' = pc /\ status' = status /\ rest # {p}
      /\ status = "Running"
  BY DEF Collects, StatusInv
<1>3. CompOrder' = CompOrder
  BY <1>2, PlanFrame
<1>4. DOMAIN settled' = CompOrder'
  BY <1>2, <1>3 DEF RollbackInv
<1>5. \A q \in Collected' : settled'[q] # "pending" /\ \A s \in rest' : s < q
  BY <1>1, <1>2 DEF RollbackInv
<1>6. pc' = "done" /\ rest' # {} => def.policy \in {"StopOnError", "CircuitBreaker"}
  BY <1>2 DEF Collects, Halts
<1>7. \A q \in rest' : settled'[q] # "pending" => q \in Batch' /\ pc' = "compensate"
  <2> SUFFICES ASSUME NEW q \in rest', settled'[q] # "pending"
               PROVE  q \in Batch' /\ pc' = "compensate"
    OBVIOUS
  <2>1. q \in rest /\ q \in Batch /\ q < p
    BY <1>1, <1>2 DEF RollbackInv
  <2>2. q \in Batch'
    BY <1>2, <2>1 DEF Batch, SameGroup
  <2>3. def.policy \in {"BestEffortParallel", "GroupedParallel"}
    <3>1. p > q
      BY <1>1, <1>2, <2>1
    <3> QED
      BY <2>1, <3>1 DEF Batch
  <2>4. pc' # "done"
    BY <1>6, <2>3
  <2> QED
    BY <1>2, <2>2, <2>4
<1>8. pc' = "compensate" => rest' # {}
  BY <1>2
<1>9. ~(pc' \in {"start", "ordering", "forward", "step"} \/ status' \in {"Completed", "Failed"})
  BY <1>2
<1> QED
  BY <1>2, <1>4, <1>5, <1>6, <1>7, <1>8, <1>9 DEF RollbackInv

LEMMA CollectRolled ==
  ASSUME SagaTypeOK, RollbackInv, RolledInv, NEW p \in rest, Collects(p)
  PROVE  RolledInv'
<1>1. /\ p \in Nat /\ Collected' = Collected \cup {p} /\ p \notin Collected
      /\ \A q \in Collected : p < q
      /\ DOMAIN settled \subseteq Nat /\ Collected \subseteq DOMAIN settled /\ rest \subseteq DOMAIN settled
  BY CollectFacts
<1>2. UNCHANGED <<executed, settled>> /\ settled[p] \in {"ok", "err"}
  BY DEF Collects
<1>3. CASE settled[p] = "err"
  <2>1. OkCollected' = OkCollected
    BY <1>1, <1>2, <1>3 DEF OkCollected
  <2>2. rolled' = rolled
    BY <1>3 DEF Collects
  <2> QED
    BY <1>2, <2>1, <2>2, RolledKept
<1>4. CASE settled[p] = "ok"
  <2>1. OkCollected' = OkCollected \cup {p} /\ p \notin OkCollected
    BY <1>1, <1>2, <1>4 DEF OkCollected
  <2>2. rolled' = Append(rolled, executed[p]) /\ rolled \in Seq(Steps) /\ executed[p] \in Steps
        /\ p \in DOMAIN executed
    BY <1>1, <1>4, PositionType DEF Collects, SagaTypeOK
  <2>3. /\ Len(rolled) \in Nat /\ DOMAIN rolled = 1..Len(rolled)
        /\ Len(rolled') = Len(rolled) + 1 /\ DOMAIN rolled' = 1..(Len(rolled) + 1)
        /\ rolled'[Len(rolled) + 1] = executed[p]
        /\ \A k \in DOMAIN rolled : rolled'[k] = rolled[k]
    BY <2>2
  <2>4. ToSet(rolled) = {rolled[k] : k \in DOMAIN rolled}
        /\ ToSet(rolled)' = {rolled'[k] : k \in DOMAIN rolled'}
    BY DEF ToSet
  <2>5. ToSet(rolled)' = ToSet(rolled) \cup {executed[p]}
    BY <2>3, <2>4
  <2>6. ToSet(rolled)' = {executed'[q] : q \in OkCollected'}
    BY <1>2, <2>1, <2>5 DEF RolledInv
  <2>7. IsFiniteSet(OkCollected') /\ Len(rolled') = Cardinality(OkCollected')
    <3>1. IsFiniteSet(OkCollected) /\ Len(rolled) = Cardinality(OkCollected)
      BY DEF RolledInv
    <3>2. /\ IsFiniteSet(OkCollected \cup {p})
          /\ Cardinality(OkCollected \cup {p}) = Cardinality(OkCollected) + 1
      BY <2>1, <3>1, FS_AddElement
    <3> QED
      BY <2>1, <2>3, <3>1, <3>2
  <2>8. \A k \in DOMAIN rolled : \E m \in DOMAIN executed : m > p /\ executed[m] = rolled[k]
    <3> SUFFICES ASSUME NEW k \in DOMAIN rolled
                 PROVE  \E m \in DOMAIN executed : m > p /\ executed[m] = rolled[k]
      OBVIOUS
    <3>0. rolled[k] \in ToSet(rolled) /\ ToSet(rolled) = {executed[m] : m \in OkCollected}
      BY <2>4 DEF RolledInv
    <3>1. PICK m \in OkCollected : executed[m] = rolled[k]
      BY <3>0
    <3>2. m \in Collected
      BY DEF OkCollected
    <3>3. m \in DOMAIN executed /\ m \in Nat /\ p < m
      BY <1>1, <3>2, PositionType
    <3> QED
      BY <1>1, <3>1, <3>3
  <2>9. \A k, l \in DOMAIN rolled' :
          k < l => \E m, n \in DOMAIN executed' :
                     m > n /\ executed'[m] = rolled'[k] /\ executed'[n] = rolled'[l]
    <3> SUFFICES ASSUME NEW k \in DOMAIN rolled', NEW l \in DOMAIN rolled', k < l
                 PROVE  \E m, n \in DOMAIN executed :
                          m > n /\ executed[m] = rolled'[k] /\ executed[n] = rolled'[l]
      BY <1>2
    <3>1. k \in DOMAIN rolled
      BY <2>3
    <3>2. CASE l \in DOMAIN rolled
      BY <2>3, <3>1, <3>2 DEF RolledInv
    <3>3. CASE l = Len(rolled) + 1
      BY <2>2, <2>3, <2>8, <3>1, <3>3
    <3> QED
      BY <2>3, <3>2, <3>3
  <2> QED
    BY <2>6, <2>7, <2>9 DEF RolledInv
<1> QED
  BY <1>2, <1>3, <1>4

LEMMA CollectStop ==
  ASSUME SagaTypeOK, StatusInv, RollbackInv, StopInv, NEW p \in rest, Collects(p)
  PROVE  StopInv'
<1> SUFFICES ASSUME def.policy = "StopOnError"
             PROVE  StopInv'
  BY DEF StopInv, Collects
<1>1. /\ p \in Nat /\ Collected' = Collected \cup {p}
      /\ \A q \in Collected : p < q
      /\ DOMAIN settled \subseteq Nat /\ Collected \subseteq DOMAIN settled
  BY CollectFacts
<1>2. /\ settled' = settled /\ error = "None" /\ rest' = rest \ {p}
      /\ settled[p] = "err" => pc' = "done" /\ error' = "Compensation"
      /\ settled[p] # "err" => (pc' = "done" => rest = {p}) /\ error' # "Compensation"
  BY DEF Collects, StatusInv, Halts
<1>3. \A q \in Collected : settled[q] # "err"
  BY <1>2 DEF StopInv
<1>4. \A q \in Collected' : settled'[q] = "err" =>
        error' = "Compensation" /\ \A s \in Collected' : q <= s
  BY <1>1, <1>2, <1>3
<1>5. error' = "Compensation" => \E q \in Collected' : settled'[q] = "err"
  BY <1>1, <1>2
<1>6. pc' = "done" /\ rest' # {} => error' = "Compensation"
  BY <1>2
<1> QED
  BY <1>4, <1>5, <1>6 DEF StopInv

\* The counter of consecutive failures, one result later.
LEMMA CollectCircuit ==
  ASSUME SagaTypeOK, StatusInv, RollbackInv, CircuitInv, NEW p \in rest, Collects(p)
  PROVE  CircuitInv'
<1> SUFFICES ASSUME def.policy = "CircuitBreaker"
             PROVE  CircuitInv'
  BY DEF CircuitInv, Collects
<1>1. /\ p \in Nat /\ Collected' = Collected \cup {p} /\ p \notin Collected
      /\ \A q \in Collected : p < q
      /\ \A q \in rest' : q < p
      /\ DOMAIN settled \subseteq Nat /\ Collected \subseteq DOMAIN settled /\ rest \subseteq DOMAIN settled
  BY CollectFacts
<1>2. /\ settled' = settled /\ def' = def /\ rest' = rest \ {p} /\ pc = "compensate" /\ failures \in Nat
      /\ failures' = IF settled[p] = "err" THEN failures + 1 ELSE 0
      /\ pc' = IF failures' >= 3 \/ rest = {p} THEN "done" ELSE "compensate"
      /\ failures < 3
  BY DEF Collects, Halts, FailureCount, CIRCUIT_BREAKER_THRESHOLD, SagaTypeOK, CircuitInv
<1>3. \A q \in Collected' : q \in Nat
  BY <1>1
<1>4. Latest(p)'
  BY <1>1 DEF Latest
<1>5. \A q \in Collected' : Latest(q)' <=> q = p
  BY <1>1, <1>3, <1>4 DEF Latest
<1>6. \A q \in Collected' : OneFailed(q)' <=> q = p /\ settled[p] = "err"
  BY <1>2, <1>5 DEF OneFailed
<1>7. \A b \in Collected' : TwoFailed(b, p)' <=> OneFailed(b) /\ settled[p] = "err"
  <2> SUFFICES ASSUME NEW b \in Collected'
               PROVE  TwoFailed(b, p)' <=> OneFailed(b) /\ settled[p] = "err"
    OBVIOUS
  <2>1. TwoFailed(b, p)' <=>
          /\ settled[p] = "err" /\ b > p /\ settled[b] = "err"
          /\ \A q \in Collected' : q > p => b <= q
    BY <1>1, <1>2, <1>6 DEF TwoFailed
  <2>2. \A q \in Collected' : q > p <=> q \in Collected
    BY <1>1
  <2> QED
    BY <1>1, <2>1, <2>2 DEF OneFailed, Latest
<1>9. Third(p)' = Third(p) /\ \A q \in Collected : Third(q)' = Third(q)
  BY <1>2 DEF Third
<1>10. Third(p) => settled[p] = "err" /\ \E a, b \in Collected : TwoFailed(a, b)
  <2> SUFFICES ASSUME Third(p)
               PROVE  settled[p] = "err" /\ \E a, b \in Collected : TwoFailed(a, b)
    OBVIOUS
  <2>1. PICK a \in DOMAIN settled, b \in DOMAIN settled :
          /\ a > b /\ b > p
          /\ settled[a] = "err" /\ settled[b] = "err" /\ settled[p] = "err"
          /\ \A q \in DOMAIN settled : p <= q /\ q <= a => q \in {a, b, p}
    BY DEF Third
  <2>2. a \in Nat /\ b \in Nat /\ a > p
    BY <1>1, <2>1
  <2>3. a \in Collected /\ b \in Collected
    BY <1>1, <1>2, <2>1, <2>2 DEF Collected
  <2>4. \A q \in Collected : b <= q /\ (q > b => a <= q)
    <3> SUFFICES ASSUME NEW q \in Collected
                 PROVE  b <= q /\ (q > b => a <= q)
      OBVIOUS
    <3>1. q \in Nat /\ p < q /\ q \in DOMAIN settled
      BY <1>1
    <3>2. q <= a => q \in {a, b}
      BY <1>1, <2>1, <3>1
    <3> QED
      BY <2>1, <2>2, <3>1, <3>2
  <2>5. TwoFailed(a, b)
    BY <2>1, <2>3, <2>4 DEF TwoFailed, OneFailed, Latest
  <2> QED
    BY <2>1, <2>3, <2>5
<1>11. ASSUME settled[p] = "err", NEW a \in Collected, NEW b \in Collected, TwoFailed(a, b)
       PROVE  Third(p)
  <2>1. /\ a \in Nat /\ b \in Nat /\ a > b /\ b > p /\ settled[a] = "err" /\ settled[b] = "err"
        /\ \A q \in Collected : b <= q /\ (q > b => a <= q)
    BY <1>1, <1>11 DEF TwoFailed, OneFailed, Latest
  <2>2. \A q \in DOMAIN settled : p <= q /\ q <= a => q \in {a, b, p}
    <3> SUFFICES ASSUME NEW q \in DOMAIN settled, p <= q, q <= a
                 PROVE  q \in {a, b, p}
      OBVIOUS
    <3>1. q \in Nat
      BY <1>1
    <3>2. CASE q \in Collected
      BY <2>1, <3>1, <3>2
    <3>3. CASE q \notin Collected
      <4>1. q \in rest
        BY <3>3 DEF Collected
      <4>2. q \notin rest'
        BY <1>1, <3>1
      <4> QED
        BY <1>2, <4>1, <4>2
    <3> QED
      BY <3>2, <3>3
  <2>3. a \in DOMAIN settled /\ b \in DOMAIN settled
    BY <1>1
  <2> QED
    BY <1>11, <2>1, <2>2, <2>3 DEF Third
<1>12. failures' >= 1 <=> \E q \in Collected' : OneFailed(q)'
  <2>1. failures' >= 1 <=> settled[p] = "err"
    BY <1>2
  <2> QED
    BY <1>1, <1>6, <2>1
<1>13. failures' >= 2 <=> \E b, q \in Collected' : TwoFailed(b, q)'
  <2>1. failures' >= 2 <=> settled[p] = "err" /\ failures >= 1
    BY <1>2
  <2>2. failures >= 1 <=> \E b \in Collected : OneFailed(b)
    BY DEF CircuitInv
  <2>3. \A b, q \in Collected' : TwoFailed(b, q)' => q = p
    BY <1>6 DEF TwoFailed
  <2>4. \A b \in Collected' : OneFailed(b) => b \in Collected
    BY DEF OneFailed, Latest
  <2>5. CASE failures' >= 2
    <3>1. PICK b \in Collected : OneFailed(b)
      BY <2>1, <2>2, <2>5
    <3>2. b \in Collected' /\ p \in Collected'
      BY <1>1
    <3>3. TwoFailed(b, p)'
      BY <1>7, <2>1, <2>5, <3>1, <3>2
    <3> QED
      BY <2>5, <3>2, <3>3
  <2>6. CASE \E b, q \in Collected' : TwoFailed(b, q)'
    <3>1. PICK b \in Collected' : TwoFailed(b, p)'
      BY <2>3, <2>6
    <3>2. OneFailed(b) /\ settled[p] = "err"
      BY <1>7, <3>1
    <3> QED
      BY <2>1, <2>2, <2>4, <2>6, <3>2
  <2> QED
    BY <2>5, <2>6
<1>14. failures' >= 3 <=> settled[p] = "err" /\ \E a, b \in Collected : TwoFailed(a, b)
  <2>1. failures' >= 3 <=> settled[p] = "err" /\ failures >= 2
    BY <1>2
  <2> QED
    BY <2>1 DEF CircuitInv
<1>15. failures' >= 3 <=> Third(p)
  BY <1>10, <1>11, <1>14
<1>16. failures' >= 3 => \E q \in Collected' : OneFailed(q)' /\ Third(q)'
  BY <1>1, <1>6, <1>9, <1>14, <1>15
<1>17. \A q \in Collected' : Third(q)' => Latest(q)' /\ pc' = "done"
  <2> SUFFICES ASSUME NEW q \in Collected', Third(q)'
               PROVE  Latest(q)' /\ pc' = "done"
    OBVIOUS
  <2>1. q \notin Collected
    BY <1>2, <1>9 DEF CircuitInv
  <2>2. q = p
    BY <1>1, <2>1
  <2> QED
    BY <1>2, <1>4, <1>9, <1>15, <2>2
<1>18. (pc' = "compensate" => failures' < 3) /\ (pc' = "done" /\ rest' # {} => failures' >= 3)
  <2>1. failures' \in Nat
    BY <1>2
  <2> QED
    BY <1>2, <2>1
<1> QED
  BY <1>12, <1>13, <1>16, <1>17, <1>18 DEF CircuitInv

LEMMA RollbackStep ==
  ASSUME IInv, [SagaNext]_sagaVars
  PROVE  RollbackPart'
<1> USE DEF IInv
<1>0. def' = def /\ RollbackPart
  BY DefKept DEF RollbackPart
<1>1. CASE ResolveOrder
  BY <1>0, <1>1, RollbackIdle DEF ResolveOrder, Finish, cvars, StatusInv
<1>2. CASE PlaceStep
  BY <1>0, <1>2, RollbackIdle DEF PlaceStep, cvars, StatusInv
<1>3. CASE OrderDone
  BY <1>0, <1>3, RollbackIdle DEF OrderDone, Finish, cvars, StatusInv
<1>4. CASE StopCancelled \/ CompleteRun
  BY <1>0, <1>4, RollbackIdle DEF StopCancelled, CompleteRun, Finish, cvars, StatusInv
<1>5. CASE BeginStep \/ StepOk \/ StepRetry
  BY <1>0, <1>5, RollbackIdle DEF BeginStep, StepOk, StepRetry, cvars, StatusInv
<1>6. CASE StepFail
  <2>1. CompOrder' = CompOrder /\ pc = "step"
    BY <1>0, <1>6, PlanFrame DEF StepFail
  <2>2. CASE CompOrder = {}
    BY <1>0, <1>6, <2>1, <2>2, RollbackIdle DEF StepFail, Finish
  <2>3. CASE CompOrder # {}
    <3>1. /\ pc' = "compensate" /\ rest' = CompOrder /\ settled' = [p \in CompOrder |-> "pending"]
          /\ UNCHANGED <<status, error, failures, rolled>>
      BY <1>6, <2>3 DEF StepFail
    <3>2. rolled = <<>> /\ failures = 0 /\ status = "Running" /\ error = "None"
      BY <2>1 DEF RollbackInv, StatusInv
    <3>3. DOMAIN settled' = CompOrder /\ \A p \in CompOrder : settled'[p] = "pending"
      BY <3>1
    <3>4. Collected' = {}
      BY <3>1, <3>3 DEF Collected
    <3>5. RolledInv' /\ StopInv' /\ CircuitInv'
      BY <3>1, <3>2, <3>3, NothingCollected
    <3>6. RollbackInv'
      BY <2>1, <2>3, <3>1, <3>2, <3>3, <3>4 DEF RollbackInv
    <3> QED
      BY <3>5, <3>6 DEF RollbackPart
  <2> QED
    BY <2>2, <2>3
<1>7. CASE CollectResult
  <2>1. PICK p \in rest : Collects(p)
    BY <1>7, CollectCases
  <2> QED
    BY <2>1, CollectRollback, CollectRolled, CollectStop, CollectCircuit DEF RollbackPart
<1>8. ASSUME NEW p \in Batch, CompensationOk(p) \/ CompensationErr(p)
      PROVE  RollbackPart'
  BY <1>0, <1>8, RollbackSettles DEF CompensationOk, CompensationErr
<1>9. ASSUME NEW p \in Batch, CompensationRetry(p)
      PROVE  RollbackPart'
  BY <1>0, <1>9, RollbackKept DEF CompensationRetry, rvars
<1>10. CASE Cancel
  BY <1>0, <1>10, RollbackKept DEF Cancel, cvars, rvars
<1>11. CASE UNCHANGED sagaVars
  BY <1>0, <1>11, RollbackKept DEF sagaVars, rvars
<1> QED
  BY <1>1, <1>2, <1>3, <1>4, <1>5, <1>6, <1>7, <1>8, <1>9, <1>10, <1>11, NextCases DEF Onward

-----------------------------------------------------------------------------
(* The theorems *)

LEMMA InitInv ==
  ASSUME SagaInit
  PROVE  IInv
<1>0. /\ def \in Sagas /\ pc = "start" /\ order = <<>> /\ ready = {} /\ executed = <<>>
      /\ cancelled = FALSE /\ attempt = 0 /\ rest = {} /\ tries = <<>> /\ settled = <<>> /\ failures = 0
      /\ rolled = <<>> /\ status = "Running" /\ error = "None" /\ runs = [i \in Steps |-> 0]
  BY DEF SagaInit
<1>1. def.max_attempts \in Nat \ {0}
  BY <1>0, SagaAssumption
<1>2. DOMAIN settled = {} /\ DOMAIN tries = {} /\ DOMAIN executed = {} /\ DOMAIN order = {}
      /\ DOMAIN rolled = {}
  BY <1>0
<1>3. SagaTypeOK
  <2>1. tries \in [DOMAIN settled -> 1..CompAttempts] /\ settled \in [DOMAIN settled -> {"pending", "ok", "err"}]
    BY <1>0, <1>2
  <2>2. runs \in [Steps -> Nat]
    BY <1>0
  <2>3. order \in Seq(Steps) /\ executed \in Seq(Steps) /\ rolled \in Seq(Steps)
    BY <1>0
  <2>c. cancelled \in BOOLEAN
    BY <1>0
  <2>a. attempt \in 0..def.max_attempts
    BY <1>0, <1>1
  <2>4. /\ def \in Sagas /\ pc = "start" /\ ready \subseteq Steps
        /\ failures \in Nat /\ status = "Running" /\ error = "None"
    BY <1>0
  <2>5. rest \subseteq DOMAIN settled /\ DOMAIN settled \in {{}, CompOrder}
    BY <1>0, <1>2
  <2> QED
    BY <2>c, <2>a, <2>1, <2>2, <2>3, <2>4, <2>5 DEF SagaTypeOK
<1>4. Placed = {} /\ Executed = {}
  BY <1>2 DEF Placed, Executed, ToSet
<1>5. IsFiniteSet({}) /\ Cardinality({}) = 0
  BY FS_EmptySet
<1>6. OrderInv
  BY <1>0, <1>2, <1>4, <1>5 DEF OrderInv
<1>7. KahnInv /\ StatusInv
  BY <1>0 DEF KahnInv, StatusInv
<1>8. ForwardInv
  BY <1>0, <1>1, <1>2, <1>4 DEF ForwardInv
<1>9. Collected = {} /\ OkCollected = {}
  BY <1>2 DEF Collected, OkCollected
<1>10. RollbackInv /\ StopInv /\ CircuitInv
  BY <1>0, <1>2, <1>9 DEF RollbackInv, StopInv, CircuitInv
<1>11. RolledInv
  <2>1. ToSet(rolled) = {} /\ Len(rolled) = 0
    BY <1>0, <1>2 DEF ToSet
  <2> QED
    BY <1>2, <1>5, <1>9, <2>1 DEF RolledInv
<1> QED
  BY <1>3, <1>6, <1>7, <1>8, <1>10, <1>11 DEF IInv

LEMMA StepInv ==
  ASSUME IInv, [SagaNext]_sagaVars
  PROVE  IInv'
BY TypeStep, OrderStep, ForwardStep, RollbackStep DEF IInv, RollbackPart

\* The inductive invariant of a run.
THEOREM SagaInvariant == SagaSpec => []IInv
<1>1. SagaInit => IInv
  BY InitInv
<1>2. IInv /\ [SagaNext]_sagaVars => IInv'
  BY StepInv
<1> QED
  BY <1>1, <1>2, PTL DEF SagaSpec

\* The state of a run keeps its types, the attempts of a step and of a
\* compensation their bounds, for every definition.
THEOREM SagaTypeCorrect == SagaSpec => []SagaTypeOK
<1>1. IInv => SagaTypeOK
  BY DEF IInv
<1> QED
  BY <1>1, SagaInvariant, PTL

\* Whatever the graph: a step is invoked only when all it depends on has
\* executed, and a definition is refused exactly when no order can serve it.
THEOREM SagaDependencyOrder == SagaSpec => []DependencyOrder
<1>1. ASSUME IInv
      PROVE  DependencyOrder
  <2> USE <1>1 DEF IInv
  <2>t. order \in Seq(Steps) /\ executed \in Seq(Steps)
    BY DEF SagaTypeOK
  <2>1. ASSUME NEW i \in Steps, runs[i] > 0, NEW d \in def.depends_on[i]
        PROVE  d \in Executed
    <3>1. PICK k \in DOMAIN order : order[k] = i /\ k <= Len(executed) + 1
      <4>1. CASE i \in Executed
        <5>1. PICK k \in DOMAIN executed : executed[k] = i
          BY <4>1 DEF Executed, ToSet
        <5>2. order[k] = i /\ k \in DOMAIN order /\ k <= Len(executed) + 1
          BY <2>t, <5>1 DEF ForwardInv
        <5> QED
          BY <5>2
      <4>2. CASE i \notin Executed
        <5>1. Len(executed) < Len(order) /\ i = order[Len(executed) + 1]
          BY <2>1, <4>2 DEF ForwardInv
        <5>2. Len(executed) + 1 \in DOMAIN order /\ Len(executed) \in Nat
          BY <5>1, NextStep
        <5> QED
          BY <5>1, <5>2
      <4> QED
        BY <4>1, <4>2
    <3>2. PICK m \in DOMAIN order : m < k /\ order[m] = d
      BY <2>1, <3>1 DEF OrderInv, Deps
    <3>3. m \in DOMAIN executed
      BY <2>t, <3>1, <3>2
    <3>4. executed[m] = d
      BY <3>2, <3>3 DEF ForwardInv
    <3> QED
      BY <3>3, <3>4 DEF Executed, ToSet
  <2>2. error = "Definition" => \A i \in Steps : runs[i] = 0
    BY DEF ForwardInv
  <2>3. error = "Definition" => def.duplicate \/ Unservable
    BY DEF KahnInv
  <2>4. ASSUME status = "Completed"
        PROVE  ~Unservable /\ Executed = Steps
    <3>1. Placed = Steps /\ Len(executed) = Len(order)
      BY <2>4 DEF KahnInv
    <3>2. DOMAIN executed = DOMAIN order /\ \A k \in DOMAIN executed : executed[k] = order[k]
      BY <2>t, <3>1 DEF ForwardInv
    <3>3. Executed = Placed
      BY <3>2 DEF Executed, Placed, ToSet
    <3>4. \A i \in Steps : Deps(i) \subseteq Steps
      <4> SUFFICES ASSUME NEW i \in Steps, NEW d \in Deps(i)
                   PROVE  d \in Steps
        OBVIOUS
      <4>1. PICK k \in DOMAIN order : order[k] = i
        BY <3>1 DEF Placed, ToSet
      <4>2. PICK m \in DOMAIN order : order[m] = d
        BY <4>1 DEF OrderInv
      <4> QED
        BY <2>t, <4>2
    <3>5. \A S \in SUBSET Steps : S # {} => \E i \in S : Deps(i) \cap S = {}
      BY <3>1 DEF OrderInv
    <3>6. ~Unservable
      BY <3>4, <3>5 DEF Unservable, Deps
    <3> QED
      BY <3>1, <3>3, <3>6
  <2> QED
    BY <2>1, <2>2, <2>3, <2>4 DEF DependencyOrder
<1> QED
  BY <1>1, SagaInvariant, PTL

\* No step is invoked more often than its policy allows, nor again once it has
\* executed, nor for the first time after a cancellation.
THEOREM SagaInvocationsBounded == SagaSpec => InvocationsBounded
<1>1. ASSUME IInv, [SagaNext]_sagaVars, NEW i \in Steps, runs'[i] # runs[i]
      PROVE  /\ runs'[i] <= def.max_attempts /\ i \notin Executed
             /\ ~cancelled \/ attempt > 0
             /\ pc' = "step"
  <2> USE <1>1 DEF IInv
  <2>1. BeginStep \/ StepRetry
    BY NextCases DEF Onward, ResolveOrder, PlaceStep, OrderDone, StopCancelled, StepOk, StepFail, CompleteRun,
       CollectResult, CompensationOk, CompensationRetry, CompensationErr, Cancel, sagaVars
  <2>2. Len(executed) < Len(order) /\ pc' = "step" /\ (~cancelled \/ attempt > 0)
    <3>1. CASE BeginStep
      BY <3>1 DEF BeginStep
    <3>2. CASE StepRetry
      <4>1. attempt >= 1 /\ attempt \in Nat
        BY <3>2, DefFacts DEF StepRetry, ForwardInv, SagaTypeOK
      <4> QED
        BY <3>2, <4>1 DEF StepRetry, ForwardInv
    <3> QED
      BY <2>1, <3>1, <3>2
  <2>3. i = order[Len(executed) + 1]
    BY <2>1 DEF BeginStep, StepRetry, SagaTypeOK
  <2>4. i \notin Executed
    BY <2>2, <2>3, NextNotExecuted
  <2>5. runs'[i] <= def.max_attempts
    <3>1. def' = def /\ Steps' = Steps
      BY DefKept, OrderFrame
    <3>2. ForwardInv'
      BY ForwardStep
    <3> QED
      BY <3>1, <3>2 DEF ForwardInv
  <2> QED
    BY <2>2, <2>4, <2>5
<1>2. IInv /\ [SagaNext]_sagaVars =>
        [\A i \in Steps :
           runs'[i] # runs[i] =>
             /\ runs'[i] <= def.max_attempts
             /\ i \notin Executed
             /\ ~cancelled \/ attempt > 0
             /\ pc' = "step"]_sagaVars
  BY <1>1
<1> QED
  BY <1>2, SagaInvariant, PTL DEF SagaSpec, InvocationsBounded

LEMMA UndoneFirst ==
  ASSUME IInv
  PROVE  DependentsUndoneFirst
<1> USE DEF IInv
<1> SUFFICES ASSUME NEW p \in DOMAIN settled, NEW q \in DOMAIN settled,
                    executed[q] \in def.depends_on[executed[p]],
                    def.policy # "BestEffortParallel",
                    ~(def.policy = "GroupedParallel" /\ SameGroup(p, q)),
                    settled[q] # "pending" \/ (pc = "compensate" /\ q \in Batch),
                    p \in rest
             PROVE  FALSE
  <2>1. \A p \in DOMAIN settled : settled[p] = "pending" => p \in rest
    BY DEF RollbackInv, Collected
  <2> QED
    BY <2>1 DEF DependentsUndoneFirst
<1>1. DOMAIN settled \subseteq Nat /\ p \in DOMAIN executed /\ q \in DOMAIN executed
  BY PositionType
<1>2. q < p
  <2>1. order \in Seq(Steps) /\ executed \in Seq(Steps)
    BY DEF SagaTypeOK
  <2>2. p \in DOMAIN order /\ q \in DOMAIN order /\ order[p] = executed[p] /\ order[q] = executed[q]
    BY <1>1, <2>1 DEF ForwardInv
  <2>3. PICK m \in DOMAIN order : m < p /\ order[m] = executed[q]
    BY <2>2 DEF OrderInv, Deps
  <2>4. m = q
    BY <2>2, <2>3 DEF OrderInv
  <2> QED
    BY <2>3, <2>4
<1>3. q \in rest
  <2>1. CASE q \in Collected
    <3>1. p < q
      BY <2>1 DEF RollbackInv
    <3> QED
      BY <1>1, <1>2, <3>1
  <2> QED
    BY <2>1 DEF Collected
<1>4. q \in Batch
  BY <1>3 DEF RollbackInv
<1>5. p > q
  BY <1>1, <1>2
<1> QED
  BY <1>4, <1>5 DEF Batch

\* Whatever fails, in whatever order the compensations of a batch end, under
\* all six policies: dependents are undone first, every executed step that can
\* be undone is tried unless its policy gave up before it, and steps_rolled and
\* the error of the caller say what happened.
THEOREM SagaRollbackComplete == SagaSpec => []RollbackComplete
<1>1. ASSUME IInv
      PROVE  RollbackComplete
  <2> USE <1>1 DEF IInv
  <2> DEFINE bad == {p \in DOMAIN settled : settled[p] = "err"}
             ok  == {p \in DOMAIN settled : settled[p] = "ok"}
             halted(p) == CASE def.policy = "StopOnError" -> \E q \in bad : q > p
                            [] def.policy = "CircuitBreaker" -> \E q \in bad : q > p /\ Third(q)
                            [] OTHER -> FALSE
  <2>1. SUFFICES ASSUME status = "Compensated"
                 PROVE  /\ \A p \in DOMAIN settled : settled[p] = "pending" <=> halted(p)
                        /\ ToSet(rolled) = {executed[p] : p \in ok}
                        /\ Len(rolled) = Cardinality(ok)
                        /\ \A k, l \in DOMAIN rolled :
                             k < l => \E m, n \in DOMAIN executed :
                                        m > n /\ executed[m] = rolled[k] /\ executed[n] = rolled[l]
                        /\ error = "Compensation" <=> def.policy = "StopOnError" /\ bad # {}
    BY UndoneFirst DEF RollbackComplete
  <2>2. pc = "done"
    BY <2>1 DEF StatusInv
  <2>3. DOMAIN settled \subseteq Nat /\ Collected \subseteq DOMAIN settled /\ rest \subseteq DOMAIN settled
    BY PositionType
  <2>4. /\ \A q \in rest : settled[q] = "pending"
        /\ \A q \in Collected : settled[q] # "pending"
        /\ \A q \in Collected : \A p \in rest : p < q
        /\ \A p \in DOMAIN settled : p \in rest \/ p \in Collected
    BY <2>2 DEF RollbackInv, Collected
  <2>5. ok = OkCollected /\ bad \subseteq Collected /\ bad = {p \in Collected : settled[p] = "err"}
    BY <2>3, <2>4 DEF OkCollected
  <2>6. ASSUME NEW p \in DOMAIN settled
        PROVE  settled[p] = "pending" <=> halted(p)
    <3>0. settled[p] = "pending" <=> p \in rest
      BY <2>4
    <3>1. CASE def.policy = "StopOnError"
      <4>1. ASSUME p \in rest
            PROVE  \E q \in bad : q > p
        <5>1. PICK q \in Collected : settled[q] = "err"
          BY <2>2, <3>1, <4>1 DEF StopInv
        <5>2. q > p
          BY <2>3, <2>4, <4>1
        <5> QED
          BY <2>5, <5>1, <5>2
      <4>2. ASSUME NEW q \in bad, q > p
            PROVE  p \in rest
        <5>1. q \in Collected /\ settled[q] = "err"
          BY <2>5
        <5>2. \A s \in Collected : q <= s
          BY <3>1, <5>1 DEF StopInv
        <5> QED
          BY <2>3, <2>4, <4>2, <5>1, <5>2
      <4> QED
        BY <3>0, <3>1, <4>1, <4>2
    <3>2. CASE def.policy = "CircuitBreaker"
      <4>1. ASSUME p \in rest
            PROVE  \E q \in bad : q > p /\ Third(q)
        <5>1. PICK q \in Collected : OneFailed(q) /\ Third(q)
          BY <2>2, <3>2, <4>1 DEF CircuitInv
        <5>2. q > p
          BY <2>3, <2>4, <4>1
        <5>3. q \in bad
          BY <2>5, <5>1 DEF OneFailed
        <5> QED
          BY <5>1, <5>2, <5>3
      <4>2. ASSUME NEW q \in bad, q > p, Third(q)
            PROVE  p \in rest
        <5>1. q \in Collected
          BY <2>5
        <5>2. \A s \in Collected : q <= s
          BY <3>2, <4>2, <5>1 DEF CircuitInv, Latest
        <5> QED
          BY <2>3, <2>4, <4>2, <5>1, <5>2
      <4> QED
        BY <3>0, <3>2, <4>1, <4>2
    <3>3. CASE def.policy \notin {"StopOnError", "CircuitBreaker"}
      <4>1. rest = {}
        BY <2>2, <3>3 DEF RollbackInv
      <4> QED
        BY <3>0, <3>3, <4>1
    <3> QED
      BY <3>1, <3>2, <3>3
  <2>7. /\ ToSet(rolled) = {executed[p] : p \in ok}
        /\ Len(rolled) = Cardinality(ok)
        /\ \A k, l \in DOMAIN rolled :
             k < l => \E m, n \in DOMAIN executed :
                        m > n /\ executed[m] = rolled[k] /\ executed[n] = rolled[l]
    <3> HIDE DEF ok
    <3> QED
      BY <2>5 DEF RolledInv
  <2>8. error = "Compensation" <=> def.policy = "StopOnError" /\ bad # {}
    <3>1. error = "Compensation" => def.policy = "StopOnError"
      BY DEF StatusInv
    <3>2. def.policy = "StopOnError" => (error = "Compensation" <=> bad # {})
      BY <2>5 DEF StopInv
    <3> QED
      BY <3>1, <3>2
  <2> QED
    BY <2>6, <2>7, <2>8
<1> QED
  BY <1>1, SagaInvariant, PTL
=============================================================================
