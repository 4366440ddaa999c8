--------------------------- MODULE SchedulerProofs ---------------------------
(***************************************************************************)
(* Mutual exclusion of a lock-guarded job, for any number of instances,    *)
(* loops and faults and each of the three lock providers.                  *)
(*                                                                         *)
(* The argument: a run that has neither outlived nor lost its lock is the  *)
(* one named in the lock entry (IntactInv), and there is one entry.  The   *)
(* entry names the token of its run's own process (OwnerInv), and Postgres *)
(* keeps a session only for a loop of the same instance (SessionInv), so   *)
(* a release can hit only the lock of a sibling.                           *)
(***************************************************************************)
EXTENDS Scheduler, TLAPS

\* A run whose lock is intact is the one the lock entry names.
IntactInv ==
  \A l \in Running : ~lapsed[l] /\ ~robbed[l] => lock # Nobody /\ lock.run = l

\* An entry with a run carries the token of the process of that run.
OwnerInv ==
  lock # Nobody /\ lock.run # Nobody =>
    lock.owner = <<Inst(lock.run), epoch[Inst(lock.run)]>>

\* A Postgres session is kept for a loop of the instance that keeps it.
SessionInv == \A i \in Instances : held[i] # Nobody => Inst(held[i]) = i

\* Every restart of a process was a fault.
EpochInv == \A i \in Instances : epoch[i] <= faults

IInv == SchedulerTypeOK /\ IntactInv /\ OwnerInv /\ SessionInv /\ EpochInv

USE SchedulerAssumption

\* Every loop runs on an instance.
LEMMA InstType == \A l \in Loops : Inst(l) \in Instances
  BY DEF Inst

\* The lock entry, taken apart.
LEMMA EntryFact ==
  ASSUME IInv, lock # Nobody
  PROVE  /\ lock \in Entries /\ lock.run \in Loops \cup {Nobody}
         /\ lock.owner \in Instances \X (0..MaxFaults)
         /\ backend = "postgres" => (lock.run = Nobody <=> lock.ttl)
  BY DEF IInv, SchedulerTypeOK, Entries

\* An entry made by a loop is no empty lock.
LEMMA NewEntry ==
  ASSUME IInv, NEW l \in Loops
  PROVE  /\ Entry(l) \in Entries /\ Entry(l) # Nobody
         /\ Entry(l).run = l /\ Entry(l).owner = <<Inst(l), epoch[Inst(l)]>>
         /\ Entry(l).ttl = (backend # "postgres")
<1>1. Inst(l) \in Instances /\ epoch[Inst(l)] \in 0..MaxFaults
  BY InstType DEF IInv, SchedulerTypeOK
<1>2. <<Inst(l), epoch[Inst(l)]>> \in Instances \X (0..MaxFaults)
  BY <1>1
<1>3. (backend # "postgres") \in BOOLEAN
  OBVIOUS
<1> DEFINE o == <<Inst(l), epoch[Inst(l)]>>
           b == (backend # "postgres")
<1>4. o \in Instances \X (0..MaxFaults) /\ b \in BOOLEAN
  BY <1>2, <1>3
<1>5. Entry(l) = [owner |-> o, run |-> l, ttl |-> b]
  BY DEF Entry
<1> HIDE DEF o, b
<1>6. /\ Entry(l) \in Entries
      /\ Entry(l).run = l /\ Entry(l).owner = o /\ Entry(l).ttl = b
  BY <1>4, <1>5 DEF Entries
<1>7. Entry(l) # Nobody
  BY <1>6
<1> QED
  BY <1>6, <1>7 DEF o, b

\* An entry whose run is gone.
LEMMA Orphaned ==
  ASSUME NEW e \in Entries
  PROVE  /\ Orphan(e) \in Entries /\ Orphan(e) # Nobody
         /\ Orphan(e).run = Nobody /\ Orphan(e).ttl = TRUE
<1>1. PICK o \in Instances \X (0..MaxFaults), r \in Loops \cup {Nobody}, b \in BOOLEAN :
        e = [owner |-> o, run |-> r, ttl |-> b]
  BY DEF Entries
<1>2. Orphan(e) = [owner |-> o, run |-> Nobody, ttl |-> TRUE]
  BY <1>1 DEF Orphan
<1>3. Orphan(e) \in Entries
  BY <1>2 DEF Entries
<1>4. Orphan(e).run = Nobody /\ Orphan(e).ttl = TRUE
  BY <1>2
<1>5. Orphan(e) # Nobody
  BY <1>3
<1> QED
  BY <1>3, <1>4, <1>5

\* The initial state.
LEMMA InitIInv == SchedulerInit => IInv
<1> SUFFICES ASSUME SchedulerInit PROVE IInv
  OBVIOUS
<1>1. SchedulerTypeOK
  BY DEF SchedulerInit, SchedulerTypeOK
<1>2. IntactInv /\ OwnerInv /\ SessionInv /\ EpochInv
  BY DEF SchedulerInit, IntactInv, OwnerInv, SessionInv, EpochInv, Running
<1> QED
  BY <1>1, <1>2 DEF IInv

\* Steps in which no run begins and neither lock, sessions, processes nor
\* histories change: start(), stop(), firing, skipping and the end of a body.
LEMMA QuietStep ==
  ASSUME IInv, UNCHANGED <<backend, lock, held, epoch, lapsed, robbed>>,
         faults' \in 0..MaxFaults, faults <= faults',
         SchedulerTypeOK', Running' \subseteq Running
  PROVE  IInv'
<1> USE DEF IInv
<1>1. IntactInv'
  BY DEF IntactInv
<1>2. OwnerInv' /\ SessionInv'
  BY DEF OwnerInv, SessionInv, Inst
<1>3. EpochInv'
  BY DEF EpochInv, SchedulerTypeOK
<1> QED
  BY <1>1, <1>2, <1>3

\* start() and stop().
LEMMA CallerStep ==
  ASSUME IInv, NEW i \in Instances, Start(i) \/ Stop(i)
  PROVE  IInv'
<1>1. SchedulerTypeOK'
  BY ZenonT(60) DEF IInv, SchedulerTypeOK, Start, Stop
<1>2. Running' \subseteq Running
  BY DEF IInv, SchedulerTypeOK, Running, Start, Stop
<1>3. /\ UNCHANGED <<backend, lock, held, epoch, lapsed, robbed, faults>>
      /\ faults \in 0..MaxFaults
  BY DEF IInv, SchedulerTypeOK, Start, Stop
<1> QED
  BY <1>1, <1>2, <1>3, QuietStep

\* The turns of a loop that leave the lock alone.
LEMMA TurnStep ==
  ASSUME IInv, NEW l \in Loops,
         Fire(l) \/ AcquireHeld(l) \/ BodyEnds(l) \/ ExitOnStop(l) \/ ExitDry(l)
  PROVE  IInv'
<1> USE DEF Fire, AcquireHeld, BodyEnds, ExitOnStop, ExitDry, Goto
<1>1. SchedulerTypeOK'
  BY DEF IInv, SchedulerTypeOK
<1>2. Running' \subseteq Running
  BY DEF IInv, SchedulerTypeOK, Running
<1>3. /\ UNCHANGED <<backend, lock, held, epoch, lapsed, robbed, faults>>
      /\ faults \in 0..MaxFaults
  BY DEF IInv, SchedulerTypeOK
<1> QED
  BY <1>1, <1>2, <1>3, QuietStep

\* A loop takes the free lock and runs: every other run has lapsed or was robbed.
LEMMA AcquireOkStep == ASSUME IInv, NEW l \in Loops, AcquireOk(l) PROVE IInv'
<1> USE DEF IInv, AcquireOk, Hold, Goto
<1>1. /\ lock' = Entry(l) /\ lock' \in Entries /\ lock' # Nobody
      /\ lock'.run = l /\ lock'.owner = <<Inst(l), epoch[Inst(l)]>>
      /\ lock'.ttl = (backend # "postgres")
  BY NewEntry
<1>2. SchedulerTypeOK'
  <2>1. pc' \in [Loops -> {"registered", "sleeping", "acquiring", "running", "releasing", "exited"}]
    BY DEF SchedulerTypeOK
  <2>2. held' \in [Instances -> Loops \cup {Nobody}]
    BY InstType DEF SchedulerTypeOK
  <2>3. lapsed' \in [Loops -> BOOLEAN] /\ robbed' \in [Loops -> BOOLEAN]
    BY DEF SchedulerTypeOK
  <2>4. l # Nobody
    OBVIOUS
  <2> QED
    BY <1>1, <2>1, <2>2, <2>3, <2>4 DEF SchedulerTypeOK
<1>3. IntactInv'
  <2> SUFFICES ASSUME NEW m \in Loops, pc'[m] \in {"running", "releasing"},
                      ~lapsed'[m], ~robbed'[m]
               PROVE  m = l
    BY <1>1 DEF IntactInv, Running
  <2> QED
    BY DEF IntactInv, Running, SchedulerTypeOK
<1>4. OwnerInv'
  BY <1>1 DEF OwnerInv, Inst
<1>5. SessionInv'
  BY InstType DEF SessionInv, Inst, SchedulerTypeOK
<1>6. EpochInv'
  BY DEF EpochInv
<1> QED
  BY <1>2, <1>3, <1>4, <1>5, <1>6

\* The reply of try_acquire() is lost: at most a key without a run is left.
LEMMA AcquireErrStep == ASSUME IInv, NEW l \in Loops, AcquireErr(l) PROVE IInv'
<1> USE DEF IInv, AcquireErr, Fault, Goto
<1>1. \/ lock' = lock
      \/ /\ lock = Nobody /\ lock' \in Entries /\ lock' # Nobody
         /\ lock'.run = Nobody /\ lock'.ttl = TRUE
  <2>1. Entry(l) \in Entries
    BY NewEntry, ZenonT(60)
  <2>2. /\ Orphan(Entry(l)) \in Entries /\ Orphan(Entry(l)) # Nobody
        /\ Orphan(Entry(l)).run = Nobody /\ Orphan(Entry(l)).ttl = TRUE
    BY <2>1, Orphaned, ZenonT(60)
  <2> QED
    BY <2>2
<1>2. SchedulerTypeOK'
  BY <1>1 DEF SchedulerTypeOK
<1>3. IntactInv'
  <2> SUFFICES ASSUME NEW m \in Loops, pc'[m] \in {"running", "releasing"},
                      ~lapsed[m], ~robbed[m]
               PROVE  lock' # Nobody /\ lock'.run = m
    BY DEF IntactInv, Running
  <2>1. lock # Nobody /\ lock.run = m
    BY DEF IntactInv, Running, SchedulerTypeOK
  <2> QED
    BY <1>1, <2>1
<1>4. OwnerInv'
  BY <1>1 DEF OwnerInv, Inst
<1>5. SessionInv' /\ EpochInv'
  BY DEF SessionInv, EpochInv, Inst, SchedulerTypeOK
<1> QED
  BY <1>2, <1>3, <1>4, <1>5

\* The end of a run: whose lock it takes away is robbed.
LEMMA ReleaseStep == ASSUME IInv, NEW l \in Loops, Release(l) PROVE IInv'
<1> USE DEF IInv, Release, Free, Goto
<1>1. lock' = lock \/ lock' = Nobody
  OBVIOUS
<1>2. SchedulerTypeOK'
  <2>1. pc' \in [Loops -> {"registered", "sleeping", "acquiring", "running", "releasing", "exited"}]
    BY DEF SchedulerTypeOK
  <2>2. held' \in [Instances -> Loops \cup {Nobody}]
    BY InstType DEF SchedulerTypeOK
  <2>3. robbed' \in [Loops -> BOOLEAN]
    BY EntryFact DEF SchedulerTypeOK
  <2> QED
    BY <1>1, <2>1, <2>2, <2>3 DEF SchedulerTypeOK
<1>3. IntactInv'
  <2> SUFFICES ASSUME NEW m \in Loops, pc'[m] \in {"running", "releasing"},
                      ~lapsed[m], ~robbed'[m]
               PROVE  lock' # Nobody /\ lock'.run = m
    BY DEF IntactInv, Running
  <2>1. m # l /\ m \in Running
    BY DEF Running, SchedulerTypeOK
  <2>2. ~robbed[m]
    BY EntryFact DEF SchedulerTypeOK, Releases
  <2>3. lock # Nobody /\ lock.run = m
    BY <2>1, <2>2 DEF IntactInv
  <2>4. ~Releases(l)
    BY <2>1, <2>3 DEF SchedulerTypeOK
  <2> QED
    BY <2>3, <2>4
<1>4. OwnerInv'
  BY <1>1 DEF OwnerInv, Inst
<1>5. SessionInv' /\ EpochInv'
  BY InstType DEF SessionInv, EpochInv, Inst, SchedulerTypeOK
<1> QED
  BY <1>2, <1>3, <1>4, <1>5

\* release() fails: the entry stays behind without its run.
LEMMA ReleaseErrStep == ASSUME IInv, NEW l \in Loops, ReleaseErr(l) PROVE IInv'
<1> USE DEF IInv, ReleaseErr, Fault, Goto
<1>0. lock # Nobody =>
        /\ Orphan(lock) \in Entries /\ Orphan(lock) # Nobody
        /\ Orphan(lock).run = Nobody /\ Orphan(lock).ttl = TRUE
  BY EntryFact, Orphaned
<1>1. \/ lock' = lock
      \/ /\ lock # Nobody /\ lock' \in Entries /\ lock' # Nobody
         /\ lock'.run = Nobody /\ lock'.ttl = TRUE
  BY <1>0 DEF Releases
<1>2. SchedulerTypeOK'
  <2>1. pc' \in [Loops -> {"registered", "sleeping", "acquiring", "running", "releasing", "exited"}]
    BY DEF SchedulerTypeOK
  <2>2. held' \in [Instances -> Loops \cup {Nobody}]
    BY InstType DEF SchedulerTypeOK
  <2>3. robbed' \in [Loops -> BOOLEAN]
    BY EntryFact DEF SchedulerTypeOK
  <2> QED
    BY <1>1, <2>1, <2>2, <2>3 DEF SchedulerTypeOK
<1>3. IntactInv'
  <2> SUFFICES ASSUME NEW m \in Loops, pc'[m] \in {"running", "releasing"},
                      ~lapsed[m], ~robbed'[m]
               PROVE  lock' # Nobody /\ lock'.run = m
    BY DEF IntactInv, Running
  <2>1. m # l /\ m \in Running
    BY DEF Running, SchedulerTypeOK
  <2>2. ~robbed[m]
    BY EntryFact DEF SchedulerTypeOK, Releases
  <2>3. lock # Nobody /\ lock.run = m
    BY <2>1, <2>2 DEF IntactInv
  <2>4. backend = "postgres" => ~Releases(l)
    BY <2>1, <2>3 DEF SchedulerTypeOK
  <2>5. lock' = lock
    BY <2>1, <2>3, <2>4
  <2> QED
    BY <2>3, <2>5
<1>4. OwnerInv'
  BY <1>1 DEF OwnerInv, Inst
<1>5. SessionInv' /\ EpochInv'
  BY InstType DEF SessionInv, EpochInv, Inst, SchedulerTypeOK
<1> QED
  BY <1>2, <1>3, <1>4, <1>5

\* A lock ends by itself: its run, if it still goes, has outlived it.
LEMMA LapseStep == ASSUME IInv, Expire \/ SessionLost PROVE IInv'
<1> USE DEF IInv, Expire, SessionLost, Fault
<1>1. /\ lock # Nobody /\ lock' = Nobody /\ lock.run \in Loops \cup {Nobody}
      /\ lock.run \in Loops => lapsed' = [lapsed EXCEPT ![lock.run] = TRUE]
      /\ lock.run = Nobody => lapsed' = lapsed
      /\ faults' \in 0..MaxFaults /\ faults <= faults'
      /\ UNCHANGED <<backend, started, stop, asked, pc, held, epoch, robbed>>
  BY EntryFact DEF SchedulerTypeOK
<1>2. SchedulerTypeOK'
  BY <1>1 DEF SchedulerTypeOK
<1>3. IntactInv'
  <2> SUFFICES ASSUME NEW m \in Running, ~lapsed'[m], ~robbed[m]
               PROVE  FALSE
    BY <1>1 DEF IntactInv, Running
  <2>1. m \in Loops
    BY DEF Running
  <2>2. m # lock.run /\ ~lapsed[m]
    BY <1>1, <2>1 DEF SchedulerTypeOK
  <2> QED
    BY <2>2 DEF IntactInv
<1>4. OwnerInv' /\ SessionInv'
  BY <1>1 DEF OwnerInv, SessionInv, Inst
<1>5. EpochInv'
  BY <1>1 DEF EpochInv, SchedulerTypeOK
<1> QED
  BY <1>2, <1>3, <1>4, <1>5

\* A process dies: its runs are gone, and its lock with it or without a run.
LEMMA CrashStep == ASSUME IInv, NEW i \in Instances, Crash(i) PROVE IInv'
<1> USE DEF IInv, Crash, Fault
<1>1. \/ lock' = lock /\ (lock = Nobody \/ lock.owner[1] # i)
      \/ lock # Nobody /\ lock.owner[1] = i /\ lock' = Nobody
      \/ /\ lock # Nobody /\ lock.owner[1] = i
         /\ lock' \in Entries /\ lock' # Nobody /\ lock'.run = Nobody /\ lock'.ttl = TRUE
  <2>1. lock # Nobody =>
          /\ Orphan(lock) \in Entries /\ Orphan(lock) # Nobody
          /\ Orphan(lock).run = Nobody /\ Orphan(lock).ttl = TRUE
    BY EntryFact, Orphaned
  <2> QED
    BY <2>1
<1>2. SchedulerTypeOK'
  <2>1. pc' \in [Loops -> {"registered", "sleeping", "acquiring", "running", "releasing", "exited"}]
    BY DEF SchedulerTypeOK
  <2>2. /\ epoch' \in [Instances -> 0..MaxFaults] /\ faults' \in 0..MaxFaults
        /\ held' \in [Instances -> Loops \cup {Nobody}]
    BY DEF SchedulerTypeOK, EpochInv
  <2>3. /\ started' \in [Instances -> BOOLEAN] /\ stop' \in [Instances -> BOOLEAN]
        /\ asked' \in [Instances -> BOOLEAN]
    BY DEF SchedulerTypeOK
  <2> QED
    BY <1>1, <2>1, <2>2, <2>3 DEF SchedulerTypeOK
<1>3. IntactInv'
  <2> SUFFICES ASSUME NEW m \in Loops, pc'[m] \in {"running", "releasing"},
                      ~lapsed[m], ~robbed[m]
               PROVE  lock' # Nobody /\ lock'.run = m
    BY DEF IntactInv, Running
  <2>1. Inst(m) # i /\ m \in Running
    BY DEF Running
  <2>2. lock # Nobody /\ lock.run = m
    BY <2>1 DEF IntactInv
  <2>3. lock.owner[1] = Inst(m)
    BY <2>2 DEF OwnerInv
  <2> QED
    BY <1>1, <2>1, <2>2, <2>3
<1>4. OwnerInv'
  <2> SUFFICES ASSUME lock' # Nobody, lock'.run # Nobody
               PROVE  lock'.owner = <<Inst(lock'.run), epoch'[Inst(lock'.run)]>>
    BY DEF OwnerInv, Inst
  <2>1. lock' = lock /\ lock.owner[1] # i
    BY <1>1
  <2>2. lock.run \in Loops /\ lock.owner = <<Inst(lock.run), epoch[Inst(lock.run)]>>
    BY <2>1, EntryFact DEF OwnerInv
  <2>3. Inst(lock.run) # i /\ Inst(lock.run) \in Instances
    BY <2>1, <2>2, InstType
  <2> QED
    BY <2>1, <2>2, <2>3 DEF SchedulerTypeOK
<1>5. SessionInv'
  BY DEF SessionInv, Inst, SchedulerTypeOK
<1>6. EpochInv'
  BY DEF EpochInv, SchedulerTypeOK
<1> QED
  BY <1>2, <1>3, <1>4, <1>5, <1>6

\* Every step preserves the invariant.
LEMMA NextIInv == IInv /\ [SchedulerNext]_schedulerVars => IInv'
<1> SUFFICES ASSUME IInv, [SchedulerNext]_schedulerVars PROVE IInv'
  OBVIOUS
<1>1. ASSUME NEW i \in Instances, Start(i) \/ Stop(i) \/ Crash(i)
      PROVE  IInv'
  BY <1>1, CallerStep, CrashStep
<1>2. ASSUME NEW l \in Loops, Loop(l) \/ ExitOnStop(l) \/ ExitDry(l)
      PROVE  IInv'
  BY <1>2, TurnStep, AcquireOkStep, AcquireErrStep, ReleaseStep, ReleaseErrStep DEF Loop
<1>3. CASE Expire \/ SessionLost
  BY <1>3, LapseStep
<1>4. CASE UNCHANGED schedulerVars
  <2>1. SchedulerTypeOK'
    BY <1>4 DEF IInv, SchedulerTypeOK, schedulerVars
  <2>2. Running' \subseteq Running /\ faults \in 0..MaxFaults
    BY <1>4 DEF IInv, SchedulerTypeOK, Running, schedulerVars
  <2> QED
    BY <1>4, <2>1, <2>2, QuietStep DEF schedulerVars
<1> QED
  BY <1>1, <1>2, <1>3, <1>4 DEF SchedulerNext

\* Locks, sessions and processes stay in step through expiry, lost replies,
\* lost sessions and crashes, for every lock provider.
THEOREM SchedulerInvariant == SchedulerSpec => []IInv
<1>1. SchedulerInit => IInv
  BY InitIInv
<1>2. IInv /\ [SchedulerNext]_schedulerVars => IInv'
  BY NextIInv
<1> QED
  BY <1>1, <1>2, PTL DEF SchedulerSpec

\* The state keeps its type; a Postgres lock has a run, unless it is one that the
\* server is about to free.
THEOREM SchedulerTypeCorrect == SchedulerSpec => []SchedulerTypeOK
<1>1. IInv => SchedulerTypeOK
  BY DEF IInv
<1> QED
  BY <1>1, SchedulerInvariant, PTL

\* Two runs of the job overlap only if one has outlived its lock or was robbed
\* of it.
THEOREM SchedulerOverlapNeedsLapse == SchedulerSpec => []OverlapNeedsLapse
<1>1. IInv => OverlapNeedsLapse
  <2> SUFFICES ASSUME IInv, NEW l \in Running, NEW m \in Running, l # m
               PROVE  \E x \in {l, m} : lapsed[x] \/ robbed[x]
    BY DEF OverlapNeedsLapse
  <2> QED
    BY DEF IInv, IntactInv
<1> QED
  BY <1>1, SchedulerInvariant, PTL

\* A run is robbed of its lock only by a sibling on its own instance that has
\* itself outlived or lost its lock.
THEOREM SchedulerRobbedAtHome == SchedulerSpec => RobbedAtHome
<1> DEFINE Step ==
      \A l \in Loops :
        ~robbed[l] /\ robbed'[l] =>
          \E m \in Running : m # l /\ Inst(m) = Inst(l) /\ (lapsed[m] \/ robbed[m]) /\ pc'[m] = "sleeping"
<1>1. ASSUME IInv, [SchedulerNext]_schedulerVars PROVE [Step]_schedulerVars
  <2> SUFFICES ASSUME SchedulerNext, NEW l \in Loops, ~robbed[l], robbed'[l]
               PROVE  \E m \in Running : m # l /\ Inst(m) = Inst(l)
                                         /\ (lapsed[m] \/ robbed[m]) /\ pc'[m] = "sleeping"
    BY <1>1
  <2> USE <1>1 DEF IInv
  <2>1. PICK m \in Loops : Release(m) \/ ReleaseErr(m)
    <3>1. CASE UNCHANGED robbed
      BY <3>1
    <3>2. ASSUME NEW m \in Loops, AcquireOk(m) PROVE FALSE
      BY <3>2 DEF AcquireOk, SchedulerTypeOK
    <3> QED
      BY <3>1, <3>2 DEF SchedulerNext, Loop, Start, Stop, Crash, ExitOnStop, ExitDry, Fire,
         AcquireHeld, AcquireErr, BodyEnds, Expire, SessionLost
  <2>2. /\ Releases(m) /\ lock # Nobody /\ lock.run = l /\ m # l
        /\ m \in Running /\ pc'[m] = "sleeping"
    BY <2>1, EntryFact DEF Release, ReleaseErr, Free, Releases, Goto, Running, SchedulerTypeOK
  <2>3. Inst(m) = Inst(l)
    <3>1. CASE backend = "postgres"
      BY <2>2, <3>1, InstType DEF Releases, SessionInv
    <3>2. CASE backend # "postgres"
      BY <2>2, <3>2 DEF Releases, OwnerInv
    <3> QED
      BY <3>1, <3>2
  <2>4. lapsed[m] \/ robbed[m]
    BY <2>2 DEF IntactInv
  <2> QED
    BY <2>2, <2>3, <2>4
<1> QED
  BY <1>1, SchedulerInvariant, PTL DEF SchedulerSpec, RobbedAtHome
=============================================================================
