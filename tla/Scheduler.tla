------------------------------ MODULE Scheduler ------------------------------
(***************************************************************************)
(* The scheduler of crates/scheduling in a cluster: dispatch loops of the  *)
(* same lock-guarded job on several instances, coordinated through one of  *)
(* the three lock providers.                                               *)
(*                                                                         *)
(* Time is not counted.  A sleep, a run and a TTL each end at some moment, *)
(* so every order of the three is explored.  A call on a lock backend is   *)
(* one step of the backend; on a network its reply may be lost.            *)
(***************************************************************************)
EXTENDS Integers, FiniteSets

CONSTANTS
  Instances,   \* processes of the cluster, each with its own lock provider
  Loops,       \* run_task() loops of the job
  Home,        \* the instance of each loop
  Backends,    \* providers explored: "redis", "postgres", "inprocess"
  Nobody,      \* no loop, no lock
  MaxFaults    \* bound: crashes, lost sessions and lost replies

\* A lock entry: the owner's token, the run it was taken for, and whether it goes
\* away by itself (ttl).
Entries == [owner : Instances \X (0..MaxFaults), run : Loops \cup {Nobody}, ttl : BOOLEAN]

ASSUME SchedulerAssumption ==
  /\ Home \in [Loops -> Instances]
  /\ Backends \subseteq {"redis", "postgres", "inprocess"}
  /\ Nobody \notin Loops \cup Entries
  /\ MaxFaults \in Nat

VARIABLES
  backend,  \* the provider of this behaviour
  started,  \* per instance: start() is running
  stop,     \* per instance: the watch value that stop() sets
  asked,    \* per instance: stop() was called (history)
  pc,       \* per loop: where run_task() is
  lock,     \* the entry of the job's lock in the backend
  held,     \* Postgres: per instance, the loop whose session is in `held`
  epoch,    \* per instance: number of its process, which fixes its token
  lapsed,   \* per loop: its run has outlived its lock (history)
  robbed,   \* per loop: another loop has released its lock (history)
  faults    \* faults so far

schedulerVars == <<backend, started, stop, asked, pc, lock, held, epoch, lapsed, robbed, faults>>

\* With the in-process provider all loops share one process.
Inst(l) == IF backend = "inprocess" THEN CHOOSE i \in Instances : TRUE ELSE Home[l]

Running == {l \in Loops : pc[l] \in {"running", "releasing"}}

SchedulerInit ==
  /\ backend \in Backends
  /\ started = [i \in Instances |-> FALSE]
  /\ stop = [i \in Instances |-> FALSE]
  /\ asked = [i \in Instances |-> FALSE]
  /\ pc = [l \in Loops |-> "registered"]
  /\ lock = Nobody
  /\ held = [i \in Instances |-> Nobody]
  /\ epoch = [i \in Instances |-> 0]
  /\ lapsed = [l \in Loops |-> FALSE]
  /\ robbed = [l \in Loops |-> FALSE]
  /\ faults = 0

Fault == faults < MaxFaults /\ faults' = faults + 1
Goto(l, label) == pc' = [pc EXCEPT ![l] = label]

-----------------------------------------------------------------------------
(* start() and stop() *)

\* start() spawns a loop for every registered task.
Start(i) ==
  /\ ~started[i] /\ \E l \in Loops : Inst(l) = i /\ pc[l] = "registered"
  /\ started' = [started EXCEPT ![i] = TRUE]
  /\ pc' = [l \in Loops |-> IF Inst(l) = i THEN "sleeping" ELSE pc[l]]
  /\ UNCHANGED <<backend, stop, asked, lock, held, epoch, lapsed, robbed, faults>>

\* Mutant of Stop: send() leaves the value alone while there is no receiver.
StopSend(i) ==
  /\ ~asked[i]
  /\ asked' = [asked EXCEPT ![i] = TRUE]
  /\ stop' = [stop EXCEPT ![i] = started[i]]
  /\ UNCHANGED <<backend, started, pc, lock, held, epoch, lapsed, robbed, faults>>

\* stop() replaces the watch value, also before start().
Stop(i) ==
  /\ ~asked[i]
  /\ asked' = [asked EXCEPT ![i] = TRUE]
  /\ stop' = [stop EXCEPT ![i] = TRUE]
  /\ UNCHANGED <<backend, started, pc, lock, held, epoch, lapsed, robbed, faults>>

\* The select of run_task() sees the stop.
ExitOnStop(l) ==
  /\ pc[l] = "sleeping" /\ stop[Inst(l)]
  /\ Goto(l, "exited")
  /\ UNCHANGED <<backend, started, stop, asked, lock, held, epoch, lapsed, robbed, faults>>

\* The trigger has no next firing.
ExitDry(l) ==
  /\ pc[l] = "sleeping"
  /\ Goto(l, "exited")
  /\ UNCHANGED <<backend, started, stop, asked, lock, held, epoch, lapsed, robbed, faults>>

\* The sleep is over.  A stop that is ready as well may lose: select picks at
\* random.
Fire(l) ==
  /\ pc[l] = "sleeping"
  /\ Goto(l, "acquiring")
  /\ UNCHANGED <<backend, started, stop, asked, lock, held, epoch, lapsed, robbed, faults>>

-----------------------------------------------------------------------------
(* try_acquire() *)

Entry(l) == [owner |-> <<Inst(l), epoch[Inst(l)]>>, run |-> l, ttl |-> backend # "postgres"]

\* What is left of an entry whose run is gone: the TTL runs out, or the Postgres
\* server notices that the connection is closed.
Orphan(entry) == [owner |-> entry.owner, run |-> Nobody, ttl |-> TRUE]

Hold(l) ==
  /\ lock' = Entry(l)
  /\ held' = IF backend = "postgres" THEN [held EXCEPT ![Inst(l)] = l] ELSE held

\* Mutant of AcquireOk: the key is set without PX.
AcquireOkNoTtl(l) ==
  /\ pc[l] = "acquiring" /\ lock = Nobody
  /\ lock' = [Entry(l) EXCEPT !.ttl = FALSE]
  /\ Goto(l, "running")
  /\ lapsed' = [lapsed EXCEPT ![l] = FALSE]
  /\ robbed' = [robbed EXCEPT ![l] = FALSE]
  /\ UNCHANGED <<backend, started, stop, asked, held, epoch, faults>>

\* The lock is free: it is taken and the body spawned.
AcquireOk(l) ==
  /\ pc[l] = "acquiring" /\ lock = Nobody
  /\ Hold(l)
  /\ Goto(l, "running")
  /\ lapsed' = [lapsed EXCEPT ![l] = FALSE]
  /\ robbed' = [robbed EXCEPT ![l] = FALSE]
  /\ UNCHANGED <<backend, started, stop, asked, epoch, faults>>

\* Held elsewhere: the tick is skipped and marked finished.
AcquireHeld(l) ==
  /\ pc[l] = "acquiring" /\ lock # Nobody
  /\ Goto(l, "sleeping")
  /\ UNCHANGED <<backend, started, stop, asked, lock, held, epoch, lapsed, robbed, faults>>

\* Mutant of AcquireErr: a backend that cannot be asked is taken for a yes.
AcquireErrRuns(l) ==
  /\ pc[l] = "acquiring" /\ backend # "inprocess" /\ Fault
  /\ Goto(l, "running")
  /\ lapsed' = [lapsed EXCEPT ![l] = FALSE]
  /\ robbed' = [robbed EXCEPT ![l] = FALSE]
  /\ UNCHANGED <<backend, started, stop, asked, lock, held, epoch>>

\* Mutant of AcquireErr: the Postgres client outlives the failed call.
AcquireErrKeepsClient(l) ==
  /\ pc[l] = "acquiring" /\ backend # "inprocess" /\ Fault
  /\ \/ UNCHANGED lock
     \/ lock = Nobody /\ lock' = [Entry(l) EXCEPT !.run = Nobody]
  /\ Goto(l, "sleeping")
  /\ UNCHANGED <<backend, started, stop, asked, held, epoch, lapsed, robbed>>

\* The backend fails or its reply is lost: the tick is skipped.  Redis may have
\* set the key; Postgres may have granted the lock to the client that is dropped.
AcquireErr(l) ==
  /\ pc[l] = "acquiring" /\ backend # "inprocess" /\ Fault
  /\ \/ UNCHANGED lock
     \/ lock = Nobody /\ lock' = Orphan(Entry(l))
  /\ Goto(l, "sleeping")
  /\ UNCHANGED <<backend, started, stop, asked, held, epoch, lapsed, robbed>>

-----------------------------------------------------------------------------
(* The run and release() *)

\* The body returns or panics.
BodyEnds(l) ==
  /\ pc[l] = "running"
  /\ Goto(l, "releasing")
  /\ UNCHANGED <<backend, started, stop, asked, lock, held, epoch, lapsed, robbed, faults>>

\* Mutant of Releases: the key is deleted whoever owns it.
ReleasesAny(l) == lock # Nobody

\* What release() of loop l takes away.  Redis compares the token, which the
\* loops of an instance share; the in-process table removes the name; Postgres
\* closes the session that its instance keeps under the name.
Releases(l) ==
  /\ lock # Nobody
  /\ CASE backend = "postgres" -> held[Inst(l)] # Nobody /\ lock.run = held[Inst(l)]
       [] OTHER -> lock.owner = <<Inst(l), epoch[Inst(l)]>>

Free(l) ==
  /\ lock' = IF Releases(l) THEN Nobody ELSE lock
  /\ robbed' = IF Releases(l) /\ lock.run \notin {l, Nobody}
               THEN [robbed EXCEPT ![lock.run] = TRUE] ELSE robbed
  /\ held' = IF backend = "postgres" THEN [held EXCEPT ![Inst(l)] = Nobody] ELSE held

Release(l) ==
  /\ pc[l] = "releasing"
  /\ Free(l)
  /\ Goto(l, "sleeping")
  /\ UNCHANGED <<backend, started, stop, asked, epoch, lapsed, faults>>

\* release() fails on the way: a Redis key stays until its TTL; the Postgres
\* client is dropped all the same, with the session it holds.
ReleaseErr(l) ==
  /\ pc[l] = "releasing" /\ Fault
  /\ Goto(l, "sleeping")
  /\ \/ /\ backend = "redis"
        /\ lock' = IF lock # Nobody /\ lock.run = l THEN Orphan(lock) ELSE lock
        /\ UNCHANGED <<held, robbed>>
     \/ /\ backend = "postgres" /\ held[Inst(l)] # Nobody
        /\ lock' = IF Releases(l) THEN Orphan(lock) ELSE lock
        /\ robbed' = IF Releases(l) /\ lock.run # l
                     THEN [robbed EXCEPT ![lock.run] = TRUE] ELSE robbed
        /\ held' = [held EXCEPT ![Inst(l)] = Nobody]
  /\ UNCHANGED <<backend, started, stop, asked, epoch, lapsed>>

-----------------------------------------------------------------------------
(* The world outside *)

\* A TTL runs out, with the run of the holder still going or not; or Postgres
\* ends the session of a client that is gone.
Expire ==
  /\ lock # Nobody /\ lock.ttl
  /\ lock' = Nobody
  /\ lapsed' = IF lock.run # Nobody THEN [lapsed EXCEPT ![lock.run] = TRUE] ELSE lapsed
  /\ UNCHANGED <<backend, started, stop, asked, pc, held, epoch, robbed, faults>>

\* Postgres loses the session of the holder.
SessionLost ==
  /\ backend = "postgres" /\ lock # Nobody /\ lock.run # Nobody /\ Fault
  /\ lock' = Nobody
  /\ lapsed' = [lapsed EXCEPT ![lock.run] = TRUE]
  /\ UNCHANGED <<backend, started, stop, asked, pc, held, epoch, robbed>>

\* A process dies and starts again with its tasks registered.  Its
\* in-process table dies with it; a Redis key stays for its TTL, a Postgres
\* session until the server notices.
Crash(i) ==
  /\ started[i] /\ Fault
  /\ started' = [started EXCEPT ![i] = FALSE]
  /\ stop' = [stop EXCEPT ![i] = FALSE]
  /\ asked' = [asked EXCEPT ![i] = FALSE]
  /\ pc' = [l \in Loops |-> IF Inst(l) = i THEN "registered" ELSE pc[l]]
  /\ held' = [held EXCEPT ![i] = Nobody]
  /\ epoch' = [epoch EXCEPT ![i] = @ + 1]
  /\ lock' = IF lock = Nobody \/ lock.owner[1] # i THEN lock
             ELSE IF backend = "inprocess" THEN Nobody ELSE Orphan(lock)
  /\ UNCHANGED <<backend, lapsed, robbed>>

-----------------------------------------------------------------------------
Loop(l) ==
  \/ Fire(l) \/ AcquireOk(l) \/ AcquireHeld(l) \/ AcquireErr(l)
  \/ BodyEnds(l) \/ Release(l) \/ ReleaseErr(l)

SchedulerNext ==
  \/ \E i \in Instances : Start(i) \/ Stop(i) \/ Crash(i)
  \/ \E l \in Loops : Loop(l) \/ ExitOnStop(l) \/ ExitDry(l)
  \/ Expire \/ SessionLost

SchedulerSpec == SchedulerInit /\ [][SchedulerNext]_schedulerVars

\* Loops are scheduled and bodies return; a TTL runs out; a select in which the
\* stop is ready again and again picks it at last, as its choice is random.
SchedulerFairSpec ==
  /\ SchedulerSpec
  /\ \A l \in Loops : WF_schedulerVars(Loop(l)) /\ SF_schedulerVars(ExitOnStop(l))
  /\ WF_schedulerVars(Expire)

-----------------------------------------------------------------------------
(* Properties *)

SchedulerTypeOK ==
  /\ backend \in Backends
  /\ started \in [Instances -> BOOLEAN]
  /\ stop \in [Instances -> BOOLEAN]
  /\ asked \in [Instances -> BOOLEAN]
  /\ pc \in [Loops -> {"registered", "sleeping", "acquiring", "running", "releasing", "exited"}]
  /\ lock = Nobody \/ lock \in Entries
  /\ lock # Nobody /\ backend = "postgres" => (lock.run = Nobody <=> lock.ttl)
  /\ held \in [Instances -> Loops \cup {Nobody}]
  /\ epoch \in [Instances -> 0..MaxFaults]
  /\ lapsed \in [Loops -> BOOLEAN]
  /\ robbed \in [Loops -> BOOLEAN]
  /\ faults \in 0..MaxFaults

\* Two runs of the job overlap only if one of them has outlived its lock (its
\* TTL or its session), or if the lock of one was released by a loop of the
\* same instance; a run whose lock is intact and its own is alone among such
\* runs, whatever crashes, whichever replies are lost.
OverlapNeedsLapse ==
  \A l, m \in Running : l # m => \E x \in {l, m} : lapsed[x] \/ robbed[x]

\* release() takes the lock of another run only if the run that ends has
\* outlived or lost its own, and only where the token cannot tell the two
\* apart: within an instance, never across instances.
RobbedAtHome ==
  [][\A l \in Loops :
       ~robbed[l] /\ robbed'[l] =>
         \E m \in Running : m # l /\ Inst(m) = Inst(l) /\ (lapsed[m] \/ robbed[m]) /\ pc'[m] = "sleeping"]_schedulerVars

\* A lock whose run is gone (crashed holder, lost reply, failed release) does
\* not block the job for ever.
NeverWedged ==
  (lock # Nobody /\ (lock.run = Nobody \/ lock.run \notin Running)) ~> lock = Nobody

\* stop(), before start() or after it, ends every loop of the instance: a run
\* in flight completes, and no loop fires for ever past the stop.
StopEnds ==
  \A i \in Instances :
    (asked[i] /\ started[i]) ~>
      ~started[i] \/ \A l \in Loops : Inst(l) = i => pc[l] = "exited"
=============================================================================
