------------------------------- MODULE Capacity -------------------------------
(***************************************************************************)
(* The storage account.  The dispatcher reserves an initial amount for     *)
(* every job it launches; the publisher lets the reservation grow to the   *)
(* size of the candidate, moves the file, records the artifact and turns   *)
(* the reservation into artifact bytes; both may first make room by        *)
(* evicting artifacts.  The account is in memory and begins at zero.       *)
(*                                                                         *)
(* CapacityManager has no await that suspends, so each of its operations,  *)
(* and what its caller does up to the next database or process await, is   *)
(* one step.  Job rows are in JobLifecycle, the protocol of a deletion is  *)
(* in ArtifactStore.                                                       *)
(***************************************************************************)
EXTENDS Integers, FiniteSets, FiniteSetsExt

CONSTANTS
  Jobs,         \* each job publishes at most one artifact
  Nobody,       \* not a job
  Total,        \* storage.capacity_bytes
  Headroom,     \* storage.safety_headroom_bytes
  Initial,      \* storage.unknown_size_initial_reservation_bytes
  Growth,       \* storage.reservation_growth_bytes
  Sizes,        \* sizes a candidate may have
  Concurrency,  \* app.worker_concurrency
  Faults,       \* which of the failures below may happen
  MaxRestarts   \* bound on the number of crashes

FaultKinds == {"disk",      \* the disk is full, or a file cannot be moved or removed
               "database",  \* a write of the publisher fails
               "launch",    \* launch raises an exception
               "worker"}    \* the worker produces no candidate

\* The configuration allows Growth = 0, with which grow never returns.
ASSUME CapacityAssumption ==
  /\ Nobody \notin Jobs
  /\ IsFiniteSet(Jobs)
  /\ Total \in Nat /\ Headroom \in Nat /\ Initial \in Nat
  /\ Growth \in Nat \ {0}
  /\ Sizes \subseteq Nat \ {0}
  /\ Concurrency \in Nat \ {0}
  /\ Faults \subseteq FaultKinds
  /\ MaxRestarts \in Nat

Evictors == {"launch", "publish"}

VARIABLES
  stage,          \* how far a job got
  size,           \* of its candidate or artifact, 0 before
  reserved,       \* CapacityManager._reservations, 0 if it has none
  artifactBytes,  \* CapacityManager._artifact_bytes
  file,           \* jobs whose artifact file is in place
  access,         \* access_state of the job's artifact row
  publishing,     \* the job that holds PublishService._lock
  dispatch,       \* the dispatcher and the job it launches
  slots,          \* value of Dispatcher._sem
  evicting,       \* the artifact an evictor is deleting
  restarts

account   == <<reserved, artifactBytes>>
disk      == <<file, access>>
launching == <<dispatch, slots>>
vars == <<stage, size, account, disk, publishing, launching, evicting, restarts>>

AtLeastZero(n) == IF n < 0 THEN 0 ELSE n

Bytes(jobs)    == MapThenSumSet(LAMBDA j : size[j], jobs)
Reserved(jobs) == MapThenSumSet(LAMBDA j : reserved[j], jobs)

Resting == [pc |-> "idle", job |-> Nobody]

------------------------------------------------------------------------------
(* CapacityManager.                                                         *)

\* snapshot().available_bytes, on a disk with enough free space.
Available == AtLeastZero(Total - artifactBytes - Reserved(Jobs) - Headroom)

Fits(amount)   == amount <= Available
Denied(amount) == amount > Available \/ (amount > 0 /\ "disk" \in Faults)

\* Mutant: a last chunk that is not full is left out.
GrownShort(current, required) ==
  IF required <= current THEN current
  ELSE current + ((required - current) \div Growth) * Growth

\* grow adds chunks until the reservation is large enough.
Grown(current, required) ==
  IF required <= current THEN current
  ELSE LET chunks == (required - current + Growth - 1) \div Growth
       IN current + chunks * Growth

------------------------------------------------------------------------------
(* The dispatcher: ClockAwareDispatcher.run_once and launch.                *)

Claim(j) ==
  /\ dispatch = Resting /\ slots > 0
  /\ stage[j] = "queued"
  /\ stage' = [stage EXCEPT ![j] = "launching"]
  /\ dispatch' = [pc |-> "payload", job |-> j]
  /\ slots' = slots - 1
  /\ UNCHANGED <<size, account, disk, publishing, evicting, restarts>>

\* run_once returns, or raises an exception that ends run_forever: the semaphore
\* is then released by the finally clause and again by the except clause.
EndLaunch(outcome) ==
  /\ stage' = [stage EXCEPT ![dispatch.job] = outcome]
  /\ dispatch' = Resting
  /\ slots' = slots + 1

LaunchRaises ==
  /\ "launch" \in Faults
  /\ dispatch.pc \in {"payload", "ensure", "spawn", "denied"}
  /\ stage' = [stage EXCEPT ![dispatch.job] = "over"]
  /\ dispatch' = [pc |-> "dead", job |-> Nobody]
  /\ slots' = slots + 2
  /\ evicting' = [evicting EXCEPT !["launch"] = Nobody]
  /\ UNCHANGED <<size, account, disk, publishing, restarts>>

\* The payload may be gone: the job was cancelled.
ReadPayload ==
  /\ dispatch.pc = "payload"
  /\ \/ /\ dispatch' = [dispatch EXCEPT !.pc = "ensure"]
        /\ UNCHANGED <<stage, slots>>
     \/ EndLaunch("over")
  /\ UNCHANGED <<size, account, disk, publishing, evicting, restarts>>

\* reserve, after ensure_capacity did what it could.
Reserve ==
  /\ dispatch.pc = "ensure" /\ evicting["launch"] = Nobody
  /\ Fits(Initial)
  /\ reserved' = [reserved EXCEPT ![dispatch.job] = Initial]
  /\ dispatch' = [dispatch EXCEPT !.pc = "spawn"]
  /\ UNCHANGED <<stage, size, artifactBytes, disk, publishing, slots, evicting, restarts>>

ReserveDenied ==
  /\ dispatch.pc = "ensure" /\ evicting["launch"] = Nobody
  /\ Denied(Initial)
  /\ dispatch' = [dispatch EXCEPT !.pc = "denied"]
  /\ UNCHANGED <<stage, size, account, disk, publishing, slots, evicting, restarts>>

\* The job is failed and its owner told.
ReportDenial ==
  /\ dispatch.pc = "denied"
  /\ EndLaunch("over")
  /\ UNCHANGED <<size, account, disk, publishing, evicting, restarts>>

\* The worker runs on its own from here, while its slot is given back.
Spawn ==
  /\ dispatch.pc = "spawn"
  /\ EndLaunch("running")
  /\ UNCHANGED <<size, account, disk, publishing, evicting, restarts>>

LaunchStep == \/ ReadPayload \/ Reserve \/ ReserveDenied \/ ReportDenial
              \/ Spawn \/ LaunchRaises

------------------------------------------------------------------------------
(* The worker and PublishService.publish_candidate.                         *)

Candidate(j, n) ==
  /\ stage[j] = "running"
  /\ stage' = [stage EXCEPT ![j] = "candidate"]
  /\ size' = [size EXCEPT ![j] = n]
  /\ UNCHANGED <<account, disk, publishing, launching, evicting, restarts>>

\* worker_failed; nothing releases the reservation.
WorkerFails(j) ==
  /\ "worker" \in Faults
  /\ stage[j] = "running"
  /\ stage' = [stage EXCEPT ![j] = "over"]
  /\ UNCHANGED <<size, account, disk, publishing, launching, evicting, restarts>>

EnterPublish(j) ==
  /\ stage[j] = "candidate"
  /\ publishing = Nobody
  /\ publishing' = j
  /\ stage' = [stage EXCEPT ![j] = "ensure"]
  /\ UNCHANGED <<size, account, disk, launching, evicting, restarts>>

\* Mutant: an exception leaves the lock taken.
LeaveKeepsLock(j, outcome) ==
  /\ stage' = [stage EXCEPT ![j] = outcome]
  /\ publishing' = IF outcome = "over" THEN publishing ELSE Nobody

\* The lock is released; after an exception the pump goes on without the job.
LeavePublish(j, outcome) ==
  /\ stage' = [stage EXCEPT ![j] = outcome]
  /\ publishing' = Nobody

\* grow, and then the file is moved.
GrowAndMove(j) ==
  LET target == Grown(reserved[j], size[j]) IN
  /\ stage[j] = "ensure" /\ evicting["publish"] = Nobody
  /\ Fits(target - reserved[j])
  /\ reserved' = [reserved EXCEPT ![j] = target]
  /\ \/ /\ file' = file \cup {j}
        /\ stage' = [stage EXCEPT ![j] = "moved"]
        /\ UNCHANGED publishing
     \/ /\ "disk" \in Faults
        /\ LeavePublish(j, "over")
        /\ UNCHANGED file
  /\ UNCHANGED <<size, artifactBytes, access, launching, evicting, restarts>>

GrowDenied(j) ==
  /\ stage[j] = "ensure" /\ evicting["publish"] = Nobody
  /\ Denied(Grown(reserved[j], size[j]) - reserved[j])
  /\ LeavePublish(j, "over")
  /\ UNCHANGED <<size, account, disk, launching, evicting, restarts>>

\* ensure_capacity fails, perhaps in the middle of a deletion.
EnsureFails(j) ==
  /\ "database" \in Faults
  /\ stage[j] = "ensure"
  /\ evicting' = [evicting EXCEPT !["publish"] = Nobody]
  /\ LeavePublish(j, "over")
  /\ UNCHANGED <<size, account, disk, launching, restarts>>

Record(j) ==
  /\ stage[j] = "moved"
  /\ stage' = [stage EXCEPT ![j] = "recorded"]
  /\ access' = [access EXCEPT ![j] = "available"]
  /\ UNCHANGED <<size, account, file, publishing, launching, evicting, restarts>>

RecordFails(j) ==
  /\ "database" \in Faults
  /\ stage[j] = "moved"
  /\ \/ file' = file \ {j}
     \/ "disk" \in Faults /\ UNCHANGED file
  /\ LeavePublish(j, "over")
  /\ UNCHANGED <<size, account, access, launching, evicting, restarts>>

\* The payload is deleted; then release and add_artifact_bytes.
Account(j) ==
  /\ stage[j] = "recorded"
  /\ stage' = [stage EXCEPT ![j] = "accounted"]
  /\ reserved' = [reserved EXCEPT ![j] = 0]
  /\ artifactBytes' = artifactBytes + size[j]
  /\ UNCHANGED <<size, disk, publishing, launching, evicting, restarts>>

\* The payload could not be deleted.
AccountFails(j) ==
  /\ "database" \in Faults
  /\ stage[j] = "recorded"
  /\ LeavePublish(j, "over")
  /\ UNCHANGED <<size, account, disk, launching, evicting, restarts>>

\* The transition to DELIVERING, after which the lock is released.
EndPublish(j) ==
  /\ stage[j] = "accounted"
  /\ LeavePublish(j, "done")
  /\ UNCHANGED <<size, account, disk, launching, evicting, restarts>>

PublishStep(j) == \/ GrowAndMove(j) \/ GrowDenied(j) \/ EnsureFails(j)
                  \/ Record(j) \/ RecordFails(j)
                  \/ Account(j) \/ AccountFails(j) \/ EndPublish(j)

------------------------------------------------------------------------------
(* CapacityEvictionService.ensure_capacity, while the caller waits for it;  *)
(* which artifact it takes, and when it has enough, is left open.           *)

Needed(e) == IF e = "launch"
               THEN IF dispatch.pc = "ensure" THEN Initial ELSE 0
               ELSE IF publishing # Nobody /\ stage[publishing] = "ensure"
                      THEN AtLeastZero(size[publishing] - reserved[publishing]) ELSE 0

EvictUnlink(e, a) ==
  /\ Needed(e) > 0 /\ evicting[e] = Nobody
  /\ access[a] = "available"
  /\ access' = [access EXCEPT ![a] = "pending"]
  /\ \/ /\ file' = file \ {a}
        /\ evicting' = [evicting EXCEPT ![e] = a]
     \/ /\ "disk" \in Faults
        /\ UNCHANGED <<file, evicting>>
  /\ UNCHANGED <<stage, size, account, publishing, launching, restarts>>

\* Mutant: the account may fall below zero.
EvictFinishUnclamped(e) ==
  /\ evicting[e] # Nobody
  /\ access' = [access EXCEPT ![evicting[e]] = "deleted"]
  /\ artifactBytes' = artifactBytes - size[evicting[e]]
  /\ evicting' = [evicting EXCEPT ![e] = Nobody]
  /\ UNCHANGED <<stage, size, reserved, file, publishing, launching, restarts>>

\* Mutant: the bytes are given back twice.
EvictFinishTwice(e) ==
  /\ evicting[e] # Nobody
  /\ access' = [access EXCEPT ![evicting[e]] = "deleted"]
  /\ artifactBytes' = AtLeastZero(artifactBytes - 2 * size[evicting[e]])
  /\ evicting' = [evicting EXCEPT ![e] = Nobody]
  /\ UNCHANGED <<stage, size, reserved, file, publishing, launching, restarts>>

\* finish_deletion, then add_artifact_bytes.
EvictFinish(e) ==
  /\ evicting[e] # Nobody
  /\ access' = [access EXCEPT ![evicting[e]] = "deleted"]
  /\ artifactBytes' = AtLeastZero(artifactBytes - size[evicting[e]])
  /\ evicting' = [evicting EXCEPT ![e] = Nobody]
  /\ UNCHANGED <<stage, size, reserved, file, publishing, launching, restarts>>

\* The cleanup loop and administrators delete artifacts too, a whole deletion in
\* this step; they tell the account nothing.
DeleteElsewhere(a) ==
  /\ access[a] = "available"
  /\ access' = [access EXCEPT ![a] = "deleted"]
  /\ file' = file \ {a}
  /\ UNCHANGED <<stage, size, account, publishing, launching, evicting, restarts>>

------------------------------------------------------------------------------
\* The process dies and is started again.  Nothing calls set_artifact_bytes, and
\* interrupted jobs are not resumed.
Restart ==
  /\ restarts < MaxRestarts
  /\ restarts' = restarts + 1
  /\ stage' = [j \in Jobs |-> IF stage[j] \in {"queued", "done"} THEN stage[j] ELSE "over"]
  /\ reserved' = [j \in Jobs |-> 0]
  /\ artifactBytes' = 0
  /\ publishing' = Nobody
  /\ dispatch' = Resting
  /\ slots' = Concurrency
  /\ evicting' = [e \in Evictors |-> Nobody]
  /\ UNCHANGED <<size, disk>>

Init ==
  /\ stage = [j \in Jobs |-> "queued"]
  /\ size = [j \in Jobs |-> 0]
  /\ reserved = [j \in Jobs |-> 0]
  /\ artifactBytes = 0
  /\ file = {}
  /\ access = [j \in Jobs |-> "none"]
  /\ publishing = Nobody
  /\ dispatch = Resting
  /\ slots = Concurrency
  /\ evicting = [e \in Evictors |-> Nobody]
  /\ restarts = 0

Next ==
  \/ LaunchStep
  \/ \E j \in Jobs : \/ Claim(j) \/ WorkerFails(j) \/ EnterPublish(j) \/ PublishStep(j)
                     \/ DeleteElsewhere(j)
                     \/ \E n \in Sizes : Candidate(j, n)
                     \/ \E e \in Evictors : EvictUnlink(e, j)
  \/ \E e \in Evictors : EvictFinish(e)
  \/ Restart

Spec == Init /\ [][Next]_vars

\* The event loop runs every coroutine that is ready, and asyncio.Lock serves its
\* waiters in order.  Nothing is assumed of workers, deletions and crashes.
Fairness ==
  /\ WF_vars(LaunchStep)
  /\ \A e \in Evictors : WF_vars(EvictFinish(e))
  /\ \A j \in Jobs : WF_vars(PublishStep(j)) /\ SF_vars(EnterPublish(j))

FairSpec == Spec /\ Fairness

------------------------------------------------------------------------------
(* Types.                                                                   *)

JobTypes ==
  /\ stage \in [Jobs -> {"queued", "launching", "running", "candidate", "ensure", "moved",
                         "recorded", "accounted", "done", "over"}]
  /\ size \in [Jobs -> Sizes \cup {0}]
  /\ reserved \in [Jobs -> Nat]
  /\ access \in [Jobs -> {"none", "available", "pending", "deleted"}]
  /\ file \in SUBSET Jobs

\* Account, files and coroutines hold values of the kind the code gives them.
TypeOK ==
  /\ JobTypes
  /\ artifactBytes \in Nat
  /\ publishing \in Jobs \cup {Nobody}
  /\ dispatch \in [pc : {"idle", "dead"}, job : {Nobody}] \cup
                  [pc : {"payload", "ensure", "denied", "spawn"}, job : Jobs]
  /\ slots \in 0 .. Concurrency + 1
  /\ evicting \in [Evictors -> Jobs \cup {Nobody}]
  /\ restarts \in 0 .. MaxRestarts

------------------------------------------------------------------------------
(* What holds of the account.                                               *)

\* A job whose file is moved or lost holds its reservation for nothing but that file.
Writing == {j \in Jobs : stage[j] \in {"launching", "running", "candidate", "ensure"}}

\* Until a crash, the space promised to running jobs is there: together with the
\* artifacts on disk it fits into the capacity less its headroom, whoever evicts,
\* publishes or fails in between.
PromisedSpaceExists ==
  restarts = 0 /\ Headroom <= Total
    => Bytes(file) + Reserved(Writing) <= Total - Headroom

\* A file the account has not taken over yet, or never will because its publication
\* failed, is paid for by the reservation its job still has.
FilesArePaidFor ==
  restarts = 0 =>
    \A j \in file : stage[j] \notin {"accounted", "done"} => size[j] <= reserved[j]

\* Publications take turns: every candidate gets its turn, though the ones before
\* it evict, are denied, or fail.
CandidatesAreHandled ==
  \A j \in Jobs : stage[j] = "candidate" ~> stage[j] \in {"done", "over"}

------------------------------------------------------------------------------
(* What the repository says and the code does not do.                       *)

\* worker_concurrency: "Maximum concurrent media workers" (domain/settings.py)
WorkersWithinLimit ==
  Cardinality({j \in Jobs : stage[j] = "running"}) <= Concurrency
================================================================================
