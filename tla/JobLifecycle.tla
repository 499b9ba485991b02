----------------------------- MODULE JobLifecycle -----------------------------
(***************************************************************************)
(* One row of the jobs table and everything that writes it: the submitting *)
(* command, cancel commands of users and administrators, the dispatcher,   *)
(* the pump that applies a worker's events, and the reclaiming of an       *)
(* expired or evicted artifact.  All of them are coroutines of one asyncio *)
(* process that share one SQLite connection, so a step here is what a      *)
(* coroutine does between two awaits, and every write is a compare-and-set *)
(* on the row's version.                                                   *)
(*                                                                         *)
(* A read is a step of its own and leaves the version it saw in the        *)
(* reader's record, where it may grow stale.  The process may crash and    *)
(* start again between any two steps: rows, payloads and artifacts stay,   *)
(* every coroutine is gone, and nothing is reconciled (bootstrap.py sets   *)
(* readiness.recovery without calling CleanupService).                     *)
(***************************************************************************)
EXTENDS Naturals, JobStates

CONSTANTS
  Jobs,         \* job ids; the id generator never repeats one
  NoJob,        \* "no job", for a coroutine that is between two
  Users,        \* cancel commands of owners that may be in flight at a time
  Admins,       \* /admin cancel commands that may be in flight at a time
  Faults,       \* which of the failures below may happen
  MaxRestarts   \* bound on the number of crashes

FaultKinds == {"ack",       \* the platform refuses the acknowledgement
               "capacity",  \* reserve or grow raises INSUFFICIENT_CAPACITY
               "disk",      \* a file operation or a spawn raises OSError
               "platform",  \* send_final or an upload raises
               "worker"}    \* the worker reports a failure or is killed

ASSUME ConstantsAssumption ==
  /\ NoJob \notin Jobs
  /\ Users \cap Admins = {}
  /\ Faults \subseteq FaultKinds
  /\ MaxRestarts \in Nat

Callers == Users \cup Admins

VARIABLES
  \* the jobs table
  state, version, dispatchable, cancelReq, started, older,
  \* job_payloads (the source URLs) and the artifact of each job
  payload, artifact,
  \* the coroutines
  submit, call, disp, worker, pump, reclaim,
  restarts

row     == <<state, version, dispatchable, cancelReq, started, older>>
store   == <<payload, artifact>>
actors  == <<submit, call, disp, worker, pump, reclaim>>
vars    == <<row, store, actors, restarts>>

Idle     == [pc |-> "idle", job |-> NoJob, version |-> 0]
Dead     == [pc |-> "dead", job |-> NoJob, version |-> 0]
Quiet    == [pc |-> "idle", version |-> 0, target |-> "none"]

Submitted == {j \in Jobs : state[j] # "absent"}

\* SqliteJobRepository.transition and the other conditional UPDATEs: the row
\* takes a new state when its version is still the expected one.
Current(j, v) == version[j] = v

SetState(j, s) ==
  /\ state' = [state EXCEPT ![j] = s]
  /\ version' = [version EXCEPT ![j] = @ + 1]

Transition(j, v, s) ==
  /\ IF Current(j, v) THEN SetState(j, s) ELSE UNCHANGED <<state, version>>
  /\ UNCHANGED <<dispatchable, cancelReq, started, older>>

------------------------------------------------------------------------------
(* JobService.submit_download: insert the row, store the URL, ask the      *)
(* platform to acknowledge, and only then make the job dispatchable.       *)

Create(j) ==
  /\ submit[j] = "idle"
  /\ submit' = [submit EXCEPT ![j] = "created"]
  /\ state' = [state EXCEPT ![j] = "queued"]
  /\ version' = [version EXCEPT ![j] = 1]
  /\ older' = older \cup (Submitted \X {j})
  /\ UNCHANGED <<dispatchable, cancelReq, started, store, call, disp, worker,
                 pump, reclaim, restarts>>

StorePayload(j) ==
  /\ submit[j] = "created"
  /\ submit' = [submit EXCEPT ![j] = "stored"]
  /\ payload' = payload \cup {j}
  /\ UNCHANGED <<row, artifact, call, disp, worker, pump, reclaim, restarts>>

Acknowledge(j) ==
  /\ submit[j] = "stored"
  /\ submit' = [submit EXCEPT ![j] = "acknowledged"]
  /\ UNCHANGED <<row, store, call, disp, worker, pump, reclaim, restarts>>

\* attach_message_reference: its read and its UPDATE compare the same version.
Attach(j) ==
  /\ submit[j] = "acknowledged"
  /\ submit' = [submit EXCEPT ![j] = "done"]
  /\ IF Current(j, 1)
       THEN /\ dispatchable' = [dispatchable EXCEPT ![j] = TRUE]
            /\ version' = [version EXCEPT ![j] = @ + 1]
       ELSE UNCHANGED <<dispatchable, version>>
  /\ UNCHANGED <<state, cancelReq, started, older, store, call, disp, worker,
                 pump, reclaim, restarts>>

\* The platform raised: delete the payload, then fail the job.
Refuse(j) ==
  /\ "ack" \in Faults
  /\ submit[j] = "stored"
  /\ submit' = [submit EXCEPT ![j] = "refused"]
  /\ payload' = payload \ {j}
  /\ UNCHANGED <<row, artifact, call, disp, worker, pump, reclaim, restarts>>

\* Mutant: the version is read again instead of the one the job was created with.
FailRefusedNow(j) ==
  /\ submit[j] = "refused"
  /\ submit' = [submit EXCEPT ![j] = "done"]
  /\ Transition(j, version[j], "failed")
  /\ UNCHANGED <<store, call, disp, worker, pump, reclaim, restarts>>

FailRefused(j) ==
  /\ submit[j] = "refused"
  /\ submit' = [submit EXCEPT ![j] = "done"]
  /\ Transition(j, 1, "failed")
  /\ UNCHANGED <<store, call, disp, worker, pump, reclaim, restarts>>

SubmitStep(j) == \/ Create(j) \/ StorePayload(j) \/ Acknowledge(j) \/ Attach(j)
                 \/ Refuse(j) \/ FailRefused(j)

------------------------------------------------------------------------------
(* JobService.cancel (users) and AdminService AdminCancel (administrators). *)
(* The two share request_cancellation and differ in the states they refuse, *)
(* in what they check after it, and in who deletes the payload.             *)

MayCancel(c, s) ==
  IF c \in Users THEN s \in UserCancellableStates \cup {"cancelling"}
                 ELSE s \notin {"completed", "cancelled", "failed"}

\* Mutants: whatever the state is, everyone goes on; or only an administrator does.
AfterRequestUnchecked(c, j) == [pc |-> "finish", job |-> j, version |-> version[j]]
AfterRequestForgets(c, j) ==
  IF c \in Admins THEN [pc |-> "finish", job |-> j, version |-> version[j]] ELSE Idle

\* Having got the row back from request_cancellation: a user's command goes on
\* only when it is CANCELLING, an administrator's whatever it is.
AfterRequest(c, j) ==
  IF c \in Admins \/ state[j] = "cancelling"
    THEN [pc |-> "finish", job |-> j, version |-> version[j]]
    ELSE Idle

CancelRead(c, j) ==
  /\ call[c] = Idle
  /\ j \in Submitted
  /\ MayCancel(c, state[j])
  /\ call' = [call EXCEPT ![c] = [pc |-> "request", job |-> j,
                                  version |-> version[j]]]
  /\ UNCHANGED <<row, store, submit, disp, worker, pump, reclaim, restarts>>

\* The version is compared twice in request_cancellation, first in a read that
\* also returns early when the flag is set, then in the UPDATE.
CancelRequest(c) ==
  LET j == call[c].job IN
  /\ call[c].pc = "request"
  /\ IF Current(j, call[c].version) /\ ~cancelReq[j]
       THEN /\ SetState(j, "cancelling")
            /\ cancelReq' = [cancelReq EXCEPT ![j] = TRUE]
            /\ call' = [call EXCEPT ![c].pc = "reload"]
       ELSE /\ call' = [call EXCEPT ![c] = IF Current(j, call[c].version)
                                             THEN AfterRequest(c, j) ELSE Idle]
            /\ UNCHANGED <<state, version, cancelReq>>
  /\ UNCHANGED <<dispatchable, started, older, store, submit, disp, worker,
                 pump, reclaim, restarts>>

\* The row request_cancellation returns is read after its UPDATE committed.
CancelReload(c) ==
  /\ call[c].pc = "reload"
  /\ call' = [call EXCEPT ![c] = AfterRequest(c, call[c].job)]
  /\ UNCHANGED <<row, store, submit, disp, worker, pump, reclaim, restarts>>

CancelFinish(c) ==
  LET j == call[c].job IN
  /\ call[c].pc = "finish"
  /\ Transition(j, call[c].version, "cancelled")
  /\ call' = [call EXCEPT ![c] = IF Current(j, call[c].version) /\ c \in Users
                                   THEN [@ EXCEPT !.pc = "scrub"] ELSE Idle]
  /\ UNCHANGED <<store, submit, disp, worker, pump, reclaim, restarts>>

CancelScrub(c) ==
  /\ call[c].pc = "scrub"
  /\ payload' = payload \ {call[c].job}
  /\ call' = [call EXCEPT ![c] = Idle]
  /\ UNCHANGED <<row, artifact, submit, disp, worker, pump, reclaim, restarts>>

CancelStep(c) == \/ CancelRequest(c) \/ CancelReload(c) \/ CancelFinish(c)
                 \/ CancelScrub(c)

------------------------------------------------------------------------------
(* The dispatcher's loop, SqliteJobRepository.claim_next and bootstrap's    *)
(* launch.  One coroutine runs them; it dies with the first exception.      *)

Claimable == {j \in Jobs : state[j] = "queued" /\ dispatchable[j] /\ ~cancelReq[j]}

\* SELECT ... ORDER BY created_at LIMIT 1.
ClaimSelect(j) ==
  /\ disp = Idle
  /\ j \in Claimable
  /\ \A k \in Claimable : <<k, j>> \notin older
  /\ disp' = [pc |-> "claim", job |-> j, version |-> version[j]]
  /\ UNCHANGED <<row, store, submit, call, worker, pump, reclaim, restarts>>

\* Mutant: the UPDATE does not compare the version and the state again.
ClaimGuardUnversioned(j, v) == dispatchable[j]

ClaimGuard(j, v) == Current(j, v) /\ state[j] = "queued" /\ dispatchable[j]

ClaimUpdate ==
  LET j == disp.job IN
  /\ disp.pc = "claim"
  /\ IF ClaimGuard(j, disp.version)
       THEN /\ SetState(j, "inspecting")
            /\ started' = [started EXCEPT ![j] = TRUE]
            /\ disp' = [disp EXCEPT !.pc = "launch"]
       ELSE /\ disp' = Idle
            /\ UNCHANGED <<state, version, started>>
  /\ UNCHANGED <<dispatchable, cancelReq, older, store, submit, call, worker,
                 pump, reclaim, restarts>>

\* launch: without a payload there is nothing to do, and the row stays as it is.
LaunchRead ==
  /\ disp.pc = "launch"
  /\ disp' = IF disp.job \in payload THEN [disp EXCEPT !.pc = "reserve"] ELSE Idle
  /\ UNCHANGED <<row, store, submit, call, worker, pump, reclaim, restarts>>

Reserve ==
  /\ disp.pc = "reserve"
  /\ disp' = [disp EXCEPT !.pc = "spawn"]
  /\ UNCHANGED <<row, store, submit, call, worker, pump, reclaim, restarts>>

\* Mutant: the payload is forgotten.
DenyKeepsUrl ==
  /\ "capacity" \in Faults
  /\ disp.pc = "reserve"
  /\ disp' = [disp EXCEPT !.pc = "denied"]
  /\ UNCHANGED <<row, store, submit, call, worker, pump, reclaim, restarts>>

\* Capacity denied: payload deleted, row read again, job failed, owner told.
Deny ==
  /\ "capacity" \in Faults
  /\ disp.pc = "reserve"
  /\ payload' = payload \ {disp.job}
  /\ disp' = [disp EXCEPT !.pc = "denied"]
  /\ UNCHANGED <<row, artifact, submit, call, worker, pump, reclaim, restarts>>

DenyRead ==
  /\ disp.pc = "denied"
  /\ disp' = [disp EXCEPT !.pc = "fail", !.version = version[disp.job]]
  /\ UNCHANGED <<row, store, submit, call, worker, pump, reclaim, restarts>>

DenyFail ==
  /\ disp.pc = "fail"
  /\ Transition(disp.job, disp.version, "failed")
  /\ disp' = [disp EXCEPT !.pc = "tell"]
  /\ UNCHANGED <<store, submit, call, worker, pump, reclaim, restarts>>

\* Mutant: the loop ends with its first launch.
SpawnOnce ==
  /\ disp.pc = "spawn"
  /\ worker' = [worker EXCEPT ![disp.job] = "spawned"]
  /\ disp' = Dead
  /\ UNCHANGED <<row, store, submit, call, pump, reclaim, restarts>>

\* Create the workspace and start the worker and the pump that reads it.
Spawn ==
  /\ disp.pc = "spawn"
  /\ worker' = [worker EXCEPT ![disp.job] = "spawned"]
  /\ disp' = Idle
  /\ UNCHANGED <<row, store, submit, call, pump, reclaim, restarts>>

DenyTell ==
  /\ disp.pc = "tell"
  /\ disp' = Idle
  /\ UNCHANGED <<row, store, submit, call, worker, pump, reclaim, restarts>>

\* An exception leaves run_once and run_forever: the loop's task is over.
DispatcherDies ==
  /\ \/ disp.pc = "spawn" /\ "disk" \in Faults
     \/ disp.pc = "tell" /\ "platform" \in Faults
  /\ disp' = Dead
  /\ UNCHANGED <<row, store, submit, call, worker, pump, reclaim, restarts>>

LaunchStep == \/ ClaimUpdate \/ LaunchRead \/ Reserve \/ Deny \/ DenyRead
              \/ DenyFail \/ Spawn \/ DenyTell \/ DispatcherDies

DispatchStep == LaunchStep \/ \E j \in Jobs : ClaimSelect(j)

------------------------------------------------------------------------------
(* A worker's event stream (worker_entrypoint.main) and the pump that       *)
(* hands it to Orchestrator.handle_event, one event at a time.  worker[j]   *)
(* is the last event the pump took from the pipe.  The entrypoint emits no  *)
(* progress_changed, so last_event_sequence stays 0 and no event is         *)
(* dropped as old.  An exception in the handler is swallowed by the pump.   *)

\* Mutant: one worker phase is not mapped to a job state.
PhaseEventsUnmapped ==
  {<<"spawned", "inspecting", "inspecting">>,
   <<"inspecting", "downloading", "downloading">>,
   <<"downloading", "processing", "processing">>,
   <<"processing", "processed", "post_processing">>}

PhaseEvents ==   \* <<before, event, target state>> in the order emitted
  {<<"spawned", "inspecting", "inspecting">>,
   <<"inspecting", "downloading", "downloading">>,
   <<"downloading", "processing", "post_processing">>,
   <<"processing", "processed", "post_processing">>}

Phases    == {e[2] : e \in PhaseEvents}
Running   == {"spawned", "candidate"} \cup Phases

PhaseIgnored == {"completed", "failed", "cancelled"}

\* Mutant: COMPLETED is missing.
FailIgnoredIncomplete == {"failed", "cancelled", "cancelled_by_restart",
                          "completed_with_errors"}
FailIgnored  == {"failed", "cancelled", "cancelled_by_restart", "completed",
                 "completed_with_errors"}

Handling(j, step, s) == [pc |-> step, version |-> version[j], target |-> s]

PhaseChanged(j, e) ==
  /\ pump[j] = Quiet
  /\ worker[j] = e[1]
  /\ worker' = [worker EXCEPT ![j] = e[2]]
  /\ pump' = [pump EXCEPT ![j] = IF state[j] \notin PhaseIgnored \cup {e[3]}
                                   THEN Handling(j, "phase", e[3]) ELSE Quiet]
  /\ UNCHANGED <<row, store, submit, call, disp, reclaim, restarts>>

PhaseWrite(j) ==
  /\ pump[j].pc = "phase"
  /\ Transition(j, pump[j].version, pump[j].target)
  /\ pump' = [pump EXCEPT ![j] = Quiet]
  /\ UNCHANGED <<store, submit, call, disp, worker, reclaim, restarts>>

\* artifact_candidate: no test of the job's state, publish whatever it is.
Candidate(j) ==
  /\ pump[j] = Quiet
  /\ worker[j] = "processed"
  /\ worker' = [worker EXCEPT ![j] = "candidate"]
  /\ pump' = [pump EXCEPT ![j] = Handling(j, "publish", "delivering")]
  /\ UNCHANGED <<row, store, submit, call, disp, reclaim, restarts>>

\* publish_candidate: move the file, insert the row, delete the payload, then
\* the transition with the version the handler started from.
PublishFile(j) ==
  /\ pump[j].pc = "publish"
  /\ artifact' = [artifact EXCEPT ![j] = "file"]
  /\ pump' = [pump EXCEPT ![j].pc = "record"]
  /\ UNCHANGED <<row, payload, submit, call, disp, worker, reclaim, restarts>>

RecordArtifact(j) ==
  /\ pump[j].pc = "record"
  /\ artifact' = [artifact EXCEPT ![j] = "available"]
  /\ pump' = [pump EXCEPT ![j].pc = "scrub"]
  /\ UNCHANGED <<row, payload, submit, call, disp, worker, reclaim, restarts>>

\* Mutant: the failure is swallowed before the transition instead of after it.
PublishFailsUnnoticed(j) ==
  /\ \/ pump[j].pc = "publish" /\ Faults \cap {"capacity", "disk"} # {}
     \/ pump[j].pc = "record" /\ "disk" \in Faults
  /\ artifact' = [artifact EXCEPT ![j] = "none"]
  /\ pump' = [pump EXCEPT ![j].pc = "scrub"]
  /\ UNCHANGED <<row, payload, submit, call, disp, worker, reclaim, restarts>>

\* grow denied, the move failed, or the INSERT failed and the file was deleted.
PublishFails(j) ==
  /\ \/ pump[j].pc = "publish" /\ Faults \cap {"capacity", "disk"} # {}
     \/ pump[j].pc = "record" /\ "disk" \in Faults
  /\ artifact' = [artifact EXCEPT ![j] = "none"]
  /\ pump' = [pump EXCEPT ![j] = Quiet]
  /\ UNCHANGED <<row, payload, submit, call, disp, worker, reclaim, restarts>>

ScrubPayload(j) ==
  /\ pump[j].pc \in {"scrub", "scrubFailed"}
  /\ payload' = payload \ {j}
  /\ pump' = [pump EXCEPT ![j].pc = IF @ = "scrub" THEN "delivering" ELSE "fail"]
  /\ UNCHANGED <<row, artifact, submit, call, disp, worker, reclaim, restarts>>

MarkDelivering(j) ==
  /\ pump[j].pc = "delivering"
  /\ Transition(j, pump[j].version, pump[j].target)
  /\ pump' = [pump EXCEPT ![j].pc = "deliver"]
  /\ UNCHANGED <<store, submit, call, disp, worker, reclaim, restarts>>

\* deliver returned: uploaded, linked, or given up on a transient refusal.  All
\* three lead to COMPLETED, over whatever the row read now holds.  (A job without
\* a message reference is not delivered.)
Deliver(j) ==
  /\ pump[j].pc = "deliver"
  /\ pump' = [pump EXCEPT ![j] = IF dispatchable[j]
                                   THEN Handling(j, "complete", "completed")
                                   ELSE Quiet]
  /\ UNCHANGED <<row, store, submit, call, disp, worker, reclaim, restarts>>

\* deliver raised: the event is lost and nothing will take the job further.
DeliverRaises(j) ==
  /\ pump[j].pc = "deliver"
  /\ "platform" \in Faults
  /\ pump' = [pump EXCEPT ![j] = Quiet]
  /\ UNCHANGED <<row, store, submit, call, disp, worker, reclaim, restarts>>

Complete(j) ==
  /\ pump[j].pc = "complete"
  /\ Transition(j, pump[j].version, "completed")
  /\ pump' = [pump EXCEPT ![j] = Quiet]
  /\ UNCHANGED <<store, submit, call, disp, worker, reclaim, restarts>>

Succeeded(j) ==
  /\ pump[j] = Quiet
  /\ worker[j] = "candidate"
  /\ worker' = [worker EXCEPT ![j] = "gone"]
  /\ UNCHANGED <<row, store, submit, call, disp, pump, reclaim, restarts>>

\* worker_failed from the worker itself, or made up by the pump when the process
\* exited non-zero without a final event (it may have been killed at any point).
WorkerFailed(j) ==
  /\ "worker" \in Faults
  /\ pump[j] = Quiet
  /\ worker[j] \in Running
  /\ worker' = [worker EXCEPT ![j] = "gone"]
  /\ pump' = [pump EXCEPT ![j] = IF state[j] \in FailIgnored THEN Quiet
                                 ELSE Handling(j, "scrubFailed", "failed")]
  /\ UNCHANGED <<row, store, submit, call, disp, reclaim, restarts>>

\* The owner is told after this whether or not the write took place.
FailWrite(j) ==
  /\ pump[j].pc = "fail"
  /\ Transition(j, pump[j].version, pump[j].target)
  /\ pump' = [pump EXCEPT ![j] = Quiet]
  /\ UNCHANGED <<store, submit, call, disp, worker, reclaim, restarts>>

PumpStep(j) == \/ \E e \in PhaseEvents : PhaseChanged(j, e)
               \/ PhaseWrite(j) \/ Candidate(j) \/ PublishFile(j)
               \/ RecordArtifact(j) \/ PublishFails(j) \/ ScrubPayload(j)
               \/ MarkDelivering(j) \/ Deliver(j) \/ DeliverRaises(j)
               \/ Complete(j) \/ Succeeded(j) \/ WorkerFailed(j) \/ FailWrite(j)

------------------------------------------------------------------------------
(* Expiry and eviction, as the job's row sees them (ArtifactStore has the   *)
(* deletion itself): once the artifact is deleted, read the job and, when   *)
(* it is settled, move it to EXPIRED or EVICTED.                            *)

ReclaimArtifact(j, to) ==
  /\ reclaim[j] = Quiet
  /\ artifact[j] = "available"
  /\ artifact' = [artifact EXCEPT ![j] = "deleted"]
  /\ reclaim' = [reclaim EXCEPT ![j] = IF state[j] \in ArtifactBearingJobStates
                                         THEN Handling(j, "write", to) ELSE Quiet]
  /\ UNCHANGED <<row, payload, submit, call, disp, worker, pump, restarts>>

ReclaimWrite(j) ==
  /\ reclaim[j].pc = "write"
  /\ Transition(j, reclaim[j].version, reclaim[j].target)
  /\ reclaim' = [reclaim EXCEPT ![j] = Quiet]
  /\ UNCHANGED <<store, submit, call, disp, worker, pump, restarts>>

------------------------------------------------------------------------------
\* The process dies and is started again.
Restart ==
  /\ restarts < MaxRestarts
  /\ restarts' = restarts + 1
  /\ submit' = [j \in Jobs |-> IF submit[j] = "idle" THEN "idle" ELSE "done"]
  /\ worker' = [j \in Jobs |-> IF worker[j] = "none" THEN "none" ELSE "gone"]
  /\ call' = [c \in Callers |-> Idle]
  /\ disp' = Idle
  /\ pump' = [j \in Jobs |-> Quiet]
  /\ reclaim' = [j \in Jobs |-> Quiet]
  /\ UNCHANGED <<row, store>>

Init ==
  /\ state = [j \in Jobs |-> "absent"]
  /\ version = [j \in Jobs |-> 0]
  /\ dispatchable = [j \in Jobs |-> FALSE]
  /\ cancelReq = [j \in Jobs |-> FALSE]
  /\ started = [j \in Jobs |-> FALSE]
  /\ older = {}
  /\ payload = {}
  /\ artifact = [j \in Jobs |-> "none"]
  /\ submit = [j \in Jobs |-> "idle"]
  /\ call = [c \in Callers |-> Idle]
  /\ disp = Idle
  /\ worker = [j \in Jobs |-> "none"]
  /\ pump = [j \in Jobs |-> Quiet]
  /\ reclaim = [j \in Jobs |-> Quiet]
  /\ restarts = 0

Next ==
  \/ \E j \in Jobs : SubmitStep(j) \/ PumpStep(j) \/ ReclaimWrite(j)
  \/ \E c \in Callers : CancelStep(c) \/ \E j \in Jobs : CancelRead(c, j)
  \/ DispatchStep
  \/ \E j \in Jobs, to \in {"expired", "evicted"} : ReclaimArtifact(j, to)
  \/ Restart

Spec == Init /\ [][Next]_vars

------------------------------------------------------------------------------
(* Types.                                                                   *)

SubmitSteps  == {"idle", "created", "stored", "acknowledged", "refused", "done"}
CallSteps    == {"request", "reload", "finish", "scrub"}
LaunchSteps  == {"launch", "reserve", "spawn", "denied", "fail", "tell"}
PumpSteps    == {"phase", "publish", "record", "scrub", "delivering", "deliver",
                 "complete", "scrubFailed", "fail"}
Targets      == JobStates \ {"queued"}

RowTypes ==
  /\ state \in [Jobs -> JobStates \cup {"absent"}]
  /\ version \in [Jobs -> Nat]
  /\ dispatchable \in [Jobs -> BOOLEAN]
  /\ cancelReq \in [Jobs -> BOOLEAN]
  /\ started \in [Jobs -> BOOLEAN]
  /\ older \in SUBSET (Jobs \X Jobs)

StoreTypes ==
  /\ payload \in SUBSET Jobs
  /\ artifact \in [Jobs -> {"none", "file", "available", "deleted"}]

ActorTypes ==
  /\ submit \in [Jobs -> SubmitSteps]
  /\ call \in [Callers -> {Idle} \cup [pc : CallSteps, job : Jobs, version : Nat]]
  /\ disp \in {Idle, Dead} \cup [pc : LaunchSteps \cup {"claim"}, job : Jobs,
                                 version : Nat]
  /\ worker \in [Jobs -> Running \cup {"none", "gone"}]
  /\ pump \in [Jobs -> {Quiet} \cup [pc : PumpSteps, version : Nat,
                                     target : Targets]]
  /\ reclaim \in [Jobs -> {Quiet} \cup [pc : {"write"}, version : Nat,
                                        target : {"expired", "evicted"}]]
  /\ restarts \in 0 .. MaxRestarts

\* Every row, store and coroutine holds values of the kind the code gives it.
TypeOK == RowTypes /\ StoreTypes /\ ActorTypes

------------------------------------------------------------------------------
(* What holds of every job.                                                 *)

Published(j) == artifact[j] \in {"available", "deleted"}

\* The source URL is deleted before the row says the download is over, so that
\* no crash between the two leaves the URL of a finished job behind.
FinishedJobHasNoUrl ==
  \A j \in Jobs :
    state[j] \in ArtifactBearingJobStates \cup {"delivering", "expired", "evicted"}
      => j \notin payload

\* A row says COMPLETED (or DELIVERING, EXPIRED, EVICTED) only of a job whose
\* artifact was recorded, and EXPIRED or EVICTED only once it was deleted.
OutcomeMatchesArtifact ==
  \A j \in Jobs :
    /\ state[j] \in {"delivering", "completed"} => Published(j)
    /\ state[j] \in {"expired", "evicted"} => artifact[j] = "deleted"

\* As long as no cancellation was requested and the artifact was not reclaimed,
\* the unchecked writes of all the coroutines together follow the domain's table
\* of allowed transitions.  (Both exceptions are real: a cancelled job may be
\* published, and the reclaiming of an artifact writes whatever the row says.)
FollowsDesignTable ==
  [][\A j \in Submitted :
       state'[j] # state[j] /\ ~cancelReq'[j] /\ state[j] \notin {"expired", "evicted"}
         => IsAllowedTransition(state[j], state'[j])]_vars

\* An outcome the owner was told of (COMPLETED or FAILED) gives way only to the
\* expiry of the artifact, unless an administrator's cancellation writes over it.
OnlyAdminOverwritesOutcome ==
  [][\A j \in Jobs :
       state[j] \in {"completed", "failed"} /\ state'[j] # state[j]
         => state'[j] \in {"expired", "evicted"}
            \/ \E c \in Admins : CancelRequest(c) \/ CancelFinish(c)]_vars

\* A job cancelled before a dispatcher claimed it stays cancelled, whatever its
\* submitting command, still waiting for the platform, does afterwards.
QueuedCancelIsFinal ==
  [][\A j \in Jobs :
       state[j] = "cancelled" /\ ~started[j] => state'[j] = "cancelled"]_vars

------------------------------------------------------------------------------
(* The abstract promise.                                                    *)

Stage(j) ==
  IF state[j] = "absent" THEN "absent"
  ELSE IF Published(j) THEN "published"
  ELSE IF worker[j] # "none" THEN "running"
  ELSE IF started[j] THEN "claimed"
  ELSE IF dispatchable[j] THEN "accepted" ELSE "submitted"

Promise == INSTANCE OncePerJob WITH
             stage <- [j \in Jobs |-> Stage(j)],
             cancelled <- {j \in Jobs : cancelReq[j]}

\* A job is accepted, claimed, run and published at most once each, in this
\* order, and never claimed after its cancellation was recorded.
KeepsPromise == Promise!Spec

------------------------------------------------------------------------------
(* Progress.                                                                *)

\* The event loop runs every coroutine that is not waiting; a worker that is
\* alive goes on emitting; the platform answers.  Commands are the users' and
\* failures are nobody's: neither is assumed to happen.
Fairness ==
  /\ \A j \in Jobs : /\ WF_vars(SubmitStep(j) /\ ~Create(j))
                     /\ WF_vars(PumpStep(j))
                     /\ WF_vars(ReclaimWrite(j))
  /\ \A c \in Callers : WF_vars(CancelStep(c))
  /\ WF_vars(DispatchStep)

FairSpec == Spec /\ Fairness

Settled(j) == state[j] \in TerminalJobStates \cup ArtifactBearingJobStates

\* The ways in which the program loses a job for good: it was interrupted by a crash;
\* the dispatcher died before launching it; publishing or delivering raised, and the
\* pump swallowed the exception.
Lost(j) ==
  \/ restarts > 0 /\ (~dispatchable[j] \/ started[j] \/ cancelReq[j])
  \/ /\ Faults \cap {"disk", "platform"} # {}
     /\ \/ disp = Dead /\ worker[j] = "none"
        \/ /\ state[j] \in {"post_processing", "delivering"}
           /\ worker[j] = "gone" /\ pump[j] = Quiet

\* Every submitted job reaches an outcome and stays with one, whatever
\* cancellations race with it and whenever its worker fails, unless it is lost in
\* one of these ways: there is no other.
EverySubmittedJobSettles ==
  \A j \in Jobs : state[j] = "queued" ~> [](Settled(j) \/ Lost(j))

------------------------------------------------------------------------------
(* What the repository says of its jobs and the code does not do: a run    *)
(* ends in a counterexample.                                                *)

\* "Mark active work cancelled_by_restart and drop payload/workspace."
\* (CleanupService.reconcile_interrupted_job)
RestartEndsActiveWork ==
  \A j \in Jobs : restarts > 0 /\ state[j] \in ActiveJobStates
                   ~> state[j] \notin ActiveJobStates
==============================================================================
