-------------------------- MODULE JobLifecycleProofs --------------------------
(***************************************************************************)
(* Theorems about JobLifecycle, for any set of jobs, any number of cancel  *)
(* commands, any set of failures and any number of crashes.                *)
(*                                                                         *)
(* None of the safety properties is inductive: a state where the payload   *)
(* is gone from a COMPLETED job says nothing of the submitting command     *)
(* that might still store it.  IInv adds what relates the rows to the      *)
(* steps the coroutines have reached, one named conjunct per question.     *)
(***************************************************************************)
EXTENDS JobLifecycle, TLAPS

\* How far a job is decided by facts that come in one order: submitted,
\* dispatchable, started, with a worker, with an artifact.
RowOrder ==
  \A j \in Jobs :
    /\ submit[j] = "idle" <=> state[j] = "absent"
    /\ dispatchable[j] => submit[j] = "done"
    /\ started[j] => dispatchable[j]
    /\ worker[j] # "none" => started[j]
    /\ artifact[j] # "none" => worker[j] \in {"candidate", "gone"}

\* The first version of a row is the one that was inserted, and no row comes
\* back to QUEUED.
FirstVersion ==
  \A j \in Jobs :
    /\ state[j] = "absent" => ~cancelReq[j] /\ j \notin payload
    /\ state[j] # "absent" => version[j] >= 1
    /\ state[j] # "absent" /\ version[j] = 1 => state[j] = "queued" /\ ~dispatchable[j]
    /\ state[j] = "queued" => ~cancelReq[j] /\ ~started[j]

\* A command that is not done knows nothing a cancellation did not write.
SubmitInv ==
  \A j \in Jobs :
    /\ submit[j] \in {"created", "stored", "acknowledged", "refused"}
         => state[j] \in {"queued", "cancelling", "cancelled"}
    /\ submit[j] = "refused" => j \notin payload

CancelInv ==
  /\ \A j \in Jobs : state[j] \in {"cancelling", "cancelled"} => cancelReq[j]
  /\ \A c \in Callers :
       /\ call[c] # Idle => state[call[c].job] # "absent"
       /\ call[c].pc \in {"reload", "finish", "scrub"} => cancelReq[call[c].job]

\* Only the job being launched has neither a worker nor a state of rest.
DispatchInv ==
  /\ disp.pc \in LaunchSteps => started[disp.job] /\ worker[disp.job] = "none"
  /\ disp.pc \in {"denied", "fail", "tell"} => disp.job \notin payload

PumpInv ==
  \A j \in Jobs :
    /\ pump[j].pc = "phase" => pump[j].target \in {e[3] : e \in PhaseEvents}
    /\ pump[j] # Quiet => worker[j] # "none"
    /\ pump[j].pc = "publish" => artifact[j] = "none" /\ worker[j] = "candidate"
    /\ pump[j].pc = "record" => artifact[j] = "file" /\ worker[j] = "candidate"
    /\ pump[j].pc \in {"scrub", "delivering", "deliver", "complete"} => Published(j)
    /\ pump[j].pc \in {"publish", "record", "scrub", "delivering"}
         => pump[j].target = "delivering"
    /\ pump[j].pc \in {"scrubFailed", "fail"} => pump[j].target = "failed"
    /\ pump[j].pc \in {"delivering", "deliver", "complete", "fail"} => j \notin payload

ReclaimInv ==
  \A j \in Jobs :
    reclaim[j] # Quiet => artifact[j] = "deleted" /\ j \notin payload

IInv == /\ TypeOK
        /\ RowOrder
        /\ FirstVersion
        /\ SubmitInv
        /\ CancelInv
        /\ DispatchInv
        /\ PumpInv
        /\ ReclaimInv
        /\ FinishedJobHasNoUrl
        /\ OutcomeMatchesArtifact

------------------------------------------------------------------------------
(* Types.                                                                   *)

\* A compare-and-set changes at most the state and the version of its job, and
\* the state only to the one it was given.
LEMMA TransitionEffect ==
  ASSUME RowTypes, NEW j \in Jobs, NEW v, NEW s, Transition(j, v, s)
  PROVE  /\ UNCHANGED <<dispatchable, cancelReq, started, older>>
         /\ \A k \in Jobs \ {j} : state'[k] = state[k] /\ version'[k] = version[k]
         /\ \/ version[j] = v /\ state'[j] = s /\ version'[j] = version[j] + 1
            \/ state'[j] = state[j] /\ version'[j] = version[j]
  BY DEF RowTypes, Transition, SetState, Current

\* A state other than QUEUED and a further version are of their types (SetState).
LEMMA SetStateTypes ==
  ASSUME RowTypes, NEW j \in Jobs, NEW s \in Targets, SetState(j, s)
  PROVE  state' \in [Jobs -> JobStates \cup {"absent"}] /\ version' \in [Jobs -> Nat]
  BY DEF SetState, RowTypes, Targets

\* A compare-and-set leaves a well-typed row (SqliteJobRepository.transition).
LEMMA TransitionTypes ==
  ASSUME RowTypes, NEW j \in Jobs, NEW v, NEW s \in Targets, Transition(j, v, s)
  PROVE  RowTypes'
  BY SetStateTypes DEF Transition, RowTypes

\* submit_download keeps the types.
LEMMA SubmitTypes ==
  ASSUME TypeOK, NEW j \in Jobs, SubmitStep(j)
  PROVE  TypeOK'
<1>1. RowTypes'
  <2>1. CASE Create(j)
    BY <2>1 DEF Create, Submitted, TypeOK, RowTypes, JobStates
  <2>2. CASE StorePayload(j) \/ Acknowledge(j) \/ Refuse(j)
    BY <2>2 DEF StorePayload, Acknowledge, Refuse, TypeOK, RowTypes, row
  <2>3. CASE Attach(j)
    <3>1. dispatchable' \in [Jobs -> BOOLEAN]
      BY <2>3 DEF Attach, TypeOK, RowTypes
    <3>2. version' \in [Jobs -> Nat]
      BY <2>3 DEF Attach, TypeOK, RowTypes
    <3> QED
      BY <2>3, <3>1, <3>2 DEF Attach, TypeOK, RowTypes
  <2>4. CASE FailRefused(j)
    BY <2>4, TransitionTypes DEF FailRefused, TypeOK, Targets, JobStates,
       ArtifactBearingJobStates
  <2> QED
    BY <2>1, <2>2, <2>3, <2>4 DEF SubmitStep
<1>2. StoreTypes' /\ ActorTypes'
  BY DEF SubmitStep, Create, StorePayload, Acknowledge, Attach, Refuse, FailRefused,
     TypeOK, StoreTypes, ActorTypes, SubmitSteps, store
<1> QED
  BY <1>1, <1>2 DEF TypeOK

\* Cancel commands keep the types.
LEMMA CancelTypes ==
  ASSUME TypeOK, NEW c \in Callers,
         CancelStep(c) \/ \E j \in Jobs : CancelRead(c, j)
  PROVE  TypeOK'
<1> DEFINE Recs == {Idle} \cup [pc : CallSteps, job : Jobs, version : Nat]
<1>1. CASE \E j \in Jobs : CancelRead(c, j)
  BY <1>1 DEF CancelRead, TypeOK, RowTypes, StoreTypes, ActorTypes, row, store, CallSteps
<1>2. CASE CancelStep(c)
  <2> DEFINE job == call[c].job
  <2>1. call[c] # Idle /\ job \in Jobs /\ call[c] \in Recs
    BY <1>2 DEF CancelStep, CancelRequest, CancelReload, CancelFinish, CancelScrub,
       TypeOK, ActorTypes, Idle
  <2>2. AfterRequest(c, job) \in Recs
    BY <2>1 DEF AfterRequest, TypeOK, RowTypes, CallSteps
  <2>3. CASE CancelRequest(c)
    <3>1. state' \in [Jobs -> JobStates \cup {"absent"}] /\ version' \in [Jobs -> Nat]
      BY <2>1, <2>3 DEF CancelRequest, SetState, TypeOK, RowTypes, JobStates,
         ActiveJobStates
    <3>2. RowTypes' /\ StoreTypes'
      BY <2>1, <2>3, <3>1 DEF CancelRequest, TypeOK, RowTypes, StoreTypes, store
    <3>3. call' \in [Callers -> Recs]
      BY <2>1, <2>2, <2>3 DEF CancelRequest, TypeOK, ActorTypes, CallSteps
    <3> QED
      BY <2>3, <3>2, <3>3 DEF CancelRequest, TypeOK, ActorTypes
  <2>4. CASE CancelReload(c)
    BY <2>1, <2>2, <2>4 DEF CancelReload, TypeOK, RowTypes, StoreTypes, ActorTypes,
       row, store
  <2>5. CASE CancelFinish(c)
    <3>1. RowTypes'
      BY <2>1, <2>5, TransitionTypes DEF CancelFinish, TypeOK, Targets, JobStates,
         TerminalJobStates
    <3>2. call' \in [Callers -> Recs]
      BY <2>1, <2>5 DEF CancelFinish, TypeOK, ActorTypes, CallSteps
    <3> QED
      BY <2>5, <3>1, <3>2 DEF CancelFinish, TypeOK, StoreTypes, ActorTypes, store
  <2>6. CASE CancelScrub(c)
    BY <2>6 DEF CancelScrub, TypeOK, RowTypes, StoreTypes, ActorTypes, row
  <2> QED
    BY <1>2, <2>3, <2>4, <2>5, <2>6 DEF CancelStep
<1> QED
  BY <1>1, <1>2

\* The dispatcher and launch keep the types.
LEMMA DispatchTypes ==
  ASSUME TypeOK, DispatchStep
  PROVE  TypeOK'
<1> DEFINE Recs == [pc : LaunchSteps \cup {"claim"}, job : Jobs, version : Nat]
<1>1. CASE \E j \in Jobs : ClaimSelect(j)
  BY <1>1 DEF ClaimSelect, TypeOK, RowTypes, StoreTypes, ActorTypes, row, store
<1>2. CASE LaunchStep
  <2>1. disp \in Recs
    BY <1>2 DEF LaunchStep, ClaimUpdate, LaunchRead, Reserve, Deny, DenyRead, DenyFail,
       Spawn, DenyTell, DispatcherDies, TypeOK, ActorTypes, Idle, Dead
  <2>2. RowTypes'
    <3>1. CASE ClaimUpdate
      <4>1. ClaimGuard(disp.job, disp.version) => SetState(disp.job, "inspecting")
        BY <3>1 DEF ClaimUpdate
      <4>2. state' \in [Jobs -> JobStates \cup {"absent"}] /\ version' \in [Jobs -> Nat]
        BY <2>1, <3>1, <4>1, SetStateTypes DEF ClaimUpdate, TypeOK, RowTypes, Targets,
           JobStates, ActiveJobStates
      <4>3. started' \in [Jobs -> BOOLEAN]
        BY <2>1, <3>1 DEF ClaimUpdate, TypeOK, RowTypes
      <4> QED
        BY <3>1, <4>2, <4>3 DEF ClaimUpdate, TypeOK, RowTypes
    <3>2. CASE DenyFail
      BY <2>1, <3>2, TransitionTypes DEF DenyFail, TypeOK, Targets, JobStates,
         ArtifactBearingJobStates
    <3> QED
      BY <1>2, <3>1, <3>2 DEF LaunchStep, LaunchRead, Reserve, Deny, DenyRead, Spawn,
         DenyTell, DispatcherDies, TypeOK, RowTypes, row
  <2>3. disp' \in {Idle, Dead} \cup Recs
    BY <1>2, <2>1 DEF LaunchStep, ClaimUpdate, LaunchRead, Reserve, Deny, DenyRead,
       DenyFail, Spawn, DenyTell, DispatcherDies, TypeOK, RowTypes, LaunchSteps
  <2>4. worker' \in [Jobs -> Running \cup {"none", "gone"}]
    BY <1>2, <2>1 DEF LaunchStep, ClaimUpdate, LaunchRead, Reserve, Deny, DenyRead,
       DenyFail, Spawn, DenyTell, DispatcherDies, TypeOK, ActorTypes, Running
  <2>5. StoreTypes' /\ UNCHANGED <<submit, call, pump, reclaim, restarts>>
    BY <1>2 DEF LaunchStep, ClaimUpdate, LaunchRead, Reserve, Deny, DenyRead,
       DenyFail, Spawn, DenyTell, DispatcherDies, TypeOK, StoreTypes, store
  <2> QED
    BY <2>2, <2>3, <2>4, <2>5 DEF TypeOK, ActorTypes
<1> QED
  BY <1>1, <1>2 DEF DispatchStep

\* A worker event and its handler keep the types.
LEMMA PumpTypes ==
  ASSUME TypeOK, NEW j \in Jobs, PumpStep(j)
  PROVE  TypeOK'
<1> DEFINE Recs == [pc : PumpSteps, version : Nat, target : Targets]
<1> USE DEF PumpStep, PhaseWrite, Candidate, PublishFile, RecordArtifact, PublishFails,
            ScrubPayload, MarkDelivering, Deliver, DeliverRaises, Complete, Succeeded,
            WorkerFailed, FailWrite
<1>1. \A step \in PumpSteps, s \in Targets : Handling(j, step, s) \in Recs
  BY DEF Handling, TypeOK, RowTypes
<1>2. {e[3] : e \in PhaseEvents} \cup {"delivering", "completed", "failed"} \subseteq Targets
  BY DEF PhaseEvents, Targets, JobStates, ActiveJobStates, ArtifactBearingJobStates
<1>3. pump[j] = Quiet \/ pump[j] \in Recs
  BY DEF TypeOK, ActorTypes
<1>4. CASE \E e \in PhaseEvents : PhaseChanged(j, e)
  <2>1. PICK e \in PhaseEvents : PhaseChanged(j, e)
    BY <1>4
  <2>2. pump' \in [Jobs -> {Quiet} \cup Recs]
    BY <1>1, <1>2, <2>1 DEF PhaseChanged, TypeOK, ActorTypes, PumpSteps
  <2>3. worker' \in [Jobs -> Running \cup {"none", "gone"}]
    BY <2>1 DEF PhaseChanged, TypeOK, ActorTypes, Running, Phases
  <2> QED
    BY <2>1, <2>2, <2>3 DEF PhaseChanged, TypeOK, RowTypes, StoreTypes, ActorTypes,
       row, store
<1>5. CASE ~ \E e \in PhaseEvents : PhaseChanged(j, e)
  <2>1. RowTypes'
    <3>1. CASE PhaseWrite(j) \/ MarkDelivering(j) \/ FailWrite(j)
      BY <1>3, <3>1, TransitionTypes DEF TypeOK, Quiet
    <3>2. CASE Complete(j)
      BY <1>2, <3>2, TransitionTypes DEF TypeOK
    <3> QED
      BY <1>5, <3>1, <3>2 DEF TypeOK, RowTypes, row
  <2>2. pump' \in [Jobs -> {Quiet} \cup Recs]
    BY <1>1, <1>2, <1>3, <1>5 DEF TypeOK, ActorTypes, PumpSteps, Quiet
  <2>3. worker' \in [Jobs -> Running \cup {"none", "gone"}]
    BY <1>5 DEF TypeOK, ActorTypes, Running
  <2>4. StoreTypes' /\ UNCHANGED <<submit, call, disp, reclaim, restarts>>
    BY <1>5 DEF TypeOK, StoreTypes, store
  <2> QED
    BY <2>1, <2>2, <2>3, <2>4 DEF TypeOK, ActorTypes
<1> QED
  BY <1>4, <1>5

\* Expiry and eviction keep the types.
LEMMA ReclaimTypes ==
  ASSUME TypeOK, NEW j \in Jobs,
         ReclaimWrite(j) \/ \E to \in {"expired", "evicted"} : ReclaimArtifact(j, to)
  PROVE  TypeOK'
<1>1. CASE ReclaimWrite(j)
  BY <1>1, TransitionTypes DEF ReclaimWrite, TypeOK, StoreTypes, ActorTypes, store,
     Quiet, Targets, JobStates, TerminalJobStates
<1>2. CASE \E to \in {"expired", "evicted"} : ReclaimArtifact(j, to)
  BY <1>2 DEF ReclaimArtifact, Handling, TypeOK, RowTypes, StoreTypes, ActorTypes, row
<1> QED
  BY <1>1, <1>2

\* A crash keeps the types.
LEMMA RestartTypes ==
  ASSUME TypeOK, Restart
  PROVE  TypeOK'
<1>1. restarts' \in 0 .. MaxRestarts
  BY ConstantsAssumption DEF Restart, TypeOK, ActorTypes
<1> QED
  BY <1>1 DEF Restart, TypeOK, RowTypes, StoreTypes, ActorTypes, SubmitSteps, row, store

\* An empty database is well typed.
LEMMA InitTypes == Init => TypeOK
  BY ConstantsAssumption DEF Init, TypeOK, RowTypes, StoreTypes, ActorTypes, SubmitSteps

\* Every step keeps the types.
LEMMA StepTypes ==
  ASSUME TypeOK, [Next]_vars
  PROVE  TypeOK'
<1>1. CASE UNCHANGED vars
  BY <1>1 DEF vars, row, store, actors, TypeOK, RowTypes, StoreTypes, ActorTypes
<1>2. CASE Next
  BY <1>2, SubmitTypes, CancelTypes, DispatchTypes, PumpTypes, ReclaimTypes,
     RestartTypes DEF Next
<1> QED
  BY <1>1, <1>2

\* Every reachable state is of the declared types.
THEOREM TypeCorrect == Spec => []TypeOK
  BY InitTypes, StepTypes, PTL DEF Spec

------------------------------------------------------------------------------
(* The inductive invariant.                                                 *)

\* An empty database satisfies the invariant.
LEMMA InitInv == Init => IInv
  BY InitTypes DEF Init, IInv, TypeOK, RowTypes, RowOrder, FirstVersion, SubmitInv, CancelInv,
     DispatchInv, PumpInv, ReclaimInv, FinishedJobHasNoUrl, OutcomeMatchesArtifact,
     Idle, Quiet, LaunchSteps, ArtifactBearingJobStates

\* A write of any other state leaves what is known of cancellations as it was.
LEMMA TransitionKeepsCancelInv ==
  ASSUME RowTypes, ActorTypes, CancelInv, UNCHANGED call,
         NEW j \in Jobs, NEW v, NEW s, Transition(j, v, s),
         s \notin {"absent", "cancelling", "cancelled"}
  PROVE  CancelInv'
<1>1. \A k \in Jobs : /\ state'[k] \in {"cancelling", "cancelled"} => cancelReq'[k]
                      /\ state[k] # "absent" => state'[k] # "absent"
                      /\ cancelReq'[k] = cancelReq[k]
  BY TransitionEffect DEF CancelInv
<1>2. \A c \in Callers : call[c] # Idle => call[c].job \in Jobs
  BY DEF ActorTypes
<1> QED
  BY <1>1, <1>2 DEF CancelInv, Idle, CallSteps

\* submit_download preserves the invariant: a step of it that stores the URL or
\* makes the row dispatchable finds a row nobody has claimed.
LEMMA SubmitPreserves ==
  ASSUME IInv, TypeOK', NEW j \in Jobs, SubmitStep(j)
  PROVE  IInv'
<1> USE DEF IInv, TypeOK, RowTypes, StoreTypes, ActorTypes
<1>1. CASE Create(j)
  <2>1. RowOrder' /\ FirstVersion'
    BY <1>1 DEF Create, RowOrder, FirstVersion, store
  <2>2. SubmitInv' /\ CancelInv' /\ DispatchInv' /\ PumpInv' /\ ReclaimInv'
    BY <1>1 DEF Create, SubmitInv, CancelInv, DispatchInv, PumpInv, ReclaimInv,
       Published, store
  <2>3. FinishedJobHasNoUrl' /\ OutcomeMatchesArtifact'
    BY <1>1 DEF Create, FinishedJobHasNoUrl, OutcomeMatchesArtifact, Published,
       ArtifactBearingJobStates, store
  <2> QED
    BY <2>1, <2>2, <2>3
<1>2. CASE StorePayload(j)
  <2>1. RowOrder' /\ FirstVersion'
    BY <1>2 DEF StorePayload, RowOrder, FirstVersion, row
  <2>2. SubmitInv' /\ CancelInv' /\ DispatchInv' /\ PumpInv' /\ ReclaimInv'
    BY <1>2 DEF StorePayload, RowOrder, SubmitInv, CancelInv, DispatchInv, PumpInv,
       ReclaimInv, Published, Quiet, LaunchSteps, row
  <2>3. FinishedJobHasNoUrl' /\ OutcomeMatchesArtifact'
    BY <1>2 DEF StorePayload, SubmitInv, FinishedJobHasNoUrl, OutcomeMatchesArtifact,
       Published, ArtifactBearingJobStates, row
  <2> QED
    BY <2>1, <2>2, <2>3
<1>3. CASE Acknowledge(j)
  <2>1. RowOrder' /\ FirstVersion'
    BY <1>3 DEF Acknowledge, RowOrder, FirstVersion, row, store
  <2>2. SubmitInv' /\ CancelInv' /\ DispatchInv' /\ PumpInv' /\ ReclaimInv'
    BY <1>3 DEF Acknowledge, SubmitInv, CancelInv, DispatchInv, PumpInv, ReclaimInv,
       Published, row, store
  <2>3. FinishedJobHasNoUrl' /\ OutcomeMatchesArtifact'
    BY <1>3 DEF Acknowledge, FinishedJobHasNoUrl, OutcomeMatchesArtifact, Published,
       row, store
  <2> QED
    BY <2>1, <2>2, <2>3
<1>4. CASE Attach(j)
  <2>1. RowOrder' /\ FirstVersion'
    BY <1>4 DEF Attach, RowOrder, FirstVersion, store
  <2>2. SubmitInv' /\ CancelInv' /\ DispatchInv' /\ PumpInv' /\ ReclaimInv'
    BY <1>4 DEF Attach, SubmitInv, CancelInv, DispatchInv, PumpInv, ReclaimInv,
       Published, store
  <2>3. FinishedJobHasNoUrl' /\ OutcomeMatchesArtifact'
    BY <1>4 DEF Attach, FinishedJobHasNoUrl, OutcomeMatchesArtifact, Published, store
  <2> QED
    BY <2>1, <2>2, <2>3
<1>5. CASE Refuse(j)
  <2>1. RowOrder' /\ FirstVersion'
    BY <1>5 DEF Refuse, RowOrder, FirstVersion, row
  <2>2. SubmitInv' /\ CancelInv' /\ DispatchInv' /\ PumpInv' /\ ReclaimInv'
    BY <1>5 DEF Refuse, SubmitInv, CancelInv, DispatchInv, PumpInv, ReclaimInv,
       Published, row
  <2>3. FinishedJobHasNoUrl' /\ OutcomeMatchesArtifact'
    BY <1>5 DEF Refuse, FinishedJobHasNoUrl, OutcomeMatchesArtifact, Published, row
  <2> QED
    BY <2>1, <2>2, <2>3
<1>6. CASE FailRefused(j)
  <2>1. RowOrder' /\ FirstVersion'
    BY <1>6 DEF FailRefused, RowOrder, FirstVersion, Transition, SetState, store
  <2>2. SubmitInv' /\ CancelInv' /\ DispatchInv' /\ PumpInv' /\ ReclaimInv'
    BY <1>6 DEF FailRefused, SubmitInv, CancelInv, DispatchInv, PumpInv, ReclaimInv,
       Transition, SetState, Published, store
  <2>3. FinishedJobHasNoUrl' /\ OutcomeMatchesArtifact'
    BY <1>6 DEF FailRefused, SubmitInv, FinishedJobHasNoUrl, OutcomeMatchesArtifact,
       Transition, SetState, Published, store
  <2> QED
    BY <2>1, <2>2, <2>3
<1> QED
  BY <1>1, <1>2, <1>3, <1>4, <1>5, <1>6 DEF SubmitStep

\* Cancel commands preserve the invariant: a command past its request has left
\* the flag behind, and nothing clears it.
LEMMA CancelPreserves ==
  ASSUME IInv, TypeOK', NEW c \in Callers,
         CancelStep(c) \/ \E j \in Jobs : CancelRead(c, j)
  PROVE  IInv'
<1> USE DEF IInv, TypeOK, RowTypes, StoreTypes, ActorTypes
<1>1. CASE \E j \in Jobs : CancelRead(c, j)
  <2>1. RowOrder' /\ FirstVersion'
    BY <1>1 DEF CancelRead, RowOrder, FirstVersion, row, store
  <2>2. SubmitInv' /\ CancelInv' /\ DispatchInv' /\ PumpInv' /\ ReclaimInv'
    BY <1>1 DEF CancelRead, SubmitInv, CancelInv, DispatchInv, PumpInv, ReclaimInv,
       Published, Submitted, row, store
  <2>3. FinishedJobHasNoUrl' /\ OutcomeMatchesArtifact'
    BY <1>1 DEF CancelRead, FinishedJobHasNoUrl, OutcomeMatchesArtifact, Published, row,
       store
  <2> QED
    BY <2>1, <2>2, <2>3
<1>2. CASE CancelRequest(c)
  <2>1. RowOrder' /\ FirstVersion'
    BY <1>2 DEF CancelRequest, RowOrder, FirstVersion, CancelInv, SetState, Idle, store
  <2>2. SubmitInv'
    BY <1>2 DEF CancelRequest, SubmitInv, SetState, store
  <2>3. CancelInv'
    <3>1. call[c] # Idle /\ call[c].job \in Jobs /\ state[call[c].job] # "absent"
      BY <1>2 DEF CancelRequest, CancelInv, Idle
    <3>2. \A k \in Jobs : /\ state'[k] \in {"cancelling", "cancelled"} => cancelReq'[k]
                          /\ state[k] # "absent" => state'[k] # "absent"
                          /\ cancelReq[k] => cancelReq'[k]
      BY <1>2, <3>1 DEF CancelRequest, SetState, CancelInv
    <3>3. call'[c] # Idle => call'[c].job = call[c].job /\ cancelReq'[call[c].job]
      BY <1>2, <3>1 DEF CancelRequest, AfterRequest, Idle, CancelInv, CallSteps
    <3>4. \A d \in Callers \ {c} : call'[d] = call[d]
      BY <1>2 DEF CancelRequest
    <3>5. \A d \in Callers : call[d] # Idle => call[d].job \in Jobs
      OBVIOUS
    <3> QED
      BY <3>1, <3>2, <3>3, <3>4, <3>5 DEF CancelInv, Idle, CallSteps
  <2>4. DispatchInv'
    BY <1>2 DEF CancelRequest, DispatchInv, store
  <2>5. PumpInv'
    BY <1>2 DEF CancelRequest, PumpInv, Published, store
  <2>6. ReclaimInv'
    BY <1>2 DEF CancelRequest, ReclaimInv, store
  <2>7. FinishedJobHasNoUrl' /\ OutcomeMatchesArtifact'
    BY <1>2 DEF CancelRequest, FinishedJobHasNoUrl, OutcomeMatchesArtifact, SetState,
       Published, ArtifactBearingJobStates, store
  <2> QED
    BY <2>1, <2>2, <2>3, <2>4, <2>5, <2>6, <2>7
<1>3. CASE CancelReload(c)
  <2>1. RowOrder' /\ FirstVersion'
    BY <1>3 DEF CancelReload, RowOrder, FirstVersion, row, store
  <2>2. SubmitInv' /\ CancelInv' /\ DispatchInv' /\ PumpInv' /\ ReclaimInv'
    BY <1>3 DEF CancelReload, SubmitInv, CancelInv, DispatchInv, PumpInv, ReclaimInv,
       Published, Idle, AfterRequest, row, store
  <2>3. FinishedJobHasNoUrl' /\ OutcomeMatchesArtifact'
    BY <1>3 DEF CancelReload, FinishedJobHasNoUrl, OutcomeMatchesArtifact, Published,
       row, store
  <2> QED
    BY <2>1, <2>2, <2>3
<1>4. CASE CancelFinish(c)
  <2>1. RowOrder' /\ FirstVersion'
    BY <1>4 DEF CancelFinish, RowOrder, FirstVersion, CancelInv, Transition, SetState,
       store
  <2>2. SubmitInv' /\ CancelInv' /\ DispatchInv' /\ PumpInv' /\ ReclaimInv'
    BY <1>4 DEF CancelFinish, SubmitInv, CancelInv, DispatchInv, PumpInv, ReclaimInv,
       Transition, SetState, Published, Idle, store
  <2>3. FinishedJobHasNoUrl' /\ OutcomeMatchesArtifact'
    BY <1>4 DEF CancelFinish, FinishedJobHasNoUrl, OutcomeMatchesArtifact, Transition,
       SetState, Published, ArtifactBearingJobStates, store
  <2> QED
    BY <2>1, <2>2, <2>3
<1>5. CASE CancelScrub(c)
  <2>1. RowOrder' /\ FirstVersion'
    BY <1>5 DEF CancelScrub, RowOrder, FirstVersion, row
  <2>2. SubmitInv' /\ CancelInv' /\ DispatchInv' /\ PumpInv' /\ ReclaimInv'
    BY <1>5 DEF CancelScrub, SubmitInv, CancelInv, DispatchInv, PumpInv, ReclaimInv,
       Published, Idle, row
  <2>3. FinishedJobHasNoUrl' /\ OutcomeMatchesArtifact'
    BY <1>5 DEF CancelScrub, FinishedJobHasNoUrl, OutcomeMatchesArtifact, Published, row
  <2> QED
    BY <2>1, <2>2, <2>3
<1> QED
  BY <1>1, <1>2, <1>3, <1>4, <1>5 DEF CancelStep

\* The dispatcher and launch preserve the invariant: the job it holds has been
\* started and has no worker yet.
LEMMA DispatchPreserves ==
  ASSUME IInv, TypeOK', DispatchStep
  PROVE  IInv'
<1> USE DEF IInv, TypeOK, RowTypes, StoreTypes, ActorTypes
<1>1. CASE \E j \in Jobs : ClaimSelect(j)
  <2>1. RowOrder' /\ FirstVersion'
    BY <1>1 DEF ClaimSelect, RowOrder, FirstVersion, row, store
  <2>2. SubmitInv' /\ CancelInv' /\ DispatchInv' /\ PumpInv' /\ ReclaimInv'
    BY <1>1 DEF ClaimSelect, SubmitInv, CancelInv, DispatchInv, PumpInv, ReclaimInv,
       Published, LaunchSteps, row, store
  <2>3. FinishedJobHasNoUrl' /\ OutcomeMatchesArtifact'
    BY <1>1 DEF ClaimSelect, FinishedJobHasNoUrl, OutcomeMatchesArtifact, Published,
       row, store
  <2> QED
    BY <2>1, <2>2, <2>3
<1>2. CASE ClaimUpdate
  <2>1. RowOrder' /\ FirstVersion'
    BY <1>2 DEF ClaimUpdate, ClaimGuard, RowOrder, FirstVersion, SetState, store
  <2>2. SubmitInv'
    BY <1>2 DEF ClaimUpdate, ClaimGuard, RowOrder, SubmitInv, SetState, store
  <2>3. CancelInv'
    BY <1>2 DEF ClaimUpdate, CancelInv, SetState
  <2>4. DispatchInv'
    BY <1>2 DEF ClaimUpdate, ClaimGuard, RowOrder, FirstVersion, DispatchInv, Idle,
       LaunchSteps
  <2>5. PumpInv'
    BY <1>2 DEF ClaimUpdate, PumpInv, Published, store
  <2>6. ReclaimInv'
    BY <1>2 DEF ClaimUpdate, ReclaimInv, store
  <2>7. FinishedJobHasNoUrl' /\ OutcomeMatchesArtifact'
    BY <1>2 DEF ClaimUpdate, FinishedJobHasNoUrl, OutcomeMatchesArtifact, SetState,
       Published, ArtifactBearingJobStates, store
  <2> QED
    BY <2>1, <2>2, <2>3, <2>4, <2>5, <2>6, <2>7
<1>3. CASE LaunchRead
  <2>1. RowOrder' /\ FirstVersion'
    BY <1>3 DEF LaunchRead, RowOrder, FirstVersion, row, store
  <2>2. SubmitInv' /\ CancelInv' /\ DispatchInv' /\ PumpInv' /\ ReclaimInv'
    BY <1>3 DEF LaunchRead, SubmitInv, CancelInv, DispatchInv, PumpInv, ReclaimInv,
       Published, Idle, LaunchSteps, row, store
  <2>3. FinishedJobHasNoUrl' /\ OutcomeMatchesArtifact'
    BY <1>3 DEF LaunchRead, FinishedJobHasNoUrl, OutcomeMatchesArtifact, Published, row,
       store
  <2> QED
    BY <2>1, <2>2, <2>3
<1>4. CASE Reserve
  <2>1. RowOrder' /\ FirstVersion'
    BY <1>4 DEF Reserve, RowOrder, FirstVersion, row, store
  <2>2. SubmitInv' /\ CancelInv' /\ DispatchInv' /\ PumpInv' /\ ReclaimInv'
    BY <1>4 DEF Reserve, SubmitInv, CancelInv, DispatchInv, PumpInv, ReclaimInv,
       Published, LaunchSteps, row, store
  <2>3. FinishedJobHasNoUrl' /\ OutcomeMatchesArtifact'
    BY <1>4 DEF Reserve, FinishedJobHasNoUrl, OutcomeMatchesArtifact, Published, row,
       store
  <2> QED
    BY <2>1, <2>2, <2>3
<1>5. CASE Deny
  <2>1. RowOrder' /\ FirstVersion'
    BY <1>5 DEF Deny, RowOrder, FirstVersion, row
  <2>2. SubmitInv' /\ CancelInv' /\ DispatchInv' /\ PumpInv' /\ ReclaimInv'
    BY <1>5 DEF Deny, SubmitInv, CancelInv, DispatchInv, PumpInv, ReclaimInv, Published,
       LaunchSteps, row
  <2>3. FinishedJobHasNoUrl' /\ OutcomeMatchesArtifact'
    BY <1>5 DEF Deny, FinishedJobHasNoUrl, OutcomeMatchesArtifact, Published, row
  <2> QED
    BY <2>1, <2>2, <2>3
<1>6. CASE DenyRead
  <2>1. RowOrder' /\ FirstVersion'
    BY <1>6 DEF DenyRead, RowOrder, FirstVersion, row, store
  <2>2. SubmitInv' /\ CancelInv' /\ DispatchInv' /\ PumpInv' /\ ReclaimInv'
    BY <1>6 DEF DenyRead, SubmitInv, CancelInv, DispatchInv, PumpInv, ReclaimInv,
       Published, LaunchSteps, row, store
  <2>3. FinishedJobHasNoUrl' /\ OutcomeMatchesArtifact'
    BY <1>6 DEF DenyRead, FinishedJobHasNoUrl, OutcomeMatchesArtifact, Published, row,
       store
  <2> QED
    BY <2>1, <2>2, <2>3
<1>7. CASE DenyFail
  <2>1. RowOrder' /\ FirstVersion'
    BY <1>7 DEF DenyFail, RowOrder, FirstVersion, DispatchInv, Transition, SetState,
       LaunchSteps, store
  <2>2. SubmitInv' /\ CancelInv' /\ DispatchInv' /\ PumpInv' /\ ReclaimInv'
    BY <1>7 DEF DenyFail, RowOrder, SubmitInv, CancelInv, DispatchInv, PumpInv,
       ReclaimInv, Transition, SetState, Published, LaunchSteps, store
  <2>3. FinishedJobHasNoUrl' /\ OutcomeMatchesArtifact'
    BY <1>7 DEF DenyFail, DispatchInv, FinishedJobHasNoUrl, OutcomeMatchesArtifact,
       Transition, SetState, Published, store
  <2> QED
    BY <2>1, <2>2, <2>3
<1>8. CASE Spawn
  <2>1. RowOrder' /\ FirstVersion'
    BY <1>8 DEF Spawn, RowOrder, FirstVersion, DispatchInv, LaunchSteps, row, store
  <2>2. SubmitInv' /\ CancelInv' /\ DispatchInv' /\ PumpInv' /\ ReclaimInv'
    BY <1>8 DEF Spawn, SubmitInv, CancelInv, DispatchInv, PumpInv, ReclaimInv,
       Published, Idle, LaunchSteps, row, store
  <2>3. FinishedJobHasNoUrl' /\ OutcomeMatchesArtifact'
    BY <1>8 DEF Spawn, FinishedJobHasNoUrl, OutcomeMatchesArtifact, Published, row,
       store
  <2> QED
    BY <2>1, <2>2, <2>3
<1>9. CASE DenyTell
  <2>1. RowOrder' /\ FirstVersion'
    BY <1>9 DEF DenyTell, RowOrder, FirstVersion, row, store
  <2>2. SubmitInv' /\ CancelInv' /\ DispatchInv' /\ PumpInv' /\ ReclaimInv'
    BY <1>9 DEF DenyTell, SubmitInv, CancelInv, DispatchInv, PumpInv, ReclaimInv,
       Published, Idle, LaunchSteps, row, store
  <2>3. FinishedJobHasNoUrl' /\ OutcomeMatchesArtifact'
    BY <1>9 DEF DenyTell, FinishedJobHasNoUrl, OutcomeMatchesArtifact, Published, row,
       store
  <2> QED
    BY <2>1, <2>2, <2>3
<1>10. CASE DispatcherDies
  <2>1. RowOrder' /\ FirstVersion'
    BY <1>10 DEF DispatcherDies, RowOrder, FirstVersion, row, store
  <2>2. SubmitInv' /\ CancelInv' /\ DispatchInv' /\ PumpInv' /\ ReclaimInv'
    BY <1>10 DEF DispatcherDies, SubmitInv, CancelInv, DispatchInv, PumpInv, ReclaimInv,
       Published, Dead, LaunchSteps, row, store
  <2>3. FinishedJobHasNoUrl' /\ OutcomeMatchesArtifact'
    BY <1>10 DEF DispatcherDies, FinishedJobHasNoUrl, OutcomeMatchesArtifact, Published,
       row, store
  <2> QED
    BY <2>1, <2>2, <2>3
<1> QED
  BY <1>1, <1>2, <1>3, <1>4, <1>5, <1>6, <1>7, <1>8, <1>9, <1>10 DEF DispatchStep, LaunchStep

\* The event handler preserves the invariant: what it has still to do is decided by
\* what the artifact and the URL have become.
LEMMA PumpPreserves ==
  ASSUME IInv, TypeOK', NEW j \in Jobs, PumpStep(j)
  PROVE  IInv'
<1> USE DEF IInv, TypeOK, RowTypes, StoreTypes, ActorTypes
<1>1. CASE \E e \in PhaseEvents : PhaseChanged(j, e)
  <2>1. RowOrder' /\ FirstVersion'
    BY <1>1 DEF PhaseChanged, RowOrder, FirstVersion, PhaseEvents, row, store
  <2>2. SubmitInv' /\ CancelInv' /\ DispatchInv' /\ PumpInv' /\ ReclaimInv'
    BY <1>1 DEF PhaseChanged, SubmitInv, CancelInv, DispatchInv, PumpInv, ReclaimInv,
       Published, PhaseEvents, Handling, row, store
  <2>3. FinishedJobHasNoUrl' /\ OutcomeMatchesArtifact'
    BY <1>1 DEF PhaseChanged, FinishedJobHasNoUrl, OutcomeMatchesArtifact, Published,
       row, store
  <2> QED
    BY <2>1, <2>2, <2>3
<1>2. CASE PhaseWrite(j)
  <2>1. RowOrder' /\ FirstVersion'
    BY <1>2 DEF PhaseWrite, RowOrder, FirstVersion, PumpInv, Transition, SetState,
       Quiet, PhaseEvents, store
  <2>2. SubmitInv'
    BY <1>2 DEF PhaseWrite, RowOrder, SubmitInv, PumpInv, Transition, SetState, Quiet,
       store
  <2>3. CancelInv'
    BY <1>2, TransitionKeepsCancelInv DEF PhaseWrite, PumpInv, PhaseEvents
  <2>4. DispatchInv'
    BY <1>2 DEF PhaseWrite, DispatchInv, Transition, store
  <2>5. PumpInv'
    BY <1>2 DEF PhaseWrite, PumpInv, Transition, Published, Quiet, store
  <2>6. ReclaimInv'
    BY <1>2 DEF PhaseWrite, ReclaimInv, Transition, store
  <2>7. FinishedJobHasNoUrl' /\ OutcomeMatchesArtifact'
    BY <1>2 DEF PhaseWrite, PumpInv, FinishedJobHasNoUrl, OutcomeMatchesArtifact,
       Transition, SetState, Published, ArtifactBearingJobStates, PhaseEvents, store
  <2> QED
    BY <2>1, <2>2, <2>3, <2>4, <2>5, <2>6, <2>7
<1>3. CASE Candidate(j)
  <2>1. RowOrder' /\ FirstVersion'
    BY <1>3 DEF Candidate, RowOrder, FirstVersion, row, store
  <2>2. SubmitInv' /\ CancelInv' /\ DispatchInv' /\ PumpInv' /\ ReclaimInv'
    BY <1>3 DEF Candidate, RowOrder, SubmitInv, CancelInv, DispatchInv, PumpInv,
       ReclaimInv, Published, Handling, row, store
  <2>3. FinishedJobHasNoUrl' /\ OutcomeMatchesArtifact'
    BY <1>3 DEF Candidate, FinishedJobHasNoUrl, OutcomeMatchesArtifact, Published, row,
       store
  <2> QED
    BY <2>1, <2>2, <2>3
<1>4. CASE PublishFile(j)
  <2>1. RowOrder' /\ FirstVersion'
    BY <1>4 DEF PublishFile, RowOrder, FirstVersion, PumpInv, row
  <2>2. SubmitInv' /\ CancelInv' /\ DispatchInv' /\ PumpInv' /\ ReclaimInv'
    BY <1>4 DEF PublishFile, SubmitInv, CancelInv, DispatchInv, PumpInv, ReclaimInv,
       Published, row
  <2>3. FinishedJobHasNoUrl' /\ OutcomeMatchesArtifact'
    BY <1>4 DEF PublishFile, PumpInv, FinishedJobHasNoUrl, OutcomeMatchesArtifact,
       Published, row
  <2> QED
    BY <2>1, <2>2, <2>3
<1>5. CASE RecordArtifact(j)
  <2>1. RowOrder' /\ FirstVersion'
    BY <1>5 DEF RecordArtifact, RowOrder, FirstVersion, PumpInv, row
  <2>2. SubmitInv' /\ CancelInv' /\ DispatchInv' /\ PumpInv' /\ ReclaimInv'
    BY <1>5 DEF RecordArtifact, SubmitInv, CancelInv, DispatchInv, PumpInv, ReclaimInv,
       Published, row
  <2>3. FinishedJobHasNoUrl' /\ OutcomeMatchesArtifact'
    BY <1>5 DEF RecordArtifact, PumpInv, FinishedJobHasNoUrl, OutcomeMatchesArtifact,
       Published, row
  <2> QED
    BY <2>1, <2>2, <2>3
<1>6. CASE PublishFails(j)
  <2>1. RowOrder' /\ FirstVersion'
    BY <1>6 DEF PublishFails, RowOrder, FirstVersion, row
  <2>2. SubmitInv' /\ CancelInv' /\ DispatchInv' /\ PumpInv' /\ ReclaimInv'
    BY <1>6 DEF PublishFails, SubmitInv, CancelInv, DispatchInv, PumpInv, ReclaimInv,
       Published, Quiet, row
  <2>3. FinishedJobHasNoUrl' /\ OutcomeMatchesArtifact'
    BY <1>6 DEF PublishFails, PumpInv, FinishedJobHasNoUrl, OutcomeMatchesArtifact,
       Published, row
  <2> QED
    BY <2>1, <2>2, <2>3
<1>7. CASE ScrubPayload(j)
  <2>1. RowOrder' /\ FirstVersion'
    BY <1>7 DEF ScrubPayload, RowOrder, FirstVersion, row
  <2>2. SubmitInv' /\ CancelInv' /\ DispatchInv' /\ PumpInv' /\ ReclaimInv'
    BY <1>7 DEF ScrubPayload, SubmitInv, CancelInv, DispatchInv, PumpInv, ReclaimInv,
       Published, Quiet, row
  <2>3. FinishedJobHasNoUrl' /\ OutcomeMatchesArtifact'
    BY <1>7 DEF ScrubPayload, FinishedJobHasNoUrl, OutcomeMatchesArtifact, Published,
       row
  <2> QED
    BY <2>1, <2>2, <2>3
<1>8. CASE MarkDelivering(j)
  <2>1. RowOrder' /\ FirstVersion'
    BY <1>8 DEF MarkDelivering, RowOrder, FirstVersion, PumpInv, Transition, SetState,
       Quiet, store
  <2>2. SubmitInv'
    BY <1>8 DEF MarkDelivering, RowOrder, SubmitInv, PumpInv, Transition, SetState,
       Quiet, store
  <2>3. CancelInv'
    BY <1>8, TransitionKeepsCancelInv DEF MarkDelivering, PumpInv
  <2>4. DispatchInv'
    BY <1>8 DEF MarkDelivering, DispatchInv, Transition, store
  <2>5. PumpInv'
    BY <1>8 DEF MarkDelivering, RowOrder, PumpInv, Transition, Published, store
  <2>6. ReclaimInv'
    BY <1>8 DEF MarkDelivering, ReclaimInv, Transition, store
  <2>7. FinishedJobHasNoUrl' /\ OutcomeMatchesArtifact'
    BY <1>8 DEF MarkDelivering, PumpInv, FinishedJobHasNoUrl, OutcomeMatchesArtifact,
       Transition, SetState, Published, store
  <2> QED
    BY <2>1, <2>2, <2>3, <2>4, <2>5, <2>6, <2>7
<1>9. CASE Deliver(j)
  <2>1. RowOrder' /\ FirstVersion'
    BY <1>9 DEF Deliver, RowOrder, FirstVersion, row, store
  <2>2. SubmitInv' /\ CancelInv' /\ DispatchInv' /\ PumpInv' /\ ReclaimInv'
    BY <1>9 DEF Deliver, RowOrder, SubmitInv, CancelInv, DispatchInv, PumpInv,
       ReclaimInv, Published, Handling, row, store
  <2>3. FinishedJobHasNoUrl' /\ OutcomeMatchesArtifact'
    BY <1>9 DEF Deliver, FinishedJobHasNoUrl, OutcomeMatchesArtifact, Published, row,
       store
  <2> QED
    BY <2>1, <2>2, <2>3
<1>10. CASE DeliverRaises(j)
  <2>1. RowOrder' /\ FirstVersion'
    BY <1>10 DEF DeliverRaises, RowOrder, FirstVersion, row, store
  <2>2. SubmitInv' /\ CancelInv' /\ DispatchInv' /\ PumpInv' /\ ReclaimInv'
    BY <1>10 DEF DeliverRaises, SubmitInv, CancelInv, DispatchInv, PumpInv, ReclaimInv,
       Published, Quiet, row, store
  <2>3. FinishedJobHasNoUrl' /\ OutcomeMatchesArtifact'
    BY <1>10 DEF DeliverRaises, FinishedJobHasNoUrl, OutcomeMatchesArtifact, Published,
       row, store
  <2> QED
    BY <2>1, <2>2, <2>3
<1>11. CASE Complete(j)
  <2>1. RowOrder' /\ FirstVersion'
    BY <1>11 DEF Complete, RowOrder, FirstVersion, PumpInv, Transition, SetState, Quiet,
       store
  <2>2. SubmitInv'
    BY <1>11 DEF Complete, RowOrder, SubmitInv, PumpInv, Transition, SetState, Quiet,
       store
  <2>3. CancelInv'
    BY <1>11, TransitionKeepsCancelInv DEF Complete
  <2>4. DispatchInv'
    BY <1>11 DEF Complete, DispatchInv, Transition, store
  <2>5. PumpInv'
    BY <1>11 DEF Complete, PumpInv, Transition, Published, Quiet, store
  <2>6. ReclaimInv'
    BY <1>11 DEF Complete, ReclaimInv, Transition, store
  <2>7. FinishedJobHasNoUrl' /\ OutcomeMatchesArtifact'
    BY <1>11 DEF Complete, PumpInv, FinishedJobHasNoUrl, OutcomeMatchesArtifact,
       Transition, SetState, Published, store
  <2> QED
    BY <2>1, <2>2, <2>3, <2>4, <2>5, <2>6, <2>7
<1>12. CASE Succeeded(j)
  <2>1. RowOrder' /\ FirstVersion'
    BY <1>12 DEF Succeeded, RowOrder, FirstVersion, row, store
  <2>2. SubmitInv' /\ CancelInv' /\ DispatchInv' /\ PumpInv' /\ ReclaimInv'
    BY <1>12 DEF Succeeded, SubmitInv, CancelInv, DispatchInv, PumpInv, ReclaimInv,
       Published, Quiet, row, store
  <2>3. FinishedJobHasNoUrl' /\ OutcomeMatchesArtifact'
    BY <1>12 DEF Succeeded, FinishedJobHasNoUrl, OutcomeMatchesArtifact, Published, row,
       store
  <2> QED
    BY <2>1, <2>2, <2>3
<1>13. CASE WorkerFailed(j)
  <2>1. RowOrder' /\ FirstVersion'
    BY <1>13 DEF WorkerFailed, RowOrder, FirstVersion, Running, Phases, PhaseEvents,
       row, store
  <2>2. SubmitInv' /\ CancelInv' /\ DispatchInv' /\ PumpInv' /\ ReclaimInv'
    BY <1>13 DEF WorkerFailed, SubmitInv, CancelInv, DispatchInv, PumpInv, ReclaimInv,
       Published, Quiet, Running, Phases, PhaseEvents, Handling, row, store
  <2>3. FinishedJobHasNoUrl' /\ OutcomeMatchesArtifact'
    BY <1>13 DEF WorkerFailed, FinishedJobHasNoUrl, OutcomeMatchesArtifact, Published,
       row, store
  <2> QED
    BY <2>1, <2>2, <2>3
<1>14. CASE FailWrite(j)
  <2>1. RowOrder' /\ FirstVersion'
    BY <1>14 DEF FailWrite, RowOrder, FirstVersion, PumpInv, Transition, SetState,
       Quiet, store
  <2>2. SubmitInv'
    BY <1>14 DEF FailWrite, RowOrder, SubmitInv, PumpInv, Transition, SetState, Quiet,
       store
  <2>3. CancelInv'
    BY <1>14, TransitionKeepsCancelInv DEF FailWrite, PumpInv
  <2>4. DispatchInv'
    BY <1>14 DEF FailWrite, DispatchInv, Transition, store
  <2>5. PumpInv'
    BY <1>14 DEF FailWrite, PumpInv, Transition, Published, Quiet, store
  <2>6. ReclaimInv'
    BY <1>14 DEF FailWrite, ReclaimInv, Transition, store
  <2>7. FinishedJobHasNoUrl' /\ OutcomeMatchesArtifact'
    BY <1>14 DEF FailWrite, PumpInv, FinishedJobHasNoUrl, OutcomeMatchesArtifact,
       Transition, SetState, Published, store
  <2> QED
    BY <2>1, <2>2, <2>3, <2>4, <2>5, <2>6, <2>7
<1> QED
  BY <1>1, <1>2, <1>3, <1>4, <1>5, <1>6, <1>7, <1>8, <1>9, <1>10, <1>11, <1>12, <1>13, <1>14 DEF PumpStep

\* Expiry and eviction preserve the invariant: the artifact is gone before the row
\* says so.
LEMMA ReclaimPreserves ==
  ASSUME IInv, TypeOK', NEW j \in Jobs,
         ReclaimWrite(j) \/ \E to \in {"expired", "evicted"} : ReclaimArtifact(j, to)
  PROVE  IInv'
<1> USE DEF IInv, TypeOK, RowTypes, StoreTypes, ActorTypes
<1>1. CASE ReclaimWrite(j)
  <2>1. RowOrder'
    BY <1>1 DEF ReclaimWrite, RowOrder, ReclaimInv, Transition, SetState, Quiet, store
  <2>2. FirstVersion'
    BY <1>1 DEF ReclaimWrite, RowOrder, FirstVersion, ReclaimInv, Transition, SetState,
       Quiet, store
  <2>3. SubmitInv'
    BY <1>1 DEF ReclaimWrite, RowOrder, SubmitInv, ReclaimInv, Transition, SetState,
       Quiet, store
  <2>4. CancelInv'
    BY <1>1, TransitionKeepsCancelInv DEF ReclaimWrite, Quiet
  <2>5. DispatchInv'
    BY <1>1 DEF ReclaimWrite, DispatchInv, Transition, store
  <2>6. PumpInv'
    BY <1>1 DEF ReclaimWrite, PumpInv, Transition, Published, store
  <2>7. ReclaimInv'
    BY <1>1 DEF ReclaimWrite, ReclaimInv, Transition, store
  <2>8. FinishedJobHasNoUrl' /\ OutcomeMatchesArtifact'
    BY <1>1 DEF ReclaimWrite, ReclaimInv, FinishedJobHasNoUrl, OutcomeMatchesArtifact,
       Transition, SetState, Published, Quiet, store
  <2> QED
    BY <2>1, <2>2, <2>3, <2>4, <2>5, <2>6, <2>7, <2>8
<1>2. CASE \E to \in {"expired", "evicted"} : ReclaimArtifact(j, to)
  <2>1. RowOrder' /\ FirstVersion'
    BY <1>2 DEF ReclaimArtifact, RowOrder, FirstVersion, row
  <2>2. SubmitInv' /\ CancelInv' /\ DispatchInv' /\ PumpInv' /\ ReclaimInv'
    BY <1>2 DEF ReclaimArtifact, SubmitInv, CancelInv, DispatchInv, PumpInv, ReclaimInv,
       FinishedJobHasNoUrl, Transition, Published, row
  <2>3. FinishedJobHasNoUrl' /\ OutcomeMatchesArtifact'
    BY <1>2 DEF ReclaimArtifact, FinishedJobHasNoUrl, OutcomeMatchesArtifact, Published,
       row
  <2> QED
    BY <2>1, <2>2, <2>3
<1> QED
  BY <1>1, <1>2

\* A crash preserves the invariant: it only takes coroutines away.
LEMMA RestartPreserves ==
  ASSUME IInv, TypeOK', Restart
  PROVE  IInv'
<1> USE DEF IInv, TypeOK, RowTypes, StoreTypes, ActorTypes
<1>1. CASE Restart
  <2>1. RowOrder' /\ FirstVersion'
    BY <1>1 DEF Restart, RowOrder, FirstVersion, row, store
  <2>2. SubmitInv' /\ CancelInv' /\ DispatchInv' /\ PumpInv' /\ ReclaimInv'
    BY <1>1 DEF Restart, SubmitInv, CancelInv, DispatchInv, PumpInv, ReclaimInv, Idle,
       Quiet, LaunchSteps, row
  <2>3. FinishedJobHasNoUrl' /\ OutcomeMatchesArtifact'
    BY <1>1 DEF Restart, FinishedJobHasNoUrl, OutcomeMatchesArtifact, Published, row,
       store
  <2> QED
    BY <2>1, <2>2, <2>3
<1> QED
  BY <1>1


\* The invariant speaks of nothing but the variables.
LEMMA StutterPreserves ==
  ASSUME IInv, UNCHANGED vars
  PROVE  IInv'
<1> USE DEF vars, row, store, actors
<1>1. TypeOK'
  BY StepTypes DEF IInv
<1>2. RowOrder' /\ FirstVersion' /\ SubmitInv' /\ CancelInv'
  BY DEF IInv, RowOrder, FirstVersion, SubmitInv, CancelInv
<1>3. DispatchInv' /\ PumpInv' /\ ReclaimInv'
  BY DEF IInv, DispatchInv, PumpInv, ReclaimInv, Published
<1>4. FinishedJobHasNoUrl' /\ OutcomeMatchesArtifact'
  BY DEF IInv, FinishedJobHasNoUrl, OutcomeMatchesArtifact, Published
<1> QED
  BY <1>1, <1>2, <1>3, <1>4 DEF IInv

\* Every step preserves the invariant.
LEMMA StepInv ==
  ASSUME IInv, [Next]_vars
  PROVE  IInv'
<1>1. TypeOK'
  BY StepTypes DEF IInv
<1>2. CASE Next
  BY <1>1, <1>2, SubmitPreserves, CancelPreserves, DispatchPreserves, PumpPreserves,
     ReclaimPreserves, RestartPreserves DEF Next
<1> QED
  BY <1>2, StutterPreserves

\* Rows, URLs and artifacts always agree with the steps the coroutines reached.
THEOREM Invariance == Spec => []IInv
  BY InitInv, StepInv, PTL DEF Spec

\* No reachable state has the URL of a job whose row says the download is over:
\* every path to such a row deletes the payload first, and no submission that
\* could store it again is left (JobService, launch, PublishService).
THEOREM NoUrlLeft == Spec => []FinishedJobHasNoUrl
<1>1. IInv => FinishedJobHasNoUrl
  BY DEF IInv
<1> QED
  BY <1>1, Invariance, PTL

\* A row is DELIVERING or COMPLETED only with a recorded artifact, and EXPIRED
\* or EVICTED only after its deletion (PublishService, CapacityEvictionService).
THEOREM OutcomeIsTrue == Spec => []OutcomeMatchesArtifact
<1>1. IInv => OutcomeMatchesArtifact
  BY DEF IInv
<1> QED
  BY <1>1, Invariance, PTL

------------------------------------------------------------------------------
(* A job cancelled before its claim.                                        *)

\* No step takes a cancelled job that was never claimed out of CANCELLED.
LEMMA CancelledUnstartedStays ==
  ASSUME IInv, Next, NEW j \in Jobs, state[j] = "cancelled", ~started[j]
  PROVE  state'[j] = "cancelled"
<1> USE DEF IInv, TypeOK, RowTypes, ActorTypes
<1>1. cancelReq[j] /\ version[j] # 1 /\ worker[j] = "none" /\ artifact[j] = "none"
  BY DEF CancelInv, FirstVersion, RowOrder
<1>2. pump[j] = Quiet /\ reclaim[j] = Quiet
  BY <1>1 DEF PumpInv, ReclaimInv
<1>3. \A k \in Jobs : SubmitStep(k) => state'[j] = state[j]
  BY <1>1 DEF SubmitStep, Create, StorePayload, Acknowledge, Attach, Refuse, FailRefused,
     Transition, SetState, Current, RowOrder, row
<1>4. \A k \in Jobs : PumpStep(k) => state'[j] = state[j]
  BY <1>1, <1>2 DEF PumpStep, PhaseChanged, PhaseWrite, Candidate, PublishFile,
     RecordArtifact, PublishFails, ScrubPayload, MarkDelivering, Deliver, DeliverRaises,
     Complete, Succeeded, WorkerFailed, FailWrite, Transition, SetState, Quiet, row
<1>5. \A k \in Jobs : ReclaimWrite(k) => state'[j] = state[j]
  BY <1>2 DEF ReclaimWrite, Transition, SetState, Quiet
<1>6. \A c \in Callers : CancelStep(c) => state'[j] = "cancelled"
  BY <1>1 DEF CancelStep, CancelRequest, CancelReload, CancelFinish, CancelScrub,
     Transition, SetState, row
<1>7. DispatchStep => state'[j] = state[j]
  BY DEF DispatchStep, LaunchStep, ClaimSelect, ClaimUpdate, ClaimGuard, LaunchRead,
     Reserve, Deny, DenyRead, DenyFail, Spawn, DenyTell, DispatcherDies, DispatchInv,
     LaunchSteps, Transition, SetState, row
<1> QED
  BY <1>3, <1>4, <1>5, <1>6, <1>7 DEF Next, CancelRead, ReclaimArtifact, Restart, row

\* A job cancelled while it was still queued stays cancelled, although its own
\* command may still attach a message, fail it or store its URL.
THEOREM CancelledBeforeClaim == Spec => QueuedCancelIsFinal
<1>1. IInv /\ [Next]_vars
        => [\A j \in Jobs : state[j] = "cancelled" /\ ~started[j]
                              => state'[j] = "cancelled"]_vars
  BY CancelledUnstartedStays
<1> QED
  BY <1>1, Invariance, PTL DEF Spec, QueuedCancelIsFinal

------------------------------------------------------------------------------
(* Refinement of OncePerJob.                                                *)

\* The facts a job's stage is computed from.
LEMMA StageDepends ==
  ASSUME NEW j \in Jobs,
         state'[j] = "absent" <=> state[j] = "absent",
         Published(j)' <=> Published(j),
         worker'[j] = "none" <=> worker[j] = "none",
         started'[j] <=> started[j],
         dispatchable'[j] <=> dispatchable[j]
  PROVE  Stage(j)' = Stage(j)
  BY DEF Stage

\* When one job takes the next stage and no cancellation is recorded, OncePerJob
\* takes a step.
LEMMA StageAdvances ==
  ASSUME NEW j \in Jobs, NEW from, NEW to, Stage(j) = from, Stage(j)' = to,
         \A k \in Jobs \ {j} : Stage(k)' = Stage(k), UNCHANGED cancelReq
  PROVE  Promise!Advance(j, from, to)
  BY DEF Promise!Advance

\* A step that leaves every fact of StageDepends alone leaves the stages alone.
LEMMA StageStutters ==
  ASSUME \A k \in Jobs : /\ state'[k] = "absent" <=> state[k] = "absent"
                         /\ Published(k)' <=> Published(k)
                         /\ worker'[k] = "none" <=> worker[k] = "none",
         UNCHANGED <<dispatchable, started, cancelReq>>
  PROVE  UNCHANGED Promise!vars
<1>1. \A k \in Jobs : Stage(k)' = Stage(k)
  BY StageDepends
<1> QED
  BY <1>1 DEF Promise!vars

\* An empty database maps to the initial state of the promise.
LEMMA InitRefines == Init => Promise!Init
  BY DEF Init, Promise!Init, Stage

\* What a step of each kind does to the stages.  Only six steps change one.
LEMMA SubmitRefines ==
  ASSUME IInv, NEW j \in Jobs, SubmitStep(j)
  PROVE  [Promise!Next]_(Promise!vars)
<1> USE DEF IInv, TypeOK, RowTypes, StoreTypes, ActorTypes
<1>1. CASE Create(j)
  <2>1. Stage(j) = "absent"
    BY <1>1 DEF Create, RowOrder, Stage
  <2>2. Stage(j)' = "submitted"
    BY <1>1 DEF Create, RowOrder, Stage, Published, store
  <2>3. \A k \in Jobs \ {j} : Stage(k)' = Stage(k)
    BY <1>1, StageDepends DEF Create, Published, store
  <2>4. Promise!Advance(j, "absent", "submitted")
    BY <1>1, <2>1, <2>2, <2>3, StageAdvances DEF Create
  <2> QED
    BY <2>4 DEF Promise!Next, Promise!Submit
<1>2. CASE Attach(j) /\ Current(j, 1)
  <2>1. state[j] = "queued" /\ ~dispatchable[j] /\ ~cancelReq[j] /\ ~started[j]
    BY <1>2 DEF Attach, Current, RowOrder, FirstVersion
  <2>2. worker[j] = "none" /\ artifact[j] = "none"
    BY <2>1 DEF RowOrder
  <2>3. Stage(j) = "submitted"
    BY <2>1, <2>2 DEF Stage, Published
  <2>4. Stage(j)' = "accepted"
    BY <1>2, <2>1, <2>2 DEF Attach, Stage, Published, store
  <2>5. \A k \in Jobs \ {j} : Stage(k)' = Stage(k)
    BY <1>2, StageDepends DEF Attach, Published, store
  <2>6. Promise!Advance(j, "submitted", "accepted")
    BY <1>2, <2>3, <2>4, <2>5, StageAdvances DEF Attach
  <2> QED
    BY <2>1, <2>6 DEF Promise!Next, Promise!Accept
<1>3. CASE (Attach(j) /\ ~Current(j, 1)) \/ StorePayload(j) \/ Acknowledge(j) \/ Refuse(j)
  BY <1>3, StageStutters DEF Attach, StorePayload, Acknowledge, Refuse, Published, row, store
<1>4. CASE FailRefused(j)
  <2>1. state[j] # "absent"
    BY <1>4 DEF FailRefused, RowOrder
  <2> QED
    BY <1>4, <2>1, TransitionEffect, StageStutters DEF FailRefused, Published, store
<1> QED
  BY <1>1, <1>2, <1>3, <1>4 DEF SubmitStep

\* A cancel command records at most one cancellation and moves no stage.
LEMMA CancelRefines ==
  ASSUME IInv, NEW c \in Callers, NEW j \in Jobs, CancelStep(c), call[c].job = j
  PROVE  [Promise!Next]_(Promise!vars)
<1> USE DEF IInv, TypeOK, RowTypes, StoreTypes, ActorTypes
<1>1. state[j] # "absent"
  BY DEF CancelStep, CancelRequest, CancelReload, CancelFinish, CancelScrub, CancelInv, Idle
<1>2. CASE CancelRequest(c) /\ Current(j, call[c].version) /\ ~cancelReq[j]
  <2>1. /\ state' = [state EXCEPT ![j] = "cancelling"]
        /\ cancelReq' = [cancelReq EXCEPT ![j] = TRUE]
        /\ UNCHANGED <<dispatchable, started, artifact, worker>>
    BY <1>2 DEF CancelRequest, SetState, store
  <2>2. \A k \in Jobs : Stage(k)' = Stage(k)
    BY <1>1, <2>1, StageDepends DEF Published
  <2>3. {k \in Jobs : cancelReq'[k]} = {k \in Jobs : cancelReq[k]} \cup {j}
    BY <2>1
  <2>4. Stage(j) # "absent"
    BY <1>1 DEF Stage
  <2>5. Promise!Cancel(j)
    BY <1>2, <2>2, <2>3, <2>4 DEF Promise!Cancel
  <2> QED
    BY <2>5 DEF Promise!Next
<1>3. CASE CancelRequest(c) /\ ~(Current(j, call[c].version) /\ ~cancelReq[j])
  BY <1>3, StageStutters DEF CancelRequest, Published, store
<1>4. CASE CancelFinish(c)
  BY <1>1, <1>4, TransitionEffect, StageStutters DEF CancelFinish, Published, store
<1>5. CASE CancelReload(c) \/ CancelScrub(c)
  BY <1>5, StageStutters DEF CancelReload, CancelScrub, Published, row, store
<1> QED
  BY <1>2, <1>3, <1>4, <1>5 DEF CancelStep

\* The dispatcher claims a job once and starts it once.
LEMMA LaunchRefines ==
  ASSUME IInv, NEW j \in Jobs, LaunchStep, disp.job = j
  PROVE  [Promise!Next]_(Promise!vars)
<1> USE DEF IInv, TypeOK, RowTypes, StoreTypes, ActorTypes
<1>1. CASE ClaimUpdate /\ ClaimGuard(j, disp.version)
  <2>1. state[j] = "queued" /\ dispatchable[j]
    BY <1>1 DEF ClaimGuard
  <2>2. ~cancelReq[j] /\ ~started[j] /\ worker[j] = "none" /\ artifact[j] = "none"
    BY <2>1 DEF FirstVersion, RowOrder
  <2>3. /\ state' = [state EXCEPT ![j] = "inspecting"]
        /\ started' = [started EXCEPT ![j] = TRUE]
        /\ UNCHANGED <<dispatchable, cancelReq, artifact, worker>>
    BY <1>1 DEF ClaimUpdate, SetState, store
  <2>4. Stage(j) = "accepted" /\ Stage(j)' = "claimed"
    BY <2>1, <2>2, <2>3 DEF Stage, Published
  <2>5. \A k \in Jobs \ {j} : Stage(k)' = Stage(k)
    BY <2>3, StageDepends DEF Published
  <2>6. Promise!Advance(j, "accepted", "claimed")
    BY <2>3, <2>4, <2>5, StageAdvances
  <2> QED
    BY <2>2, <2>6 DEF Promise!Next, Promise!Claim
<1>2. CASE Spawn
  <2>1. started[j] /\ worker[j] = "none" /\ artifact[j] = "none"
    BY <1>2 DEF Spawn, DispatchInv, LaunchSteps, RowOrder
  <2>2. state[j] # "absent"
    BY <2>1 DEF RowOrder
  <2>3. worker' = [worker EXCEPT ![j] = "spawned"]
        /\ UNCHANGED <<state, dispatchable, cancelReq, started, artifact>>
    BY <1>2 DEF Spawn, row, store
  <2>4. Stage(j) = "claimed" /\ Stage(j)' = "running"
    BY <2>1, <2>2, <2>3 DEF Stage, Published
  <2>5. \A k \in Jobs \ {j} : Stage(k)' = Stage(k)
    BY <2>3, StageDepends DEF Published
  <2>6. Promise!Advance(j, "claimed", "running")
    BY <2>3, <2>4, <2>5, StageAdvances
  <2> QED
    BY <2>6 DEF Promise!Next, Promise!Start
<1>3. CASE DenyFail
  <2>1. state[j] # "absent"
    BY <1>3 DEF DenyFail, DispatchInv, LaunchSteps, RowOrder
  <2> QED
    BY <1>3, <2>1, TransitionEffect, StageStutters DEF DenyFail, Published, store
<1> QED
  BY <1>1, <1>2, <1>3, StageStutters DEF LaunchStep, ClaimUpdate, LaunchRead, Reserve, Deny,
     DenyRead, DenyTell, DispatcherDies, Published, row, store

\* Of the event handler only the recording of the artifact moves a stage.
LEMMA PumpRefines ==
  ASSUME IInv, NEW j \in Jobs, PumpStep(j)
  PROVE  [Promise!Next]_(Promise!vars)
<1> USE DEF IInv, TypeOK, RowTypes, StoreTypes, ActorTypes
<1>1. worker[j] # "none" /\ state[j] # "absent"
  BY DEF PumpStep, PhaseChanged, PhaseWrite, Candidate, PublishFile, RecordArtifact,
     PublishFails, ScrubPayload, MarkDelivering, Deliver, DeliverRaises, Complete,
     Succeeded, WorkerFailed, FailWrite, PhaseEvents, Running, Phases, PumpInv, RowOrder,
     Quiet
<1>2. CASE RecordArtifact(j)
  <2>1. pump[j].pc = "record" /\ artifact[j] = "file"
    BY <1>2 DEF RecordArtifact, PumpInv
  <2>2. artifact' = [artifact EXCEPT ![j] = "available"]
        /\ UNCHANGED <<state, dispatchable, cancelReq, started, worker>>
    BY <1>2 DEF RecordArtifact, row
  <2>3. Stage(j) = "running" /\ Stage(j)' = "published"
    BY <1>1, <2>1, <2>2 DEF Stage, Published
  <2>4. \A k \in Jobs \ {j} : Stage(k)' = Stage(k)
    BY <2>2, StageDepends DEF Published
  <2>5. Promise!Advance(j, "running", "published")
    BY <2>2, <2>3, <2>4, StageAdvances
  <2> QED
    BY <2>5 DEF Promise!Next, Promise!Publish
<1>3. CASE PublishFile(j) \/ PublishFails(j)
  BY <1>3, StageStutters DEF PublishFile, PublishFails, PumpInv, Published, row
<1>4. CASE PhaseWrite(j) \/ MarkDelivering(j) \/ FailWrite(j)
  <2>1. pump[j].target # "absent"
    BY <1>4 DEF PhaseWrite, MarkDelivering, FailWrite, PumpInv, PhaseEvents
  <2> QED
    BY <1>1, <1>4, <2>1, TransitionEffect, StageStutters DEF PhaseWrite, MarkDelivering,
       FailWrite, Published, store
<1>5. CASE Complete(j)
  BY <1>1, <1>5, TransitionEffect, StageStutters DEF Complete, Published, store
<1>6. CASE \/ \E e \in PhaseEvents : PhaseChanged(j, e)
           \/ Candidate(j) \/ ScrubPayload(j) \/ Deliver(j) \/ DeliverRaises(j)
           \/ Succeeded(j) \/ WorkerFailed(j)
  <2>1. \A k \in Jobs : worker'[k] = "none" <=> worker[k] = "none"
    BY <1>1, <1>6 DEF PhaseChanged, PhaseEvents, Candidate, ScrubPayload, Deliver,
       DeliverRaises, Succeeded, WorkerFailed
  <2>2. UNCHANGED <<row, artifact>>
    BY <1>6 DEF PhaseChanged, Candidate, ScrubPayload, Deliver, DeliverRaises, Succeeded,
       WorkerFailed, store
  <2> QED
    BY <2>1, <2>2, StageStutters DEF Published, row
<1> QED
  BY <1>2, <1>3, <1>4, <1>5, <1>6 DEF PumpStep

\* Every step is a step of the promise or stutters.
LEMMA StepRefines ==
  ASSUME IInv, [Next]_vars
  PROVE  [Promise!Next]_(Promise!vars)
<1> USE DEF IInv, TypeOK, RowTypes, StoreTypes, ActorTypes
<1>1. CASE UNCHANGED vars
  BY <1>1, StageStutters DEF vars, Published, row, store, actors
<1>2. ASSUME NEW c \in Callers, CancelStep(c)
      PROVE  call[c].job \in Jobs
  BY <1>2 DEF CancelStep, CancelRequest, CancelReload, CancelFinish, CancelScrub, Idle
<1>3. ASSUME LaunchStep
      PROVE  disp.job \in Jobs
  BY <1>3 DEF LaunchStep, ClaimUpdate, LaunchRead, Reserve, Deny, DenyRead, DenyFail,
     Spawn, DenyTell, DispatcherDies, Idle, Dead
<1>4. CASE \E c \in Callers : CancelStep(c)
  BY <1>2, <1>4, CancelRefines
<1>5. CASE LaunchStep
  BY <1>3, <1>5, LaunchRefines
<1>6. CASE \E j \in Jobs : ClaimSelect(j) \/ \E c \in Callers : CancelRead(c, j)
  BY <1>6, StageStutters DEF ClaimSelect, CancelRead, Published, row, store
<1>7. CASE \E j \in Jobs : ReclaimWrite(j)
  <2>1. PICK j \in Jobs : ReclaimWrite(j)
    BY <1>7
  <2>2. reclaim[j] # Quiet /\ reclaim[j].target # "absent"
    BY <2>1 DEF ReclaimWrite, Quiet
  <2>3. state[j] # "absent"
    BY <2>2 DEF ReclaimInv, RowOrder
  <2> QED
    BY <2>1, <2>2, <2>3, TransitionEffect, StageStutters DEF ReclaimWrite, Published, store
<1>8. CASE \E j \in Jobs, to \in {"expired", "evicted"} : ReclaimArtifact(j, to)
  BY <1>8, StageStutters DEF ReclaimArtifact, Published, row
<1>9. CASE Restart
  BY <1>9, StageStutters DEF Restart, Published, row, store
<1> QED
  BY <1>1, <1>4, <1>5, <1>6, <1>7, <1>8, <1>9, SubmitRefines, PumpRefines
     DEF Next, DispatchStep

\* JobLifecycle implements OncePerJob.
THEOREM Refinement == Spec => KeepsPromise
<1>1. IInv /\ [Next]_vars => [Promise!Next]_(Promise!vars)
  BY StepRefines
<1> QED
  BY <1>1, InitRefines, Invariance, PTL DEF Spec, Promise!Spec, KeepsPromise

------------------------------------------------------------------------------
(* What the writers of a job's row, which compare its version and nothing   *)
(* else, make of its state.  IInv says which steps the coroutines may be    *)
(* at; WInv adds which states they may write over.                          *)

(* The states of a job, as the code writes them.                            *)

Written == {"absent", "queued", "inspecting", "downloading", "post_processing", "delivering",
            "completed", "failed", "expired", "evicted", "cancelling", "cancelled"}

\* A COMPLETED or FAILED row is the last thing its worker's events wrote.
OutcomeRests ==
  \A j \in Jobs :
    /\ state[j] \in Written
    /\ state[j] \in {"completed", "failed"} => pump[j] = Quiet
    /\ state[j] = "completed" => worker[j] \in {"candidate", "gone"}
    /\ state[j] = "failed" => worker[j] \in {"none", "gone"}

\* The event that is handled is the last one the pump took.
HandledIsLast ==
  \A j \in Jobs :
    /\ pump[j].pc = "phase" => worker[j] \in Phases
    /\ pump[j].pc \in {"publish", "record", "scrub", "delivering", "deliver", "complete"} =>
         worker[j] = "candidate"
    /\ pump[j].pc \in {"scrubFailed", "fail"} => worker[j] = "gone"

Launching == {"launch", "reserve", "spawn", "denied", "fail"}

\* A job that is being launched has not failed.
LaunchOpen == disp.pc \in Launching => state[disp.job] # "failed"

\* A version was the row's when it was read, and what an owner's command or a reclaiming
\* made of the state then still holds while the version is the row's.
OwnerKnows ==
  \A c \in Users : call[c] # Idle =>
    /\ call[c].version <= version[call[c].job]
    /\ Current(call[c].job, call[c].version) =>
         /\ call[c].pc = "request" =>
              state[call[c].job] \in UserCancellableStates \cup {"cancelling"}
         /\ call[c].pc = "finish" => state[call[c].job] = "cancelling"

ReclaimKnows ==
  \A j \in Jobs : reclaim[j] # Quiet =>
    /\ reclaim[j].version <= version[j]
    /\ Current(j, reclaim[j].version) => state[j] \in ArtifactBearingJobStates

\* The handler is about to write the state s with a version that is still the row's.
Due(j, step, s) ==
  pump[j].pc = step /\ pump[j].target = s /\ Current(j, pump[j].version)

\* Without a cancellation, the state is that of the worker's last event or the one before
\* it, whose handling is due.
InStep(j) ==
  /\ worker[j] = "none" => state[j] \in {"absent", "queued", "inspecting", "failed"}
  /\ disp.pc \in Launching /\ disp.job = j => state[j] = "inspecting"
  /\ worker[j] \in {"spawned", "inspecting"} => state[j] = "inspecting" /\ pump[j] = Quiet
  /\ worker[j] = "downloading" => \/ state[j] = "downloading" /\ pump[j] = Quiet
                                  \/ state[j] = "inspecting" /\ Due(j, "phase", "downloading")
  /\ worker[j] = "processing" =>
       \/ state[j] = "post_processing" /\ pump[j] = Quiet
       \/ state[j] = "downloading" /\ Due(j, "phase", "post_processing")
  /\ worker[j] = "processed" => state[j] = "post_processing" /\ pump[j] = Quiet
  /\ pump[j].pc \in {"publish", "record", "scrub", "delivering"} =>
       state[j] = "post_processing" /\ Due(j, pump[j].pc, "delivering")
  /\ pump[j].pc \in {"deliver", "complete"} => state[j] = "delivering"
  /\ pump[j].pc \in {"scrubFailed", "fail"} =>
       state[j] \notin {"absent", "queued"}

StepsAgree == \A j \in Jobs : ~cancelReq[j] => InStep(j)

WInv == OutcomeRests /\ HandledIsLast /\ LaunchOpen /\ OwnerKnows /\ ReclaimKnows /\ StepsAgree

------------------------------------------------------------------------------
(* One lemma per coroutine.                                                 *)

Facts == IInv /\ WInv

\* An empty database.
LEMMA InitRests == Init => WInv
BY ConstantsAssumption DEF Init, WInv, OutcomeRests, Written, HandledIsLast, LaunchOpen,
   Launching, OwnerKnows, ReclaimKnows, StepsAgree, InStep, Idle, Quiet, Callers

\* Submission: it writes rows no one has claimed.
LEMMA SubmitRests ==
  ASSUME Facts, IInv', NEW j \in Jobs, SubmitStep(j)
  PROVE  WInv'
<1> USE DEF Facts, IInv, TypeOK, RowTypes, StoreTypes, ActorTypes, WInv
<1>1. CASE StorePayload(j) \/ Acknowledge(j) \/ Refuse(j)
  <2>1. UNCHANGED <<state, version, cancelReq, call, disp, worker, pump, reclaim>>
    BY <1>1 DEF StorePayload, Acknowledge, Refuse, row
  <2> QED
    BY <2>1 DEF OutcomeRests, HandledIsLast, LaunchOpen, OwnerKnows, ReclaimKnows,
                StepsAgree, InStep, Due, Current
<1>2. CASE Create(j) \/ Attach(j) \/ FailRefused(j)
  <2>1. /\ UNCHANGED <<cancelReq, call, disp, worker, pump, reclaim>>
        /\ \A k \in Jobs \ {j} : state'[k] = state[k] /\ version'[k] = version[k]
        /\ \/ state'[j] = state[j] /\ version'[j] = version[j] + 1
           \/ state'[j] = state[j] /\ version'[j] = version[j]
           \/ state[j] = "absent" /\ state'[j] = "queued"
           \/ state[j] = "queued" /\ state'[j] = "failed" /\ version'[j] = version[j] + 1
    BY <1>2 DEF Create, Attach, FailRefused, Transition, SetState, Current, FirstVersion,
                RowOrder, store
  <2>2. worker[j] = "none" /\ pump[j] = Quiet /\ reclaim[j] = Quiet
    BY <1>2 DEF Create, Attach, FailRefused, RowOrder, PumpInv, ReclaimInv
  <2>3. disp.pc \in Launching => disp.job \in Jobs /\ disp.job # j
    BY <1>2 DEF Create, Attach, FailRefused, RowOrder, DispatchInv, Launching, LaunchSteps,
                Idle, Dead
  <2>4. OutcomeRests' /\ HandledIsLast' /\ LaunchOpen'
    BY <2>1, <2>2, <2>3 DEF OutcomeRests, Written, HandledIsLast, LaunchOpen
  <2>5. OwnerKnows' /\ ReclaimKnows'
    <3>1. \A c \in Users : call[c] # Idle =>
            call[c].job \in Jobs /\ call[c].version \in Nat /\ state[call[c].job] # "absent"
      BY DEF CancelInv, Callers
    <3>2. version[j] \in Nat /\ version'[j] \in Nat /\ \A k \in Jobs : version[k] \in Nat
      OBVIOUS
    <3>3. ASSUME NEW c \in Users, call'[c] # Idle
          PROVE  /\ call'[c].version <= version'[call'[c].job]
                 /\ version'[call'[c].job] = call'[c].version =>
                      /\ call'[c].pc = "request" =>
                           state'[call'[c].job] \in UserCancellableStates \cup {"cancelling"}
                      /\ call'[c].pc = "finish" => state'[call'[c].job] = "cancelling"
      <4>1. call'[c] = call[c] /\ call[c] # Idle
        BY <2>1, <3>3
      <4>2. /\ call[c].version <= version[call[c].job]
            /\ version[call[c].job] = call[c].version =>
                 /\ call[c].pc = "request" =>
                      state[call[c].job] \in UserCancellableStates \cup {"cancelling"}
                 /\ call[c].pc = "finish" => state[call[c].job] = "cancelling"
        BY <4>1 DEF OwnerKnows, Current
      <4>3. CASE call[c].job # j
        BY <2>1, <3>1, <4>1, <4>2, <4>3
      <4>4. CASE call[c].job = j
        <5>1. \/ state'[j] = state[j] /\ version'[j] = version[j]
              \/ version'[j] = version[j] + 1
          BY <2>1, <3>1, <4>1, <4>4
        <5>2. CASE state'[j] = state[j] /\ version'[j] = version[j]
          BY <4>1, <4>2, <4>4, <5>2
        <5>3. CASE version'[j] = version[j] + 1
          BY <3>1, <3>2, <4>1, <4>2, <4>4, <5>3
        <5> QED
          BY <5>1, <5>2, <5>3
      <4> QED
        BY <4>3, <4>4
    <3>4. OwnerKnows'
      BY <3>3 DEF OwnerKnows, Current
    <3>5. ReclaimKnows'
      BY <2>1, <2>2 DEF ReclaimKnows, Current
    <3> QED
      BY <3>4, <3>5
  <2>6. StepsAgree'
    <3>1. ASSUME NEW k \in Jobs, ~cancelReq'[k]
          PROVE  InStep(k)'
      <4>1. InStep(k)
        BY <2>1, <3>1 DEF StepsAgree
      <4>2. CASE k # j
        BY <2>1, <4>1, <4>2 DEF InStep, Due, Current
      <4>3. CASE k = j
        BY <2>1, <2>2, <2>3, <4>1, <4>3 DEF InStep, Quiet
      <4> QED
        BY <4>2, <4>3
    <3> QED
      BY <3>1 DEF StepsAgree
  <2> QED
    BY <2>4, <2>5, <2>6
<1> QED
  BY <1>1, <1>2 DEF SubmitStep

\* Cancel commands: what they write is behind the flag.
LEMMA CancelRests ==
  ASSUME Facts, IInv', NEW c \in Callers, CancelStep(c) \/ \E j \in Jobs : CancelRead(c, j)
  PROVE  WInv'
<1> USE DEF Facts, IInv, TypeOK, RowTypes, StoreTypes, ActorTypes, WInv
<1>1. UNCHANGED <<disp, worker, pump, reclaim>>
  BY DEF CancelStep, CancelRequest, CancelReload, CancelFinish, CancelScrub, CancelRead
<1>2. \A d \in Callers \ {c} : call'[d] = call[d]
  BY DEF CancelStep, CancelRequest, CancelReload, CancelFinish, CancelScrub, CancelRead
<1>3. \A d \in Callers : call[d] # Idle =>
        call[d].job \in Jobs /\ call[d].version \in Nat
  OBVIOUS
<1>4. CASE UNCHANGED <<state, version, cancelReq>>
  <2>1. OutcomeRests' /\ HandledIsLast' /\ LaunchOpen' /\ ReclaimKnows' /\ StepsAgree'
    BY <1>1, <1>4 DEF OutcomeRests, HandledIsLast, LaunchOpen, ReclaimKnows, StepsAgree,
                      InStep, Due, Current
  <2>2. ASSUME c \in Users, call'[c] # Idle
        PROVE  /\ call'[c].version <= version[call'[c].job]
               /\ Current(call'[c].job, call'[c].version) =>
                    /\ call'[c].pc = "request" =>
                         state[call'[c].job] \in UserCancellableStates \cup {"cancelling"}
                    /\ call'[c].pc = "finish" => state[call'[c].job] = "cancelling"
    <3>1. CASE \E j \in Jobs : CancelRead(c, j)
      <4>1. PICK j \in Jobs : CancelRead(c, j)
        BY <3>1
      <4>2. call'[c] = [pc |-> "request", job |-> j, version |-> version[j]]
        BY <4>1 DEF CancelRead
      <4>3. state[j] \in UserCancellableStates \cup {"cancelling"}
        BY <2>2, <4>1 DEF CancelRead, MayCancel
      <4> QED
        BY <4>2, <4>3
    <3>2. CASE CancelRequest(c) \/ CancelReload(c)
      <4>1. call[c] # Idle /\ call[c].job \in Jobs
        BY <1>3, <3>2 DEF CancelRequest, CancelReload, Idle
      <4>2. CASE call'[c] = AfterRequest(c, call[c].job)
        <5>1. c \notin Admins
          BY <2>2, ConstantsAssumption
        <5>2. /\ call'[c] = [pc |-> "finish", job |-> call[c].job,
                             version |-> version[call[c].job]]
              /\ state[call[c].job] = "cancelling"
          BY <2>2, <4>2, <5>1 DEF AfterRequest
        <5> QED
          BY <4>1, <5>2
      <4>3. CASE call'[c] # AfterRequest(c, call[c].job)
        <5>1. CancelRequest(c) /\ Current(call[c].job, call[c].version) /\ ~cancelReq[call[c].job]
          BY <2>2, <3>2, <4>3 DEF CancelRequest, CancelReload
        <5>2. version'[call[c].job] = version[call[c].job] + 1
          BY <4>1, <5>1 DEF CancelRequest, SetState
        <5> QED
          BY <1>4, <4>1, <5>2
      <4> QED
        BY <4>2, <4>3
    <3>3. CASE CancelFinish(c)
      <4>1. call[c] # Idle /\ call[c].job \in Jobs
        BY <1>3, <3>3 DEF CancelFinish, Idle
      <4>2. ~Current(call[c].job, call[c].version)
        BY <1>4, <3>3, <4>1 DEF CancelFinish, Transition, SetState
      <4> QED
        BY <2>2, <3>3, <4>2 DEF CancelFinish
    <3>4. CASE CancelScrub(c)
      BY <2>2, <3>4 DEF CancelScrub
    <3> QED
      BY <3>1, <3>2, <3>3, <3>4 DEF CancelStep
  <2>3. OwnerKnows'
    BY <1>2, <1>4, <2>2 DEF OwnerKnows, Current, Callers
  <2> QED
    BY <2>1, <2>3
<1>5. CASE ~UNCHANGED <<state, version, cancelReq>>
  <2> DEFINE j == call[c].job
  <2>1. CancelRequest(c) \/ CancelFinish(c)
    BY <1>5 DEF CancelStep, CancelReload, CancelScrub, CancelRead, row
  <2>2. j \in Jobs /\ call[c] # Idle
    BY <1>3, <2>1 DEF CancelRequest, CancelFinish, Idle
  <2>3. /\ \A k \in Jobs \ {j} : /\ state'[k] = state[k] /\ version'[k] = version[k]
                                 /\ cancelReq'[k] = cancelReq[k]
        /\ state'[j] \in {"cancelling", "cancelled"} /\ version'[j] = version[j] + 1
        /\ cancelReq'[j]
    BY <1>5, <2>1, <2>2 DEF CancelRequest, CancelFinish, Transition, SetState, CancelInv
  <2>4. call'[c] = Idle \/ (call'[c].job = j /\ call'[c].version = version[j]
                            /\ call'[c].pc \in {"reload", "scrub"})
    BY <1>5, <2>1, <2>2 DEF CancelRequest, CancelFinish, Transition, SetState, Current
  <2>5. OutcomeRests' /\ HandledIsLast' /\ LaunchOpen'
    <3>1. disp.pc \in Launching => disp.job \in Jobs
      BY DEF Launching, Idle, Dead
    <3> QED
      BY <1>1, <2>2, <2>3, <3>1 DEF OutcomeRests, Written, HandledIsLast, LaunchOpen
  <2>6. ReclaimKnows'
    <3>1. \A k \in Jobs : reclaim[k] # Quiet => reclaim[k].version \in Nat
      OBVIOUS
    <3> QED
      BY <1>1, <2>2, <2>3, <3>1 DEF ReclaimKnows, Current
  <2>7. OwnerKnows'
    <3>1. ASSUME NEW d \in Users, call'[d] # Idle
          PROVE  /\ call'[d].version <= version'[call'[d].job]
                 /\ version'[call'[d].job] = call'[d].version =>
                      /\ call'[d].pc = "request" =>
                           state'[call'[d].job] \in UserCancellableStates \cup {"cancelling"}
                      /\ call'[d].pc = "finish" => state'[call'[d].job] = "cancelling"
      <4>1. CASE d = c
        BY <2>2, <2>3, <2>4, <3>1, <4>1
      <4>2. CASE d # c
        <5>1. call'[d] = call[d] /\ call[d].job \in Jobs /\ call[d].version \in Nat
          BY <1>2, <1>3, <3>1, <4>2 DEF Callers
        <5>2. /\ call[d].version <= version[call[d].job]
              /\ version[call[d].job] = call[d].version =>
                   /\ call[d].pc = "request" =>
                        state[call[d].job] \in UserCancellableStates \cup {"cancelling"}
                   /\ call[d].pc = "finish" => state[call[d].job] = "cancelling"
          BY <3>1, <5>1 DEF OwnerKnows, Current
        <5>3. CASE call[d].job = j
          <6>1. version[j] \in Nat /\ version'[call[d].job] > call[d].version
            BY <2>2, <2>3, <5>1, <5>2, <5>3
          <6> QED
            BY <5>1, <6>1
        <5>4. CASE call[d].job # j
          BY <2>3, <5>1, <5>2, <5>4
        <5> QED
          BY <5>3, <5>4
      <4> QED
        BY <4>1, <4>2
    <3> QED
      BY <3>1 DEF OwnerKnows, Current
  <2>8. StepsAgree'
    BY <1>1, <2>2, <2>3 DEF StepsAgree, InStep, Due, Current
  <2> QED
    BY <2>5, <2>6, <2>7, <2>8
<1> QED
  BY <1>4, <1>5

\* The dispatcher: it claims a queued row, and fails a job only before its launch.
LEMMA DispatchRests ==
  ASSUME Facts, IInv', DispatchStep
  PROVE  WInv'
<1> USE DEF Facts, IInv, TypeOK, RowTypes, StoreTypes, ActorTypes, WInv
<1>1. UNCHANGED <<cancelReq, call, pump, reclaim>>
  BY DEF DispatchStep, LaunchStep, ClaimSelect, ClaimUpdate, LaunchRead, Reserve, Deny,
         DenyRead, DenyFail, Spawn, DenyTell, DispatcherDies, Transition, row
<1>2. CASE ClaimUpdate /\ ClaimGuard(disp.job, disp.version)
  <2> DEFINE j == disp.job
  <2>1. j \in Jobs
    BY <1>2 DEF ClaimUpdate, Idle, Dead
  <2>2. /\ \A k \in Jobs \ {j} : state'[k] = state[k] /\ version'[k] = version[k]
        /\ state[j] = "queued" /\ state'[j] = "inspecting" /\ version'[j] = version[j] + 1
        /\ disp' = [disp EXCEPT !.pc = "launch"] /\ worker' = worker
    BY <1>2, <2>1 DEF ClaimUpdate, ClaimGuard, SetState
  <2>3. worker[j] = "none" /\ pump[j] = Quiet /\ reclaim[j] = Quiet
    BY <2>1, <2>2 DEF FirstVersion, RowOrder, PumpInv, ReclaimInv
  <2>4. disp'.pc = "launch" /\ disp'.job = j /\ disp.pc = "claim"
    BY <1>2, <2>2 DEF ClaimUpdate, Idle, Dead
  <2>5. OutcomeRests' /\ HandledIsLast' /\ LaunchOpen'
    BY <1>1, <2>1, <2>2, <2>4 DEF OutcomeRests, Written, HandledIsLast, LaunchOpen
  <2>6. OwnerKnows' /\ ReclaimKnows'
    <3>1. \A c \in Users : call[c] # Idle => call[c].job \in Jobs /\ call[c].version \in Nat
      BY DEF Callers
    <3>2. \A k \in Jobs : reclaim[k] # Quiet => reclaim[k].version \in Nat
      OBVIOUS
    <3>3. OwnerKnows'
      BY <1>1, <2>1, <2>2, <3>1 DEF OwnerKnows, Current
    <3>4. ReclaimKnows'
      BY <1>1, <2>1, <2>2, <2>3 DEF ReclaimKnows, Current
    <3> QED
      BY <3>3, <3>4
  <2>7. ASSUME NEW k \in Jobs, ~cancelReq'[k]
        PROVE  InStep(k)'
    <3>1. InStep(k)
      BY <1>1, <2>7 DEF StepsAgree
    <3>2. CASE k # j
      BY <1>1, <2>2, <2>4, <3>1, <3>2 DEF InStep, Due, Current
    <3>3. CASE k = j
      BY <1>1, <2>2, <2>3, <2>4, <3>3 DEF InStep, Quiet
    <3> QED
      BY <3>2, <3>3
  <2> QED
    BY <2>5, <2>6, <2>7 DEF StepsAgree
<1>3. CASE DenyFail
  <2> DEFINE j == disp.job
  <2>1. j \in Jobs /\ started[j] /\ worker[j] = "none" /\ disp.pc = "fail"
    BY <1>3 DEF DenyFail, DispatchInv, LaunchSteps, Idle, Dead
  <2>2. /\ \A k \in Jobs \ {j} : state'[k] = state[k] /\ version'[k] = version[k]
        /\ \/ state'[j] = state[j] /\ version'[j] = version[j]
           \/ state'[j] = "failed" /\ version'[j] = version[j] + 1
        /\ disp'.pc = "tell" /\ worker' = worker
    BY <1>3, <2>1 DEF DenyFail, Transition, SetState
  <2>3. pump[j] = Quiet /\ reclaim[j] = Quiet
    BY <2>1 DEF RowOrder, PumpInv, ReclaimInv
  <2>5. OutcomeRests' /\ HandledIsLast' /\ LaunchOpen'
    BY <1>1, <2>1, <2>2, <2>3 DEF OutcomeRests, Written, HandledIsLast, LaunchOpen, Launching
  <2>6. OwnerKnows' /\ ReclaimKnows'
    <3>1. \A c \in Users : call[c] # Idle => call[c].job \in Jobs /\ call[c].version \in Nat
      BY DEF Callers
    <3>3. OwnerKnows'
      BY <1>1, <2>1, <2>2, <3>1 DEF OwnerKnows, Current
    <3>4. ReclaimKnows'
      BY <1>1, <2>1, <2>2, <2>3 DEF ReclaimKnows, Current
    <3> QED
      BY <3>3, <3>4
  <2>7. ASSUME NEW k \in Jobs, ~cancelReq'[k]
        PROVE  InStep(k)'
    <3>1. InStep(k)
      BY <1>1, <2>7 DEF StepsAgree
    <3>2. CASE k # j
      BY <1>1, <2>2, <3>1, <3>2 DEF InStep, Due, Current, Launching
    <3>3. CASE k = j
      BY <1>1, <2>1, <2>2, <2>3, <3>1, <3>3 DEF InStep, Quiet, Launching
    <3> QED
      BY <3>2, <3>3
  <2> QED
    BY <2>5, <2>6, <2>7 DEF StepsAgree
<1>4. CASE ~DenyFail /\ ~(ClaimUpdate /\ ClaimGuard(disp.job, disp.version))
  <2>1. UNCHANGED <<state, version>>
    BY <1>4 DEF DispatchStep, LaunchStep, ClaimSelect, ClaimUpdate, LaunchRead, Reserve, Deny,
       DenyRead, Spawn, DenyTell, DispatcherDies, row
  <2>2. \/ worker' = worker
        \/ /\ disp.pc = "spawn" /\ disp.job \in Jobs /\ worker[disp.job] = "none"
           /\ pump[disp.job] = Quiet
           /\ worker' = [worker EXCEPT ![disp.job] = "spawned"] /\ disp' = Idle
    BY <1>4 DEF DispatchStep, LaunchStep, ClaimSelect, ClaimUpdate, LaunchRead, Reserve, Deny,
       DenyRead, Spawn, DenyTell, DispatcherDies, DispatchInv, PumpInv, LaunchSteps, Idle, Dead
  <2>3. disp'.pc \in Launching => disp.pc \in Launching /\ disp'.job = disp.job
    <3>1. disp \in {Idle, Dead} \/ disp \in [pc : LaunchSteps \cup {"claim"}, job : Jobs,
                                            version : Nat]
      OBVIOUS
    <3>2. CASE \E k \in Jobs : ClaimSelect(k)
      BY <3>2 DEF ClaimSelect, Launching
    <3>3. CASE ClaimUpdate
      BY <1>4, <3>3 DEF ClaimUpdate, Launching, Idle
    <3>4. CASE LaunchRead \/ Reserve \/ Deny \/ DenyRead
      <4>0. disp \in [pc : LaunchSteps \cup {"claim"}, job : Jobs, version : Nat]
        BY <3>1, <3>4 DEF LaunchRead, Reserve, Deny, DenyRead, Idle, Dead
      <4> HIDE DEF TypeOK, ActorTypes
      <4>1. disp' = Idle \/ disp'.job = disp.job
        <5>1. CASE LaunchRead
          BY <4>0, <5>1 DEF LaunchRead
        <5>2. CASE Reserve \/ Deny
          BY <4>0, <5>2 DEF Reserve, Deny
        <5>3. CASE DenyRead
          BY <4>0, <5>3 DEF DenyRead
        <5> QED
          BY <3>4, <5>1, <5>2, <5>3
      <4>2. disp.pc \in Launching
        BY <3>4 DEF LaunchRead, Reserve, Deny, DenyRead, Launching
      <4> QED
        BY <4>1, <4>2 DEF Launching, Idle
    <3>5. CASE Spawn \/ DenyTell \/ DispatcherDies
      BY <3>5 DEF Spawn, DenyTell, DispatcherDies, Launching, Idle, Dead
    <3> QED
      BY <1>4, <3>2, <3>3, <3>4, <3>5 DEF DispatchStep, LaunchStep
  <2>4. disp.pc \in Launching => disp.job \in Jobs
    BY DEF Launching, Idle, Dead
  <2>5. OutcomeRests' /\ HandledIsLast' /\ LaunchOpen'
    <3>1. LaunchOpen'
      BY <2>1, <2>3 DEF LaunchOpen
    <3>2. disp.pc = "spawn" => state[disp.job] \notin {"completed", "failed"}
      BY <2>4, <2>2 DEF LaunchOpen, Launching, OutcomeRests, DispatchInv, LaunchSteps
    <3>3. OutcomeRests'
      BY <1>1, <2>1, <2>2, <3>2 DEF OutcomeRests
    <3>4. HandledIsLast'
      BY <1>1, <2>2 DEF HandledIsLast, Quiet
    <3> QED
      BY <3>1, <3>3, <3>4
  <2>6. OwnerKnows' /\ ReclaimKnows'
    BY <1>1, <2>1 DEF OwnerKnows, ReclaimKnows, Current
  <2>7. ASSUME NEW k \in Jobs, ~cancelReq'[k]
        PROVE  InStep(k)'
    <3>1. InStep(k)
      BY <1>1, <2>7 DEF StepsAgree
    <3>2. CASE worker'[k] = worker[k]
      BY <1>1, <2>1, <2>3, <3>1, <3>2 DEF InStep, Due, Current
    <3>3. CASE worker'[k] # worker[k]
      <4>1. /\ disp.pc = "spawn" /\ disp.job = k /\ worker'[k] = "spawned" /\ pump[k] = Quiet
            /\ disp'.pc = "idle"
        BY <2>2, <3>3 DEF Idle
      <4>2. state[k] = "inspecting"
        BY <3>1, <4>1 DEF InStep, Launching
      <4> QED
        BY <1>1, <2>1, <4>1, <4>2 DEF InStep, Quiet, Launching
    <3> QED
      BY <3>2, <3>3
  <2> QED
    BY <2>5, <2>6, <2>7 DEF StepsAgree
<1> QED
  BY <1>2, <1>3, <1>4

\* Expiry and eviction: they write over an outcome.
LEMMA ReclaimRests ==
  ASSUME Facts, IInv', NEW j \in Jobs,
         ReclaimWrite(j) \/ \E to \in {"expired", "evicted"} : ReclaimArtifact(j, to)
  PROVE  WInv'
<1> USE DEF Facts, IInv, TypeOK, RowTypes, StoreTypes, ActorTypes, WInv
<1>1. UNCHANGED <<cancelReq, call, disp, worker, pump>>
  BY DEF ReclaimWrite, ReclaimArtifact, Transition, row
<1>2. CASE \E to \in {"expired", "evicted"} : ReclaimArtifact(j, to)
  <2>1. UNCHANGED <<state, version>>
    BY <1>2 DEF ReclaimArtifact, row
  <2>2. \A k \in Jobs \ {j} : reclaim'[k] = reclaim[k]
    BY <1>2 DEF ReclaimArtifact
  <2>3. reclaim'[j] # Quiet =>
          reclaim'[j].version = version[j] /\ state[j] \in ArtifactBearingJobStates
    BY <1>2 DEF ReclaimArtifact, Handling
  <2>4. ReclaimKnows'
    BY <2>1, <2>2, <2>3 DEF ReclaimKnows, Current
  <2> QED
    BY <1>1, <2>1, <2>4 DEF OutcomeRests, HandledIsLast, LaunchOpen, OwnerKnows, StepsAgree,
                            InStep, Due, Current
<1>3. CASE ReclaimWrite(j)
  <2>1. /\ \A k \in Jobs \ {j} : state'[k] = state[k] /\ version'[k] = version[k]
                                /\ reclaim'[k] = reclaim[k]
        /\ reclaim'[j] = Quiet
        /\ \/ state'[j] = state[j] /\ version'[j] = version[j]
           \/ /\ state[j] \in {"completed", "failed"}
              /\ state'[j] \in {"expired", "evicted"} /\ version'[j] = version[j] + 1
    <3>1. reclaim[j] # Quiet /\ reclaim[j].target \in {"expired", "evicted"}
      BY <1>3 DEF ReclaimWrite, Quiet
    <3>2. Current(j, reclaim[j].version) => state[j] \in {"completed", "failed"}
      BY <3>1 DEF ReclaimKnows, OutcomeRests, Written, ArtifactBearingJobStates
    <3> QED
      BY <1>3, <3>1, <3>2 DEF ReclaimWrite, Transition, SetState
  <2>2. OutcomeRests' /\ HandledIsLast' /\ ReclaimKnows'
    BY <1>1, <2>1 DEF OutcomeRests, Written, HandledIsLast, ReclaimKnows, Current
  <2>3. LaunchOpen'
    <3>1. disp.pc \in Launching => disp.job \in Jobs
      BY DEF Launching, Idle, Dead
    <3> QED
      BY <1>1, <2>1, <3>1 DEF LaunchOpen
  <2>4. OwnerKnows'
    <3>1. \A c \in Users : call[c] # Idle => call[c].job \in Jobs /\ call[c].version \in Nat
      BY DEF Callers
    <3> QED
      BY <1>1, <2>1, <3>1 DEF OwnerKnows, Current
  <2>5. ASSUME NEW k \in Jobs, ~cancelReq'[k]
        PROVE  InStep(k)'
    <3>1. InStep(k)
      BY <1>1, <2>5 DEF StepsAgree
    <3>2. CASE k # j \/ (state'[j] = state[j] /\ version'[j] = version[j])
      BY <1>1, <2>1, <3>1, <3>2 DEF InStep, Due, Current
    <3>3. CASE k = j /\ state[j] \in {"completed", "failed"}
      <4>1. pump[j] = Quiet /\ worker[j] \in {"candidate", "gone"}
        BY <1>3, <3>3 DEF OutcomeRests, ReclaimWrite, ReclaimInv, RowOrder, Quiet
      <4>2. disp.pc \in Launching => disp.job # j
        BY <4>1 DEF DispatchInv, Launching, LaunchSteps
      <4> QED
        BY <1>1, <3>3, <4>1, <4>2 DEF InStep, Quiet
    <3>4. k = j =>
            \/ state'[j] = state[j] /\ version'[j] = version[j]
            \/ state[j] \in {"completed", "failed"}
      BY <2>1
    <3> QED
      BY <3>2, <3>3, <3>4
  <2> QED
    BY <2>2, <2>3, <2>4, <2>5 DEF StepsAgree
<1> QED
  BY <1>2, <1>3

\* A worker's events, as long as they do not write the row: what is taken from the pipe
\* next fits the state.
LEMMA HandlingRests ==
  ASSUME Facts, NEW j \in Jobs, PumpStep(j),
         ~(PhaseWrite(j) \/ MarkDelivering(j) \/ Complete(j) \/ FailWrite(j))
  PROVE  /\ UNCHANGED <<state, version, cancelReq, call, disp, reclaim>>
         /\ \A k \in Jobs \ {j} : worker'[k] = worker[k] /\ pump'[k] = pump[k]
         /\ state[j] \in {"completed", "failed"} => pump'[j] = Quiet /\ worker'[j] = "gone"
         /\ HandledIsLast'
         /\ ~cancelReq[j] => InStep(j)'
<1> USE DEF Facts, IInv, TypeOK, RowTypes, StoreTypes, ActorTypes, WInv
<1>1. /\ UNCHANGED <<state, version, cancelReq, call, disp, reclaim>>
      /\ \A k \in Jobs \ {j} : worker'[k] = worker[k] /\ pump'[k] = pump[k]
  BY DEF PumpStep, PhaseChanged, Candidate, PublishFile, RecordArtifact, PublishFails,
         ScrubPayload, Deliver, DeliverRaises, Succeeded, WorkerFailed, row
<1>2. worker[j] # "none"
  BY DEF PumpStep, PhaseChanged, PhaseEvents, Candidate, PublishFile, RecordArtifact,
         PublishFails, ScrubPayload, Deliver, DeliverRaises, Succeeded, WorkerFailed, Running,
         Phases, PumpInv, Quiet
<1>3. state[j] \notin {"absent", "queued"} /\ dispatchable[j]
  BY <1>2 DEF RowOrder, FirstVersion
<1>4. disp.pc \in Launching => disp.job # j
  BY <1>2 DEF DispatchInv, Launching, LaunchSteps
<1> DEFINE Good == /\ state[j] \in {"completed", "failed"} =>
                        pump'[j] = Quiet /\ worker'[j] = "gone"
                   /\ pump'[j].pc = "phase" => worker'[j] \in Phases
                   /\ pump'[j].pc \in {"publish", "record", "scrub", "delivering", "deliver",
                                       "complete"} => worker'[j] = "candidate"
                   /\ pump'[j].pc \in {"scrubFailed", "fail"} => worker'[j] = "gone"
           Agrees == ~cancelReq[j] => InStep(j)'
<1>5. ASSUME NEW e \in PhaseEvents, PhaseChanged(j, e)
      PROVE  Good /\ Agrees
  <2>1. worker'[j] = e[2] /\ worker[j] = e[1] /\ pump[j] = Quiet
    BY <1>5 DEF PhaseChanged
  <2>2. state[j] \notin {"completed", "failed"}
    BY <2>1 DEF PhaseEvents, OutcomeRests
  <2>3. pump'[j] = Quiet \/ pump'[j].pc = "phase"
    BY <1>5 DEF PhaseChanged, Handling
  <2>4. e[2] \in Phases
    BY DEF Phases
  <2>5. ASSUME ~cancelReq[j] PROVE InStep(j)'
    <3>1. InStep(j)
      BY <2>5 DEF StepsAgree
    <3>2. CASE e = <<"spawned", "inspecting", "inspecting">>
      <4>1. state[j] = "inspecting" /\ pump'[j] = Quiet
        BY <1>5, <2>1, <3>1, <3>2 DEF PhaseChanged, InStep
      <4> QED
        BY <1>1, <1>4, <2>1, <3>2, <4>1 DEF InStep, Quiet
    <3>3. CASE e = <<"inspecting", "downloading", "downloading">>
      <4>1. state[j] = "inspecting" /\ pump'[j] = Handling(j, "phase", "downloading")
        BY <1>5, <2>1, <3>1, <3>3 DEF PhaseChanged, InStep, PhaseIgnored
      <4> QED
        BY <1>1, <1>4, <2>1, <3>3, <4>1 DEF InStep, Handling, Due, Current
    <3>4. CASE e = <<"downloading", "processing", "post_processing">>
      <4>1. state[j] = "downloading" /\ pump'[j] = Handling(j, "phase", "post_processing")
        BY <1>5, <2>1, <3>1, <3>4 DEF PhaseChanged, InStep, PhaseIgnored, Due, Quiet
      <4> QED
        BY <1>1, <1>4, <2>1, <3>4, <4>1 DEF InStep, Handling, Due, Current
    <3>5. CASE e = <<"processing", "processed", "post_processing">>
      <4>1. state[j] = "post_processing" /\ pump'[j] = Quiet
        BY <1>5, <2>1, <3>1, <3>5 DEF PhaseChanged, InStep, PhaseIgnored, Due, Quiet
      <4> QED
        BY <1>1, <1>4, <2>1, <3>5, <4>1 DEF InStep, Quiet
    <3> QED
      BY <3>2, <3>3, <3>4, <3>5 DEF PhaseEvents
  <2>8. Good
    BY <2>1, <2>2, <2>3, <2>4, <2>5 DEF Quiet
  <2>9. Agrees
    BY <2>1, <2>2, <2>3, <2>4, <2>5 DEF Quiet
  <2> QED
    BY <2>8, <2>9
<1>6. ASSUME Candidate(j)
      PROVE  Good /\ Agrees
  <2>1. worker'[j] = "candidate" /\ worker[j] = "processed" /\ pump[j] = Quiet
        /\ pump'[j] = Handling(j, "publish", "delivering")
    BY <1>6 DEF Candidate
  <2>2. state[j] \notin {"completed", "failed"}
    BY <2>1 DEF OutcomeRests
  <2>3. ASSUME ~cancelReq[j] PROVE InStep(j)'
    <3>1. state[j] = "post_processing"
      BY <2>1, <2>3 DEF StepsAgree, InStep
    <3> QED
      BY <1>1, <1>4, <2>1, <3>1 DEF InStep, Handling, Due, Current
  <2>8. Good
    BY <2>1, <2>2, <2>3 DEF Handling
  <2>9. Agrees
    BY <2>1, <2>2, <2>3 DEF Handling
  <2> QED
    BY <2>8, <2>9
<1>7. ASSUME PublishFile(j) \/ RecordArtifact(j) \/ ScrubPayload(j)
      PROVE  Good /\ Agrees
  <2> DEFINE s == pump[j].pc
  <2>1. /\ pump[j] # Quiet /\ worker'[j] = worker[j]
        /\ pump'[j].version = pump[j].version /\ pump'[j].target = pump[j].target
        /\ \/ /\ s \in {"publish", "record", "scrub"}
              /\ pump'[j].pc \in {"record", "scrub", "delivering"}
           \/ s = "scrubFailed" /\ pump'[j].pc = "fail"
    BY <1>7 DEF PublishFile, RecordArtifact, ScrubPayload, Quiet
  <2>2. state[j] \notin {"completed", "failed"}
    BY <2>1 DEF OutcomeRests
  <2>3. ASSUME ~cancelReq[j] PROVE InStep(j)'
    <3>1. InStep(j)
      BY <2>3 DEF StepsAgree
    <3>2. CASE s = "scrubFailed"
      <4>1. worker'[j] = "gone" /\ pump'[j].pc = "fail"
        BY <2>1, <3>2 DEF HandledIsLast
      <4> QED
        BY <1>1, <1>3, <1>4, <4>1 DEF InStep
    <3>3. CASE s # "scrubFailed"
      <4>1. worker'[j] = "candidate" /\ state[j] = "post_processing" /\ Due(j, s, "delivering")
        BY <2>1, <3>1, <3>3 DEF HandledIsLast, InStep
      <4> QED
        BY <1>1, <1>4, <2>1, <3>3, <4>1 DEF InStep, Due, Current
    <3> QED
      BY <3>2, <3>3
  <2>8. Good
    BY <2>1, <2>2, <2>3 DEF HandledIsLast
  <2>9. Agrees
    BY <2>1, <2>2, <2>3 DEF HandledIsLast
  <2> QED
    BY <2>8, <2>9
<1>8. ASSUME PublishFails(j) \/ DeliverRaises(j)
      PROVE  Good /\ Agrees
  <2>1. /\ pump[j].pc \in {"publish", "record", "deliver"}
        /\ worker'[j] = worker[j] /\ pump'[j] = Quiet
    BY <1>8 DEF PublishFails, DeliverRaises
  <2>2. state[j] \notin {"completed", "failed"} /\ worker[j] = "candidate"
    BY <2>1 DEF OutcomeRests, HandledIsLast, Quiet
  <2>8. Good
    BY <1>1, <1>4, <2>1, <2>2 DEF InStep, Quiet
  <2>9. Agrees
    BY <1>1, <1>4, <2>1, <2>2 DEF InStep, Quiet
  <2> QED
    BY <2>8, <2>9
<1>9. ASSUME Deliver(j)
      PROVE  Good /\ Agrees
  <2>1. pump[j].pc = "deliver" /\ worker'[j] = worker[j] /\ pump'[j].pc = "complete"
    BY <1>3, <1>9 DEF Deliver, Handling
  <2>2. state[j] \notin {"completed", "failed"} /\ worker[j] = "candidate"
    BY <2>1 DEF OutcomeRests, HandledIsLast, Quiet
  <2>3. ~cancelReq[j] => state[j] = "delivering"
    BY <2>1 DEF StepsAgree, InStep
  <2>8. Good
    BY <1>1, <1>4, <2>1, <2>2, <2>3 DEF InStep
  <2>9. Agrees
    BY <1>1, <1>4, <2>1, <2>2, <2>3 DEF InStep
  <2> QED
    BY <2>8, <2>9
<1>10. ASSUME Succeeded(j)
      PROVE  Good /\ Agrees
  <2>1. worker'[j] = "gone" /\ pump'[j] = Quiet
    BY <1>10 DEF Succeeded
  <2>8. Good
    BY <1>1, <1>4, <2>1 DEF InStep, Quiet
  <2>9. Agrees
    BY <1>1, <1>4, <2>1 DEF InStep, Quiet
  <2> QED
    BY <2>8, <2>9
<1>11. ASSUME WorkerFailed(j)
      PROVE  Good /\ Agrees
  <2>1. /\ worker'[j] = "gone"
        /\ \/ pump'[j] = Quiet
           \/ pump'[j].pc = "scrubFailed" /\ state[j] \notin {"completed", "failed"}
    BY <1>11 DEF WorkerFailed, FailIgnored, Handling
  <2>8. Good
    BY <1>1, <1>3, <1>4, <2>1 DEF InStep, Quiet
  <2>9. Agrees
    BY <1>1, <1>3, <1>4, <2>1 DEF InStep, Quiet
  <2> QED
    BY <2>8, <2>9
<1> HIDE DEF Good, Agrees
<1>12. Good /\ Agrees
  BY <1>5, <1>6, <1>7, <1>8, <1>9, <1>10, <1>11 DEF PumpStep
<1>13. HandledIsLast'
  BY <1>1, <1>12 DEF HandledIsLast, Good
<1> QED
  BY <1>1, <1>12, <1>13 DEF Good, Agrees

\* A worker's events when they write the row: the state they write fits the last of them.
LEMMA WritingRests ==
  ASSUME Facts, NEW j \in Jobs,
         PhaseWrite(j) \/ MarkDelivering(j) \/ Complete(j) \/ FailWrite(j)
  PROVE  /\ UNCHANGED <<cancelReq, call, disp, worker, reclaim>>
         /\ \A k \in Jobs \ {j} : /\ state'[k] = state[k] /\ version'[k] = version[k]
                                 /\ pump'[k] = pump[k]
         /\ \/ state'[j] = state[j] /\ version'[j] = version[j]
            \/ state'[j] \in Written /\ version'[j] = version[j] + 1
         /\ worker[j] # "none"
         /\ state'[j] \in {"completed", "failed"} => pump'[j] = Quiet
         /\ state'[j] = "completed" => worker[j] \in {"candidate", "gone"}
         /\ state'[j] = "failed" => worker[j] \in {"none", "gone"}
         /\ HandledIsLast'
         /\ ~cancelReq[j] => InStep(j)'
<1> USE DEF Facts, IInv, TypeOK, RowTypes, StoreTypes, ActorTypes, WInv
<1>1. /\ UNCHANGED <<cancelReq, call, disp, worker, reclaim>>
      /\ \A k \in Jobs \ {j} : /\ state'[k] = state[k] /\ version'[k] = version[k]
                              /\ pump'[k] = pump[k]
  BY TransitionEffect DEF PhaseWrite, MarkDelivering, Complete, FailWrite
<1>2. worker[j] # "none" /\ pump[j] # Quiet /\ state[j] \in Written
      /\ state[j] \notin {"completed", "failed"}
  BY DEF PhaseWrite, MarkDelivering, Complete, FailWrite, PumpInv, OutcomeRests, Quiet
<1>3. disp.pc \in Launching => disp.job # j
  BY <1>2 DEF DispatchInv, Launching, LaunchSteps
<1> DEFINE Kept == state'[j] = state[j] /\ version'[j] = version[j]
           Wrote(s) == state'[j] = s /\ version'[j] = version[j] + 1 /\ Current(j, pump[j].version)
           Good == /\ Kept \/ (state'[j] \in Written /\ version'[j] = version[j] + 1)
                   /\ state'[j] \in {"completed", "failed"} => pump'[j] = Quiet
                   /\ state'[j] = "completed" => worker[j] \in {"candidate", "gone"}
                   /\ state'[j] = "failed" => worker[j] \in {"none", "gone"}
                   /\ pump'[j] = Quiet \/ (pump'[j].pc = "deliver" /\ worker[j] = "candidate")
           Agrees == ~cancelReq[j] => InStep(j)'
<1>4. ASSUME PhaseWrite(j)
      PROVE  Good /\ Agrees
  <2>1. Kept \/ Wrote(pump[j].target)
    BY <1>4, TransitionEffect DEF PhaseWrite, Current
  <2>2. pump[j].target \in {"inspecting", "downloading", "post_processing"}
    BY <1>4 DEF PhaseWrite, PumpInv, PhaseEvents
  <2>3. pump'[j] = Quiet /\ pump[j].pc = "phase" /\ worker[j] \in Phases
    BY <1>4 DEF PhaseWrite, HandledIsLast
  <2>4. ASSUME ~cancelReq[j] PROVE InStep(j)'
    <3>1. InStep(j)
      BY <2>4 DEF StepsAgree
    <3>2. \/ worker[j] = "downloading" /\ Due(j, "phase", "downloading")
          \/ worker[j] = "processing" /\ Due(j, "phase", "post_processing")
      BY <1>2, <2>3, <3>1 DEF InStep, Phases, PhaseEvents
    <3>3. state'[j] = pump[j].target
      BY <1>4, <3>2 DEF PhaseWrite, Transition, SetState, Due
    <3> QED
      BY <1>1, <1>3, <2>3, <3>2, <3>3 DEF InStep, Due, Quiet
  <2>8. Good
    BY <1>2, <2>1, <2>2, <2>3, <2>4 DEF Written
  <2>9. Agrees
    BY <1>2, <2>1, <2>2, <2>3, <2>4 DEF Written
  <2> QED
    BY <2>8, <2>9
<1>5. ASSUME MarkDelivering(j)
      PROVE  Good /\ Agrees
  <2>1. Kept \/ Wrote("delivering")
    BY <1>5, TransitionEffect DEF MarkDelivering, PumpInv, Current
  <2>2. pump'[j].pc = "deliver" /\ worker[j] = "candidate"
    BY <1>2, <1>5 DEF MarkDelivering, HandledIsLast
  <2>3. ASSUME ~cancelReq[j] PROVE InStep(j)'
    <3>1. Due(j, "delivering", "delivering")
      BY <1>5, <2>3 DEF StepsAgree, InStep, MarkDelivering
    <3>2. state'[j] = "delivering"
      BY <1>5, <3>1 DEF MarkDelivering, Transition, SetState, Due
    <3> QED
      BY <1>1, <1>3, <2>2, <3>2 DEF InStep
  <2>8. Good
    BY <1>2, <2>1, <2>2, <2>3 DEF Written
  <2>9. Agrees
    BY <1>2, <2>1, <2>2, <2>3 DEF Written
  <2> QED
    BY <2>8, <2>9
<1>6. ASSUME Complete(j)
      PROVE  Good /\ Agrees
  <2>1. Kept \/ Wrote("completed")
    BY <1>6, TransitionEffect DEF Complete, Current
  <2>2. pump'[j] = Quiet /\ worker[j] = "candidate"
    BY <1>6 DEF Complete, HandledIsLast
  <2>3. InStep(j)'
    BY <1>1, <1>3, <2>2 DEF InStep, Quiet
  <2>8. Good
    BY <1>2, <2>1, <2>2, <2>3 DEF Written
  <2>9. Agrees
    BY <1>2, <2>1, <2>2, <2>3 DEF Written
  <2> QED
    BY <2>8, <2>9
<1>7. ASSUME FailWrite(j)
      PROVE  Good /\ Agrees
  <2>1. Kept \/ Wrote("failed")
    BY <1>7, TransitionEffect DEF FailWrite, PumpInv, Current
  <2>2. pump'[j] = Quiet /\ worker[j] = "gone"
    BY <1>7 DEF FailWrite, HandledIsLast
  <2>3. InStep(j)'
    BY <1>1, <1>3, <2>2 DEF InStep, Quiet
  <2>8. Good
    BY <1>2, <2>1, <2>2, <2>3 DEF Written
  <2>9. Agrees
    BY <1>2, <2>1, <2>2, <2>3 DEF Written
  <2> QED
    BY <2>8, <2>9
<1> HIDE DEF Good, Agrees
<1>8. Good /\ Agrees
  BY <1>4, <1>5, <1>6, <1>7
<1>9. HandledIsLast'
  BY <1>1, <1>8 DEF HandledIsLast, Quiet, Good
<1> QED
  BY <1>1, <1>2, <1>8, <1>9 DEF Good, Agrees
\* A worker's events: each finds the state its handling expects, or one it ignores.
LEMMA PumpRests ==
  ASSUME Facts, NEW j \in Jobs, PumpStep(j)
  PROVE  WInv'
<1> USE DEF Facts, IInv, TypeOK, RowTypes, StoreTypes, ActorTypes, WInv
<1>1. CASE ~(PhaseWrite(j) \/ MarkDelivering(j) \/ Complete(j) \/ FailWrite(j))
  <2>1. /\ UNCHANGED <<state, version, cancelReq, call, disp, reclaim>>
        /\ \A k \in Jobs \ {j} : worker'[k] = worker[k] /\ pump'[k] = pump[k]
        /\ state[j] \in {"completed", "failed"} => pump'[j] = Quiet /\ worker'[j] = "gone"
        /\ HandledIsLast'
        /\ ~cancelReq[j] => InStep(j)'
    BY <1>1, HandlingRests
  <2>2. OutcomeRests' /\ LaunchOpen' /\ OwnerKnows' /\ ReclaimKnows'
    BY <2>1 DEF OutcomeRests, LaunchOpen, OwnerKnows, ReclaimKnows, Current
  <2>3. ASSUME NEW k \in Jobs \ {j}, ~cancelReq'[k]
        PROVE  InStep(k)'
    BY <2>1, <2>3 DEF StepsAgree, InStep, Due, Current
  <2>4. StepsAgree'
    BY <2>1, <2>3 DEF StepsAgree
  <2> QED
    BY <2>1, <2>2, <2>4
<1>2. CASE PhaseWrite(j) \/ MarkDelivering(j) \/ Complete(j) \/ FailWrite(j)
  <2>1. /\ UNCHANGED <<cancelReq, call, disp, worker, reclaim>>
        /\ \A k \in Jobs \ {j} : /\ state'[k] = state[k] /\ version'[k] = version[k]
                                /\ pump'[k] = pump[k]
        /\ \/ state'[j] = state[j] /\ version'[j] = version[j]
           \/ state'[j] \in Written /\ version'[j] = version[j] + 1
        /\ worker[j] # "none"
        /\ state'[j] \in {"completed", "failed"} => pump'[j] = Quiet
        /\ state'[j] = "completed" => worker[j] \in {"candidate", "gone"}
        /\ state'[j] = "failed" => worker[j] \in {"none", "gone"}
        /\ HandledIsLast'
        /\ ~cancelReq[j] => InStep(j)'
    BY <1>2, WritingRests
  <2>2. OutcomeRests'
    BY <2>1 DEF OutcomeRests
  <2>3. LaunchOpen'
    <3>1. disp.pc \in Launching => disp.job \in Jobs /\ disp.job # j
      BY <2>1 DEF DispatchInv, Launching, LaunchSteps, Idle, Dead
    <3> QED
      BY <2>1, <3>1 DEF LaunchOpen
  <2>4. OwnerKnows'
    <3>1. \A c \in Users : call[c] # Idle => call[c].job \in Jobs /\ call[c].version \in Nat
      BY DEF Callers
    <3> QED
      BY <2>1, <3>1 DEF OwnerKnows, Current
  <2>5. ReclaimKnows'
    <3>1. \A k \in Jobs : reclaim[k] # Quiet => reclaim[k].version \in Nat
      OBVIOUS
    <3> QED
      BY <2>1, <3>1 DEF ReclaimKnows, Current
  <2>6. ASSUME NEW k \in Jobs \ {j}, ~cancelReq'[k]
        PROVE  InStep(k)'
    BY <2>1, <2>6 DEF StepsAgree, InStep, Due, Current
  <2>7. StepsAgree'
    BY <2>1, <2>6 DEF StepsAgree
  <2> QED
    BY <2>1, <2>2, <2>3, <2>4, <2>5, <2>7
<1> QED
  BY <1>1, <1>2

\* A crash: no coroutine and no worker is left, and the rows are as they were.
LEMMA RestartRests ==
  ASSUME Facts, Restart
  PROVE  WInv'
<1> USE DEF Facts, IInv, TypeOK, RowTypes, StoreTypes, ActorTypes, WInv
<1>1. /\ UNCHANGED <<state, version, cancelReq>> /\ disp' = Idle
      /\ \A j \in Jobs : pump'[j] = Quiet /\ reclaim'[j] = Quiet
      /\ \A j \in Jobs : worker'[j] = IF worker[j] = "none" THEN "none" ELSE "gone"
      /\ \A c \in Users : call'[c] = Idle
  BY DEF Restart, row, Callers
<1>2. OutcomeRests' /\ HandledIsLast' /\ LaunchOpen' /\ OwnerKnows' /\ ReclaimKnows'
  BY <1>1 DEF OutcomeRests, HandledIsLast, LaunchOpen, OwnerKnows, ReclaimKnows, Launching,
              Idle, Quiet
<1>3. ASSUME NEW j \in Jobs, ~cancelReq'[j]
      PROVE  InStep(j)'
  <2>1. InStep(j)
    BY <1>1, <1>3 DEF StepsAgree
  <2>2. worker'[j] = "none" => state'[j] \in {"absent", "queued", "inspecting", "failed"}
    BY <1>1, <2>1 DEF InStep
  <2> QED
    BY <1>1, <2>2 DEF InStep, Launching, Idle, Quiet
<1> QED
  BY <1>2, <1>3 DEF StepsAgree

\* Every step preserves both invariants.
LEMMA StepRests ==
  ASSUME Facts, [Next]_vars
  PROVE  Facts'
<1>1. IInv'
  BY StepInv DEF Facts
<1>2. CASE Next
  BY <1>1, <1>2, SubmitRests, CancelRests, DispatchRests, ReclaimRests, PumpRests, RestartRests
     DEF Next, Facts
<1>3. CASE UNCHANGED vars
  <2>1. UNCHANGED <<state, version, cancelReq, call, disp, worker, pump, reclaim>>
    BY <1>3 DEF vars, row, actors
  <2> QED
    BY <1>1, <2>1 DEF Facts, WInv, OutcomeRests, HandledIsLast, LaunchOpen, OwnerKnows,
       ReclaimKnows, StepsAgree, InStep, Due, Current
<1> QED
  BY <1>2, <1>3

\* The coroutines write over the states WInv lists and no other.
THEOREM WritersKnow == Spec => []Facts
<1>1. Init => Facts
  BY InitInv, InitRests DEF Facts
<1> QED
  BY <1>1, StepRests, PTL DEF Spec

------------------------------------------------------------------------------
(* Outcomes stay.                                                           *)

\* A step that takes a job out of COMPLETED or FAILED is a reclaiming or an
\* administrator's cancellation.
LEMMA OutcomeStays ==
  ASSUME Facts, Next, NEW j \in Jobs, state[j] \in {"completed", "failed"}, state'[j] # state[j]
  PROVE  \/ state'[j] \in {"expired", "evicted"}
         \/ \E c \in Admins : CancelRequest(c) \/ CancelFinish(c)
<1> USE DEF Facts, IInv, TypeOK, RowTypes, StoreTypes, ActorTypes, WInv
<1>1. pump[j] = Quiet
  BY DEF OutcomeRests
<1>2. \A k \in Jobs : ~SubmitStep(k)
  BY DEF SubmitStep, Create, StorePayload, Acknowledge, Attach, Refuse, FailRefused,
     Transition, SetState, Current, RowOrder, SubmitInv, row
<1>3. \A k \in Jobs : ~PumpStep(k)
  BY <1>1 DEF PumpStep, PhaseChanged, PhaseWrite, Candidate, PublishFile,
     RecordArtifact, PublishFails, ScrubPayload, MarkDelivering, Deliver, DeliverRaises,
     Complete, Succeeded, WorkerFailed, FailWrite, Transition, SetState, Quiet, row
<1>4. ASSUME NEW k \in Jobs, ReclaimWrite(k)
      PROVE  state'[j] \in {"expired", "evicted"}
  <2>1. reclaim[k].target \in {"expired", "evicted"}
    BY <1>4 DEF ReclaimWrite, Quiet
  <2> QED
    BY <1>4, <2>1 DEF ReclaimWrite, Transition, SetState
<1>5. ASSUME NEW c \in Callers, CancelStep(c)
      PROVE  \E d \in Admins : CancelRequest(d) \/ CancelFinish(d)
  <2>1. CancelRequest(c) \/ CancelFinish(c)
    BY <1>5 DEF CancelStep, CancelReload, CancelScrub, row
  <2>2. call[c] # Idle /\ call[c].job = j /\ Current(j, call[c].version)
        /\ call[c].pc \in {"request", "finish"}
    BY <2>1 DEF CancelRequest, CancelFinish, Transition, SetState, Idle
  <2>3. c \notin Users
    BY <2>2 DEF OwnerKnows, UserCancellableStates
  <2> QED
    BY <2>1, <2>3 DEF Callers
<1>6. ~DispatchStep
  <2>1. ASSUME DispatchStep PROVE DenyFail
    BY <2>1 DEF DispatchStep, LaunchStep, ClaimSelect, ClaimUpdate, ClaimGuard, LaunchRead,
       Reserve, Deny, DenyRead, Spawn, DenyTell, DispatcherDies, SetState, row
  <2>2. ASSUME DenyFail PROVE FALSE
    <3>1. disp.job = j /\ disp.pc = "fail" /\ state'[j] = "failed"
      BY <2>2 DEF DenyFail, Transition, SetState
    <3>2. worker[j] = "none"
      BY <3>1 DEF DispatchInv, LaunchSteps
    <3>3. state[j] # "completed" /\ state[j] # "failed"
      BY <3>1, <3>2 DEF OutcomeRests, LaunchOpen, Launching
    <3> QED
      BY <3>3
  <2> QED
    BY <2>1, <2>2
<1> QED
  BY <1>2, <1>3, <1>4, <1>5, <1>6 DEF Next, CancelRead, ReclaimArtifact, Restart, row

\* What the owner was told of a job, COMPLETED or FAILED, is not written over by a late
\* event, the submitting command, the dispatcher or the owner's own cancellation, whatever
\* they read before: an administrator's cancellation and the end of the artifact remain.
THEOREM OutcomesRest == Spec => OnlyAdminOverwritesOutcome
<1>1. Facts /\ [Next]_vars
        => [\A j \in Jobs :
              state[j] \in {"completed", "failed"} /\ state'[j] # state[j]
                => state'[j] \in {"expired", "evicted"}
                   \/ \E c \in Admins : CancelRequest(c) \/ CancelFinish(c)]_vars
  BY OutcomeStays
<1> QED
  BY <1>1, WritersKnow, PTL DEF Spec, OnlyAdminOverwritesOutcome

------------------------------------------------------------------------------
(* The domain's table.                                                      *)

\* A step that changes the state of a job no one asked to cancel, before its artifact is
\* reclaimed, follows an edge of the table.
LEMMA EdgeIsAllowed ==
  ASSUME Facts, Facts', Next, NEW j \in Submitted, state'[j] # state[j], ~cancelReq'[j],
         state[j] \notin {"expired", "evicted"}
  PROVE  IsAllowedTransition(state[j], state'[j])
<1> USE DEF Facts, IInv, TypeOK, RowTypes, StoreTypes, ActorTypes, WInv
<1>1. j \in Jobs /\ state[j] # "absent"
  BY DEF Submitted
<1>2. ASSUME NEW k \in Jobs, SubmitStep(k)
      PROVE  <<state[j], state'[j]>> = <<"queued", "failed">>
  BY <1>1, <1>2 DEF SubmitStep, Create, StorePayload, Acknowledge, Attach, Refuse, FailRefused,
     Transition, SetState, Current, FirstVersion, RowOrder, row
<1>3. ASSUME NEW k \in Jobs, PumpStep(k)
      PROVE  \/ <<state[j], state'[j]>> \in {<<"inspecting", "downloading">>,
                  <<"downloading", "post_processing">>, <<"post_processing", "delivering">>,
                  <<"delivering", "completed">>}
             \/ /\ state[j] \in {"inspecting", "downloading", "post_processing", "delivering"}
                /\ state'[j] = "failed"
  <2>1. k = j /\ cancelReq' = cancelReq
        /\ (PhaseWrite(j) \/ MarkDelivering(j) \/ Complete(j) \/ FailWrite(j))
    BY <1>1, <1>3, HandlingRests, WritingRests
  <2>2. InStep(j)
    BY <1>1, <2>1 DEF StepsAgree
  <2>3. CASE PhaseWrite(j)
    <3>1. pump[j].pc = "phase" /\ pump[j] # Quiet /\ worker[j] \in Phases
          /\ state'[j] = pump[j].target
      BY <1>1, <2>3 DEF PhaseWrite, Transition, SetState, HandledIsLast, Quiet
    <3> QED
      BY <1>1, <2>2, <3>1 DEF InStep, Due, Phases, PhaseEvents
  <2>4. CASE MarkDelivering(j)
    BY <1>1, <2>2, <2>4 DEF MarkDelivering, Transition, SetState, InStep, Due
  <2>5. CASE Complete(j)
    BY <1>1, <2>2, <2>5 DEF Complete, Transition, SetState, InStep
  <2>6. CASE FailWrite(j)
    <3>1. state'[j] = "failed" /\ pump[j].pc = "fail" /\ pump[j] # Quiet
      BY <1>1, <2>6 DEF FailWrite, Transition, SetState, PumpInv, Quiet
    <3>2. state[j] \notin {"absent", "queued", "completed", "failed", "cancelling", "cancelled"}
      BY <1>1, <2>1, <2>2, <3>1 DEF InStep, OutcomeRests, CancelInv
    <3>3. state[j] \in Written
      BY <1>1 DEF OutcomeRests
    <3> QED
      BY <3>1, <3>2, <3>3 DEF Written
  <2> QED
    BY <2>1, <2>3, <2>4, <2>5, <2>6
<1>4. ASSUME NEW k \in Jobs, ReclaimWrite(k)
      PROVE  state[j] \in {"completed", "failed"} /\ state'[j] \in {"expired", "evicted"}
  <2>1. reclaim[k] # Quiet /\ reclaim[k].target \in {"expired", "evicted"}
    BY <1>4 DEF ReclaimWrite, Quiet
  <2>2. k = j /\ Current(j, reclaim[j].version) /\ state'[j] = reclaim[j].target
    BY <1>1, <1>4 DEF ReclaimWrite, Transition, SetState
  <2>3. state[j] \in ArtifactBearingJobStates /\ state[j] \in Written
    BY <1>1, <2>1, <2>2 DEF ReclaimKnows, OutcomeRests
  <2> QED
    BY <2>1, <2>2, <2>3 DEF ArtifactBearingJobStates, Written
<1>5. ASSUME NEW c \in Callers, CancelStep(c)
      PROVE  FALSE
  <2>1. call[c] # Idle => call[c].job \in Jobs
    OBVIOUS
  <2>2. CancelRequest(c) \/ CancelFinish(c)
    BY <1>5 DEF CancelStep, CancelReload, CancelScrub, row
  <2>3. call[c] # Idle
    BY <2>2 DEF CancelRequest, CancelFinish, Idle
  <2>4. cancelReq'[j]
    BY <1>1, <2>1, <2>2, <2>3 DEF CancelRequest, CancelFinish, Transition, SetState, CancelInv
  <2> QED
    BY <2>4
<1>6. ASSUME DispatchStep
      PROVE  <<state[j], state'[j]>> \in {<<"queued", "inspecting">>, <<"inspecting", "failed">>}
  <2>1. CASE ClaimUpdate
    BY <1>1, <2>1 DEF ClaimUpdate, ClaimGuard, SetState
  <2>2. CASE DenyFail
    <3>1. disp.job = j /\ disp.pc = "fail" /\ state'[j] = "failed" /\ cancelReq' = cancelReq
      BY <1>1, <2>2 DEF DenyFail, Transition, SetState
    <3>2. InStep(j)
      BY <1>1, <3>1 DEF StepsAgree
    <3> QED
      BY <3>1, <3>2 DEF InStep, Launching
  <2> QED
    BY <1>6, <2>1, <2>2 DEF DispatchStep, LaunchStep, ClaimSelect, LaunchRead, Reserve, Deny,
       DenyRead, Spawn, DenyTell, DispatcherDies, row
<1>7. <<state[j], state'[j]>> \in AllowedEdges
  <2>1. \/ <<state[j], state'[j]>> \in {<<"queued", "failed">>, <<"queued", "inspecting">>,
             <<"inspecting", "downloading">>, <<"downloading", "post_processing">>,
             <<"post_processing", "delivering">>, <<"delivering", "completed">>}
        \/ /\ state[j] \in {"inspecting", "downloading", "post_processing", "delivering"}
           /\ state'[j] = "failed"
        \/ state[j] \in {"completed", "failed"} /\ state'[j] \in {"expired", "evicted"}
    BY <1>2, <1>3, <1>4, <1>5, <1>6 DEF Next, CancelRead, ReclaimArtifact, Restart, row
  <2> QED
    BY <2>1 DEF AllowedEdges, ArtifactBearingJobStates
<1> QED
  BY <1>7 DEF IsAllowedTransition

\* The coroutines compare versions and never ask the table of domain/state_machine.py; all
\* the same, as long as nobody cancels the job and its artifact is not reclaimed, every
\* change of its state is one the table allows.
THEOREM TableIsFollowed == Spec => FollowsDesignTable
<1>1. Facts /\ Facts' /\ [Next]_vars
        => [\A j \in Submitted :
              state'[j] # state[j] /\ ~cancelReq'[j] /\ state[j] \notin {"expired", "evicted"}
                => IsAllowedTransition(state[j], state'[j])]_vars
  BY EdgeIsAllowed
<1> QED
  BY <1>1, WritersKnow, PTL DEF Spec, FollowsDesignTable
================================================================================
