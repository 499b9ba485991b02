----------------------------- MODULE ArtifactStore -----------------------------
(***************************************************************************)
(* An artifact from its publication to its deletion: the file, the row and *)
(* everyone who uses them.  The cleanup loop deletes what has expired, the *)
(* capacity evictor what is expired or oldest, administrators what they    *)
(* name; HTTP requests and platform uploads read.  Readers over HTTP take  *)
(* a lease in memory, which only the evictor looks at.                     *)
(*                                                                         *)
(* The row's access_state moves by compare-and-set on its version, the     *)
(* file by unlink, the lease registry in memory, and every one of these is *)
(* a step of its own.  The code gives way to other coroutines only where   *)
(* it awaits the database; that they may also run before an invalidation   *)
(* or an unlink only adds behaviours.  A crash keeps the rows and the      *)
(* files and loses the rest.  The bot never calls                          *)
(* CleanupService.run_once, so nothing resumes a deletion (bootstrap.py    *)
(* runs expire_due_artifacts alone).                                       *)
(***************************************************************************)
EXTENDS Naturals, FiniteSets

CONSTANTS
  Artifacts,    \* artifact ids; their storage keys are as unique as they are
  Cleaners,     \* the cleanup loop (bootstrap starts one)
  Evictors,     \* calls of ensure_capacity: by launch and by publish_candidate
  Admins,       \* confirmed AdminArtifactDelete operations
  Requests,     \* HTTP requests that may be in flight at a time
  Nobody,       \* not one of the above
  MaxStreams,   \* http.max_concurrent_streams
  Faults,       \* which of the failures below may happen
  MaxRestarts   \* bound on the number of crashes

FaultKinds == {"insert",   \* the artifact row cannot be inserted
               "unlink",   \* the file cannot be removed
               "client"}   \* an HTTP client is gone before its first byte

ASSUME StoreAssumption ==
  /\ Nobody \notin Artifacts \cup Cleaners \cup Evictors \cup Admins
  /\ Cleaners \cap Evictors = {}
  /\ Admins \cap (Cleaners \cup Evictors) = {}
  /\ MaxStreams \in Nat \ {0}
  /\ Faults \subseteq FaultKinds
  /\ MaxRestarts \in Nat
  /\ IsFiniteSet(Requests)

Deleters == Cleaners \cup Evictors \cup Admins

VARIABLES
  \* the artifact directory and the artifacts table
  file, access, version, reason, expired,
  \* publisher and uploader of each artifact
  publish,
  \* the deleters: what they listed and what they are deleting
  batch, del,
  \* the lease registry, the stream slots in use, the HTTP requests
  leases, invalidated, slots, req,
  restarts

stored    == <<file, access, version, reason, expired>>
deleting  == <<batch, del>>
serving   == <<leases, invalidated, slots, req>>
vars      == <<stored, publish, deleting, serving, restarts>>

Idle    == [pc |-> "idle", art |-> Nobody, version |-> 0, reason |-> "none"]
NoRead  == [pc |-> "idle", art |-> Nobody]

Available == {a \in Artifacts : access[a] = "available"}

------------------------------------------------------------------------------
(* Publication (PublishService.publish_candidate) and delivery.            *)

MoveFile(a) ==
  /\ publish[a] = "none"
  /\ publish' = [publish EXCEPT ![a] = "moved"]
  /\ file' = file \cup {a}
  /\ UNCHANGED <<access, version, reason, expired, deleting, serving, restarts>>

\* create_available.
Record(a) ==
  /\ publish[a] = "moved"
  /\ publish' = [publish EXCEPT ![a] = "recorded"]
  /\ access' = [access EXCEPT ![a] = "available"]
  /\ version' = [version EXCEPT ![a] = 1]
  /\ UNCHANGED <<file, reason, expired, deleting, serving, restarts>>

\* The row was not inserted: remove the file again and give up.
RecordFails(a) ==
  /\ "insert" \in Faults
  /\ publish[a] = "moved"
  /\ publish' = [publish EXCEPT ![a] = "done"]
  /\ file' = file \ {a}
  /\ UNCHANGED <<access, version, reason, expired, deleting, serving, restarts>>

\* DeliveryService.deliver: an upload reads the file at its own pace and takes
\* no lease; a larger artifact gets a link and is read over HTTP.
StartUpload(a) ==
  /\ publish[a] = "recorded"
  /\ publish' = [publish EXCEPT ![a] = "uploading"]
  /\ UNCHANGED <<stored, deleting, serving, restarts>>

Delivered(a) ==
  /\ publish[a] \in {"recorded", "uploading"}
  /\ publish' = [publish EXCEPT ![a] = "done"]
  /\ UNCHANGED <<stored, deleting, serving, restarts>>

\* expires_at passes.
Expire(a) ==
  /\ a \in Available \ expired
  /\ expired' = expired \cup {a}
  /\ UNCHANGED <<file, access, version, reason, publish, deleting, serving, restarts>>

------------------------------------------------------------------------------
(* Who deletes what.  A deleter lists rows, takes them one at a time, and   *)
(* deletes each: mark the row, (evictor) invalidate its leases, unlink the  *)
(* file, finish the row.                                                    *)

Listed(arts) == {<<a, version[a]>> : a \in arts}

\* expire_due_artifacts and _reclaim_expired begin with list_expired.
ListExpired(d) ==
  /\ d \in Cleaners \cup Evictors
  /\ del[d] = Idle
  /\ del' = [del EXCEPT ![d] = [Idle EXCEPT !.pc = "pick", !.reason = "expired"]]
  /\ batch' = [batch EXCEPT ![d] = Listed(Available \cap expired)]
  /\ UNCHANGED <<stored, publish, serving, restarts>>

\* The evictor's second list.  Which of its rows comes first is left open.
ListCandidates(d) ==
  /\ d \in Evictors
  /\ \/ del[d].pc = "list"
     \/ del[d].pc = "pick" /\ del[d].reason = "expired" /\ batch[d] = {}
  /\ del' = [del EXCEPT ![d] = [Idle EXCEPT !.pc = "pick", !.reason = "evicted"]]
  /\ batch' = [batch EXCEPT ![d] = Listed(Available \ expired)]
  /\ UNCHANGED <<stored, publish, serving, restarts>>

\* The evictor skips a leased artifact, the cleanup loop does not ask.
MayTake(d, a) == d \in Evictors => leases[a] = {}

Pick(d) ==
  /\ del[d].pc = "pick"
  /\ \E e \in batch[d] :
       /\ batch' = [batch EXCEPT ![d] = @ \ {e}]
       /\ del' = IF MayTake(d, e[1])
                   THEN [del EXCEPT ![d] = [pc |-> "mark", art |-> e[1],
                                            version |-> e[2], reason |-> @.reason]]
                   ELSE del
  /\ UNCHANGED <<stored, publish, serving, restarts>>

\* The list is through; or the evictor, which asks before every candidate, finds
\* enough bytes available.
StopDeleting(d) ==
  /\ \/ del[d].pc = "pick" /\ (batch[d] = {} \/ del[d].reason = "evicted")
     \/ del[d].pc = "list"
  /\ del' = [del EXCEPT ![d] = Idle]
  /\ batch' = [batch EXCEPT ![d] = {}]
  /\ UNCHANGED <<stored, publish, serving, restarts>>

\* AdminArtifactDelete reads the one row it was given, whatever its state.
AdminRead(d, a) ==
  /\ d \in Admins
  /\ del[d] = Idle
  /\ access[a] # "none"
  /\ del' = [del EXCEPT ![d] = [pc |-> "mark", art |-> a, version |-> version[a],
                                reason |-> "administrator"]]
  /\ UNCHANGED <<stored, publish, batch, serving, restarts>>

\* Where a deleter goes on when it is through with an artifact.
Onward(d) == IF d \in Admins THEN Idle
            ELSE [del[d] EXCEPT !.pc = "pick", !.art = Nobody, !.version = 0]

\* Mutant: only the version is compared, and nothing advances it.
MarkableUnversioned(d) == access[del[d].art] # "none"

Markable(d) ==
  access[del[d].art] = "available" /\ version[del[d].art] = del[d].version

\* mark_deletion_pending
Mark(d) ==
  LET a == del[d].art IN
  /\ del[d].pc = "mark"
  /\ IF Markable(d)
       THEN /\ access' = [access EXCEPT ![a] = "pending"]
            /\ version' = [version EXCEPT ![a] = @ + 1]
            /\ reason' = [reason EXCEPT ![a] = del[d].reason]
            /\ del' = [del EXCEPT
                         ![d].pc = IF d \in Evictors THEN "invalidate" ELSE "unlink",
                         ![d].version = version[a] + 1]
       ELSE /\ del' = [del EXCEPT ![d] = Onward(d)]
            /\ UNCHANGED <<access, version, reason>>
  /\ UNCHANGED <<file, expired, publish, batch, serving, restarts>>

\* Mutant: nothing is remembered of the invalidation.
InvalidateForgets(d) ==
  /\ del[d].pc = "invalidate"
  /\ del' = [del EXCEPT ![d].pc = "unlink"]
  /\ UNCHANGED <<stored, publish, batch, serving, restarts>>

\* From now on no request gets a lease; those that have one keep it.
Invalidate(d) ==
  /\ del[d].pc = "invalidate"
  /\ invalidated' = invalidated \cup {del[d].art}
  /\ del' = [del EXCEPT ![d].pc = "unlink"]
  /\ UNCHANGED <<stored, publish, batch, leases, slots, req, restarts>>

\* LocalArtifactStore.delete
Unlink(d) ==
  /\ del[d].pc = "unlink"
  /\ file' = file \ {del[d].art}
  /\ del' = [del EXCEPT ![d].pc = "finish"]
  /\ UNCHANGED <<access, version, reason, expired, publish, batch, serving, restarts>>

\* Mutant: the failure is ignored and the row finished.
UnlinkFailsSilently(d) ==
  /\ "unlink" \in Faults
  /\ del[d].pc = "unlink"
  /\ del' = [del EXCEPT ![d].pc = "finish"]
  /\ UNCHANGED <<stored, publish, batch, serving, restarts>>

UnlinkFails(d) ==
  /\ "unlink" \in Faults
  /\ del[d].pc = "unlink"
  /\ del' = [del EXCEPT ![d] = Onward(d)]
  /\ UNCHANGED <<stored, publish, batch, serving, restarts>>

\* finish_deletion.  After a success the evictor lists its candidates again.
Finish(d) ==
  LET a == del[d].art
      ours == access[a] = "pending" /\ version[a] = del[d].version IN
  /\ del[d].pc = "finish"
  /\ IF ours
       THEN /\ access' = [access EXCEPT ![a] = "deleted"]
            /\ version' = [version EXCEPT ![a] = @ + 1]
       ELSE UNCHANGED <<access, version>>
  /\ del' = [del EXCEPT ![d] = IF ours /\ d \in Evictors /\ @.reason = "evicted"
                                 THEN [Idle EXCEPT !.pc = "list", !.reason = "evicted"]
                                 ELSE Onward(d)]
  /\ UNCHANGED <<file, reason, expired, publish, batch, serving, restarts>>

DeleteStep(d) == \/ Pick(d) \/ StopDeleting(d) \/ ListCandidates(d) \/ Mark(d)
                 \/ Invalidate(d) \/ Unlink(d) \/ UnlinkFails(d) \/ Finish(d)

------------------------------------------------------------------------------
(* A signed link: DownloadService.handle, ArtifactAccessCoordinator and the *)
(* body generator.                                                          *)

\* handle reads the row and checks the token against it.
ReadRow(r, a) ==
  /\ req[r] = NoRead
  /\ a \in Available \ expired
  /\ req' = [req EXCEPT ![r] = [pc |-> "begin", art |-> a]]
  /\ UNCHANGED <<stored, publish, deleting, leases, invalidated, slots, restarts>>

\* try_begin_stream reads it again, and then asks the registry for a lease.
BeginStream(r) ==
  /\ req[r].pc = "begin"
  /\ req' = [req EXCEPT ![r] = IF req[r].art \in Available
                                 THEN [@ EXCEPT !.pc = "acquire"] ELSE NoRead]
  /\ UNCHANGED <<stored, publish, deleting, leases, invalidated, slots, restarts>>

Acquire(r) ==
  LET a == req[r].art IN
  /\ req[r].pc = "acquire"
  /\ IF a \in invalidated
       THEN /\ req' = [req EXCEPT ![r] = NoRead]
            /\ UNCHANGED leases
       ELSE /\ req' = [req EXCEPT ![r].pc = "stat"]
            /\ leases' = [leases EXCEPT ![a] = @ \cup {r}]
  /\ UNCHANGED <<stored, publish, deleting, invalidated, slots, restarts>>

Release(r) == leases' = [leases EXCEPT ![req[r].art] = @ \ {r}]

Stat(r) ==
  /\ req[r].pc = "stat"
  /\ req[r].art \in file
  /\ req' = [req EXCEPT ![r].pc = "slot"]
  /\ UNCHANGED <<stored, publish, deleting, leases, invalidated, slots, restarts>>

\* Mutant: an answer without a body keeps its lease.
AnswerKeepsLease(r) ==
  /\ req[r].pc = "stat"
  /\ req' = [req EXCEPT ![r] = NoRead]
  /\ UNCHANGED <<stored, publish, deleting, leases, invalidated, slots, restarts>>

\* Nothing to stream: the file is gone, the range is wrong, or it was a HEAD.
Answer(r) ==
  /\ req[r].pc = "stat"
  /\ req' = [req EXCEPT ![r] = NoRead]
  /\ Release(r)
  /\ UNCHANGED <<stored, publish, deleting, invalidated, slots, restarts>>

\* Mutant: one stream more than the limit.
SlotFreeOffByOne == slots <= MaxStreams

SlotFree == slots < MaxStreams

TakeSlot(r) ==
  /\ req[r].pc = "slot"
  /\ SlotFree
  /\ slots' = slots + 1
  /\ req' = [req EXCEPT ![r].pc = "body"]
  /\ UNCHANGED <<stored, publish, deleting, leases, invalidated, restarts>>

\* The client left while the headers were sent: the generator never starts, and
\* its finally clause never runs.
ClientGone(r) ==
  /\ "client" \in Faults
  /\ req[r].pc = "body"
  /\ req' = [req EXCEPT ![r].pc = "lost"]
  /\ UNCHANGED <<stored, publish, deleting, leases, invalidated, slots, restarts>>

OpenFile(r) ==
  /\ req[r].pc = "body"
  /\ req[r].art \in file
  /\ req' = [req EXCEPT ![r].pc = "reading"]
  /\ UNCHANGED <<stored, publish, deleting, leases, invalidated, slots, restarts>>

\* Mutant: the slot is not given back.
EndStreamKeepsSlot(r) ==
  /\ \/ req[r].pc = "reading"
     \/ req[r].pc = "body" /\ req[r].art \notin file
  /\ req' = [req EXCEPT ![r] = NoRead]
  /\ Release(r)
  /\ UNCHANGED <<stored, publish, deleting, invalidated, slots, restarts>>

\* The body is sent, cut short, or could not be opened: the finally clause.
EndStream(r) ==
  /\ \/ req[r].pc = "reading"
     \/ req[r].pc = "body" /\ req[r].art \notin file
  /\ req' = [req EXCEPT ![r] = NoRead]
  /\ Release(r)
  /\ slots' = slots - 1
  /\ UNCHANGED <<stored, publish, deleting, invalidated, restarts>>

RequestStep(r) == \/ BeginStream(r) \/ Acquire(r) \/ Stat(r) \/ Answer(r)
                  \/ TakeSlot(r) \/ ClientGone(r) \/ OpenFile(r) \/ EndStream(r)

------------------------------------------------------------------------------
\* The process dies and is started again: rows and files stay.
Restart ==
  /\ restarts < MaxRestarts
  /\ restarts' = restarts + 1
  /\ publish' = [a \in Artifacts |-> IF publish[a] = "none" THEN "none" ELSE "done"]
  /\ batch' = [d \in Deleters |-> {}]
  /\ del' = [d \in Deleters |-> Idle]
  /\ leases' = [a \in Artifacts |-> {}]
  /\ invalidated' = {}
  /\ slots' = 0
  /\ req' = [r \in Requests |-> NoRead]
  /\ UNCHANGED stored

Init ==
  /\ file = {}
  /\ access = [a \in Artifacts |-> "none"]
  /\ version = [a \in Artifacts |-> 0]
  /\ reason = [a \in Artifacts |-> "none"]
  /\ expired = {}
  /\ publish = [a \in Artifacts |-> "none"]
  /\ batch = [d \in Deleters |-> {}]
  /\ del = [d \in Deleters |-> Idle]
  /\ leases = [a \in Artifacts |-> {}]
  /\ invalidated = {}
  /\ slots = 0
  /\ req = [r \in Requests |-> NoRead]
  /\ restarts = 0

PublishStep(a) == \/ MoveFile(a) \/ Record(a) \/ RecordFails(a)
                  \/ StartUpload(a) \/ Delivered(a)

Next ==
  \/ \E a \in Artifacts : PublishStep(a) \/ Expire(a)
  \/ \E d \in Deleters : \/ ListExpired(d) \/ DeleteStep(d)
                         \/ \E a \in Artifacts : AdminRead(d, a)
  \/ \E r \in Requests : RequestStep(r) \/ \E a \in Artifacts : ReadRow(r, a)
  \/ Restart

Spec == Init /\ [][Next]_vars

------------------------------------------------------------------------------
(* Types.                                                                   *)

Reasons == {"expired", "evicted", "administrator"}

StoredTypes ==
  /\ file \in SUBSET Artifacts
  /\ access \in [Artifacts -> {"none", "available", "pending", "deleted"}]
  /\ version \in [Artifacts -> Nat]
  /\ reason \in [Artifacts -> Reasons \cup {"none"}]
  /\ expired \in SUBSET Artifacts
  /\ publish \in [Artifacts -> {"none", "moved", "recorded", "uploading", "done"}]

DeletingTypes ==
  /\ batch \in [Deleters -> SUBSET (Artifacts \X Nat)]
  /\ del \in [Deleters -> {Idle} \cup
       [pc : {"pick", "list"}, art : {Nobody}, version : {0}, reason : Reasons] \cup
       [pc : {"mark", "invalidate", "unlink", "finish"}, art : Artifacts,
        version : Nat, reason : Reasons]]

ServingTypes ==
  /\ leases \in [Artifacts -> SUBSET Requests]
  /\ invalidated \in SUBSET Artifacts
  /\ slots \in 0 .. MaxStreams
  /\ req \in [Requests -> {NoRead} \cup
       [pc : {"begin", "acquire", "stat", "slot", "body", "reading", "lost"},
        art : Artifacts]]
  /\ restarts \in 0 .. MaxRestarts

\* Rows, files, registry and coroutines hold values of the kind the code gives
\* them; the slots in use stay within the semaphore of DownloadService.
TypeOK == StoredTypes /\ DeletingTypes /\ ServingTypes

------------------------------------------------------------------------------
(* What holds of the store.                                                 *)

\* A row offers only what can be read, and says DELETED only when the file is
\* gone, however deleters, publishers and crashes interleave.
RowMatchesFile ==
  \A a \in Artifacts : /\ access[a] = "available" => a \in file
                       /\ access[a] = "deleted" => a \notin file

Streaming(r) == req[r].pc \in {"body", "reading", "lost"}
Leasing(r)   == req[r].pc \in {"stat", "slot"} \/ Streaming(r)

\* Every way out of DownloadService.handle and its generator gives back the
\* lease and the slot, and nobody gives back what another request holds.  Only a
\* client that is gone before its first byte leaves both behind.
TakenUntilReturned ==
  /\ \A a \in Artifacts : leases[a] = {r \in Requests : req[r].art = a /\ Leasing(r)}
  /\ slots = Cardinality({r \in Requests : Streaming(r)})

\* Once the evictor removed the file nobody gets a new lease on the artifact,
\* though requests that saw the row available may still be on their way.
EvictedLeasesEnd ==
  [][\A a \in Artifacts :
       reason[a] = "evicted" /\ a \notin file => leases'[a] \subseteq leases[a]]_vars

Holds(d, a) == del[d].art = a /\ del[d].pc \in {"invalidate", "unlink", "finish"}

Owner(a) == IF \E d \in Deleters : Holds(d, a)
              THEN CHOOSE d \in Deleters : Holds(d, a) ELSE Nobody

Promise == INSTANCE DeletedOnce WITH
             phase <- access, owner <- [a \in Artifacts |-> Owner(a)]

\* The cleanup loop, evictors and administrators that want the same artifact
\* gone: one of them deletes it, once.
DeletesOnce == Promise!Spec

------------------------------------------------------------------------------
(* Progress.                                                                *)

\* The event loop runs every coroutine that is not waiting, and clients read on
\* or go away; asyncio.Semaphore serves those that wait in order.  Nobody is
\* assumed to publish, delete or ask for anything.
Fairness ==
  /\ \A r \in Requests : WF_vars(RequestStep(r)) /\ SF_vars(TakeSlot(r))
  /\ \A d \in Deleters : WF_vars(DeleteStep(d))

FairSpec == Spec /\ Fairness

\* A request that waits for a stream slot gets one, unless clients that were gone
\* too early have taken all of them.
WaitingStreamsStart ==
  \A r \in Requests :
    req[r].pc = "slot" ~>
      \/ req[r].pc # "slot"
      \/ Cardinality({s \in Requests : req[s].pc = "lost"}) = MaxStreams

================================================================================
