------------------------------- MODULE Delivery -------------------------------
(***************************************************************************)
(* What the owner of one job sees: the acknowledgement, the edits of the   *)
(* progress message, the uploaded file or the signed link, the final       *)
(* message, and the answers to the HTTP requests made with the link.       *)
(*                                                                         *)
(* The pump hands one line of the worker at a time to                      *)
(* Orchestrator.handle_event, which awaits the database and the platform;  *)
(* in between the clock advances, the owner cancels, the artifact is       *)
(* reclaimed and links are followed.  The worker of this commit writes no  *)
(* progress line; pump, orchestrator and reporter take every line of the   *)
(* protocol, with whatever number it carries, and so does the model.       *)
(*                                                                         *)
(* Left to other modules: phases, payload and dispatch (JobLifecycle), the *)
(* room for the file (Capacity), leases, stream slots and the steps of a   *)
(* deletion (ArtifactStore).                                               *)
(***************************************************************************)
EXTENDS Integers, Sequences

CONSTANTS
  Deployments,  \* sets of platforms a configuration enables
  MayFail,      \* whether calls of a platform may fail
  AdapterLimit, \* upload_limit_bytes of the adapters
  Limits,       \* attachment_size_limit of Discord interactions; 0: none given
  Files,        \* what workers make: [size, title], a title being [chars, width], with the
                \* UTF-8 bytes per character
  MaxTitle,     \* _MAX_TITLE_UTF8
  MaxEncoded,   \* bound of content_disposition on the encoded name
  Readings,     \* [phase, done, total] of progress lines
  Ranges,       \* Range headers of requests
  Interval,     \* ProgressReporter.interval
  Retention,    \* retention_seconds
  LinkLifetime, \* link_expiry_seconds
  MaxTTL,       \* _HARD_MAX_TTL_SECONDS
  MaxTime,      \* bound on the clock
  MaxSequence,  \* bound on the numbers of progress lines
  MaxLines      \* bound on the number of progress lines

Platforms == {"telegram", "discord"}
Unknown   == -1    \* a value that is not there
Never     == -1000 \* earlier than any interval before the first moment

ASSUME DeliveryAssumption ==
  /\ Deployments \subseteq SUBSET Platforms \ {{}}
  /\ MayFail \in BOOLEAN
  /\ AdapterLimit \in Nat /\ Limits \subseteq Nat
  /\ Files \subseteq [size : Nat, title : [chars : Nat \ {0}, width : 1..4]]
  /\ MaxTitle \in Nat /\ MaxEncoded \in Nat
  /\ Ranges \subseteq [kind : {"whole", "unreadable", "open", "suffix", "span"}, first : Nat, last : Nat]
  /\ Interval \in Nat
  /\ Retention \in Nat \ {0} /\ LinkLifetime \in Nat \ {0} /\ MaxTTL \in Nat
  /\ MaxTime \in 0..999 /\ MaxSequence \in Nat /\ MaxLines \in Nat

VARIABLES
  enabled,  \* the platforms of this deployment
  job,      \* the row: state, last_worker_sequence; origin and upload limit of its context
  art,      \* the artifact: status, size, name, expires_at
  worker,   \* "none", "running", then "offered" (its candidate was written), then "ended"
  lines,    \* progress lines so far
  pump,     \* where handle_event is: step, start time, job version still current, line, link
  rep,      \* the reporter on this job: terminal, last edit, its time, number and phase
  chat,     \* the owner's chat: the last edit asked for, the outcomes told, whether the file
            \* came, the link, whether send_final raised although its message came
  lapses,   \* why the owner may have heard nothing of a delivery
  req,      \* an HTTP request and the answer to it
  clock

publishing == <<job, art, pump, rep, chat, lapses>>
vars == <<enabled, worker, lines, publishing, req, clock>>

NoLine  == [kind |-> "none", seq |-> 0, phase |-> "none", done |-> Unknown, total |-> Unknown]
NoName  == [chars |-> 0, width |-> 1]
AnyRange == [kind |-> "whole", first |-> 0, last |-> 0]
NoLink  == 0
Idle    == [pc |-> "idle", at |-> 0, current |-> TRUE, line |-> NoLine, link |-> NoLink]
NoReq   == [pc |-> "idle", range |-> AnyRange, status |-> 0, from |-> 0, upto |-> Unknown]

NoEdit  == [seq |-> 0, phase |-> "none", percent |-> Unknown, at |-> Never]

Tell(outcome, link) ==
  chat' = [chat EXCEPT !.told = Append(@, outcome), !.link = link]
GotFile == chat' = [chat EXCEPT !.file = TRUE]

Lower(a, b) == IF a < b THEN a ELSE b

------------------------------------------------------------------------------
(* Submission: the adapter the command came through answers it, the adapter *)
(* of the job service acknowledges the job.                                 *)

Port == IF "telegram" \in enabled THEN "telegram" ELSE "discord"

\* A chat of another platform is a chat that does not exist.
CallFails == MayFail \/ Port # job.origin
\* get_channel knows the channels in its cache.
Overlooked == MayFail /\ Port = "discord"

ContextLimit(p, given) ==
  IF p = "discord" /\ given > 0 THEN given ELSE AdapterLimit

Submit(p, given) ==
  /\ job.state = "none"
  /\ p \in enabled
  /\ job' = [job EXCEPT !.state = "created", !.origin = p, !.limit = ContextLimit(p, given)]
  /\ UNCHANGED <<enabled, art, worker, lines, pump, rep, chat, lapses, req, clock>>

\* With or, when Discord's cache does not know the channel, without a message.
Acknowledge ==
  /\ job.state = "created"
  /\ Port = job.origin \/ Overlooked
  /\ job' = [job EXCEPT !.state = "running"]
  /\ worker' = "running"
  /\ UNCHANGED <<enabled, art, lines, pump, rep, chat, lapses, req, clock>>

\* acknowledge_job raised: the job has FAILED, and the adapter of the command says so.
Refuse ==
  /\ job.state = "created" /\ CallFails
  /\ job' = [job EXCEPT !.state = "refused"]
  /\ UNCHANGED <<enabled, art, worker, lines, pump, rep, chat, lapses, req, clock>>

\* JobService.cancel, which leaves the worker alone.
Cancel ==
  /\ job.state \in {"running", "delivering"}
  /\ job' = [job EXCEPT !.state = "cancelled"]
  /\ pump' = [pump EXCEPT !.current = FALSE]
  /\ UNCHANGED <<enabled, art, worker, lines, rep, chat, lapses, req, clock>>

------------------------------------------------------------------------------
(* The pump.  Taking a line includes reading the row; pump.current says     *)
(* whether the version just read is still the row's.                        *)

Goto(step) == pump' = [pump EXCEPT !.pc = step]
Rest       == pump' = Idle

Take(line, step) ==
  pump' = [Idle EXCEPT !.pc = step, !.at = clock, !.line = line]

Newer(seq, last) == seq > last

ProgressLine(seq, r) ==
  /\ pump = Idle /\ worker \in {"running", "offered"} /\ lines < MaxLines
  /\ lines' = lines + 1
  /\ IF Newer(seq, job.seq)
     THEN Take([kind |-> "progress", seq |-> seq, phase |-> r.phase, done |-> r.done,
                total |-> r.total], "snapshot")
     ELSE UNCHANGED pump
  /\ UNCHANGED <<enabled, job, art, worker, rep, chat, lapses, req, clock>>

\* update_progress_snapshot; a conflict is not looked at.
Snapshot ==
  /\ pump.pc = "snapshot"
  /\ job' = IF pump.current THEN [job EXCEPT !.seq = pump.line.seq] ELSE job
  /\ Goto("edit")
  /\ UNCHANGED <<enabled, art, worker, lines, rep, chat, lapses, req, clock>>

\* progress_from_worker_values drops negative values.
Amount(x) == IF x < 0 THEN Unknown ELSE x
Percent(done, total) ==
  IF Amount(total) <= 0 \/ Amount(done) = Unknown THEN Unknown
  ELSE Lower(100, (done * 100) \div total)

PhaseChanged == pump.line.phase \notin {"none", rep.phase}

\* on_progress.  Both adapters swallow what an edit raises, so there is no backoff.
EditDueAlways ==
  /\ Newer(pump.line.seq, rep.seq)
  /\ PhaseChanged \/ pump.at - rep.sent >= Interval
EditDue ==
  /\ ~rep.terminal
  /\ Newer(pump.line.seq, rep.seq)
  /\ PhaseChanged \/ pump.at - rep.sent >= Interval

Edit ==
  /\ pump.pc = "edit" /\ EditDue
  /\ rep' = [rep EXCEPT !.sent = pump.at, !.seq = pump.line.seq, !.phase = pump.line.phase]
  /\ chat' = [chat EXCEPT !.edit =
                [seq |-> pump.line.seq, phase |-> pump.line.phase, at |-> pump.at,
                 percent |-> Percent(pump.line.done, pump.line.total)]]
  /\ Rest
  /\ UNCHANGED <<enabled, job, art, worker, lines, lapses, req, clock>>

SkipEdit ==
  /\ pump.pc = "edit" /\ ~EditDue
  /\ Rest
  /\ UNCHANGED <<enabled, job, art, worker, lines, rep, chat, lapses, req, clock>>

------------------------------------------------------------------------------
(* artifact_candidate.                                                      *)

\* build_artifact_display_name: the title up to MaxTitle bytes, and ".mp4".
DisplayName(t) == [t EXCEPT !.chars = Lower(t.chars, MaxTitle \div t.width)]

Candidate ==
  /\ pump = Idle /\ worker = "running"
  /\ worker' = "offered"
  /\ Take([NoLine EXCEPT !.kind = "candidate"], "publish")
  /\ UNCHANGED <<enabled, job, art, lines, rep, chat, lapses, req, clock>>

\* publish_candidate raised.
PublishFails ==
  /\ pump.pc = "publish"
  /\ Rest
  /\ UNCHANGED <<enabled, job, art, worker, lines, rep, chat, lapses, req, clock>>

\* publish_candidate; a conflict of its transition is not looked at.  Then the
\* orchestrator reads the row again.
Publish(f) ==
  /\ pump.pc = "publish"
  /\ art' = [status |-> "available", size |-> f.size, name |-> DisplayName(f.title),
             expires |-> pump.at + Retention]
  /\ job' = IF pump.current THEN [job EXCEPT !.state = "delivering"] ELSE job
  /\ pump' = [pump EXCEPT !.pc = "deliver", !.current = TRUE]
  /\ UNCHANGED <<enabled, worker, lines, rep, chat, lapses, req, clock>>

\* DeliveryPlanDecision.decide.
Direct == art.size <= job.limit

\* What the adapter accepts of a file planned as an upload.
PortLimit == IF Port = "discord" /\ job.limit > 0 THEN job.limit ELSE AdapterLimit

Upload ==
  /\ pump.pc = "deliver" /\ Direct
  /\ art.size <= PortLimit /\ art.status = "available"
  /\ GotFile
  /\ Goto("final")
  /\ UNCHANGED <<enabled, job, art, worker, lines, rep, lapses, req, clock>>

\* RATE_LIMITED: the result says so, and nobody reads it.
UploadDeferred ==
  /\ pump.pc = "deliver" /\ Direct
  /\ art.size <= PortLimit /\ art.status = "available" /\ MayFail
  /\ lapses' = lapses \cup {"deferred"}
  /\ Goto("reload")
  /\ UNCHANGED <<enabled, job, art, worker, lines, rep, chat, req, clock>>

\* TOO_LARGE, or FAILED: the file or the channel is gone, or the call raised, perhaps
\* after the file arrived.
UploadFails ==
  /\ pump.pc = "deliver" /\ Direct
  /\ \/ (art.size > PortLimit \/ art.status = "gone" \/ MayFail) /\ UNCHANGED chat
     \/ art.size <= PortLimit /\ art.status = "available" /\ MayFail /\ GotFile
  /\ Goto("link")
  /\ UNCHANGED <<enabled, job, art, worker, lines, rep, lapses, req, clock>>

PlanLink ==
  /\ pump.pc = "deliver" /\ ~Direct
  /\ Goto("link")
  /\ UNCHANGED <<enabled, job, art, worker, lines, rep, chat, lapses, req, clock>>

\* issue_download_link, from the time the event was taken; both terms lie after it.
ExpiryOfLifetime == pump.at + LinkLifetime
LinkExpiry == Lower(pump.at + LinkLifetime, art.expires)

Issue ==
  /\ pump.pc = "link"
  /\ pump' = [pump EXCEPT !.pc = "final", !.link = LinkExpiry]
  /\ UNCHANGED <<enabled, job, art, worker, lines, rep, chat, lapses, req, clock>>

Final ==
  /\ pump.pc = "final"
  /\ \/ Tell("completed", pump.link) /\ UNCHANGED lapses
     \/ Overlooked /\ UNCHANGED chat /\ lapses' = lapses \cup {"overlooked"}
  /\ Goto("reload")
  /\ UNCHANGED <<enabled, job, art, worker, lines, rep, req, clock>>

\* send_final raised, perhaps after its message came (the reply of the platform was lost).
FinalRaised ==
  \/ CallFails /\ UNCHANGED chat
  \/ /\ MayFail /\ Port = job.origin
     /\ chat' = [chat EXCEPT !.told = Append(@, "completed"), !.link = pump.link, !.raised = TRUE]

\* The exception leaves deliver and handle_event; the pump goes on.
FinalFailsQuietly ==
  /\ pump.pc = "final" /\ FinalRaised
  /\ Goto("reload")
  /\ UNCHANGED <<enabled, job, art, worker, lines, rep, lapses, req, clock>>
FinalFails ==
  /\ pump.pc = "final" /\ FinalRaised
  /\ Rest
  /\ UNCHANGED <<enabled, job, art, worker, lines, rep, lapses, req, clock>>

Reload ==
  /\ pump.pc = "reload"
  /\ pump' = [pump EXCEPT !.pc = "complete", !.current = TRUE]
  /\ UNCHANGED <<enabled, job, art, worker, lines, rep, chat, lapses, req, clock>>

Complete ==
  /\ pump.pc = "complete"
  /\ job' = IF pump.current THEN [job EXCEPT !.state = "completed"] ELSE job
  /\ rep' = [rep EXCEPT !.terminal = TRUE]
  /\ Rest
  /\ UNCHANGED <<enabled, art, worker, lines, chat, lapses, req, clock>>

------------------------------------------------------------------------------
(* The end of the worker: worker_succeeded changes nothing; worker_failed   *)
(* is the worker's own line, or the pump's after a death without one.       *)

Succeeded ==
  /\ pump = Idle /\ worker = "offered"
  /\ worker' = "ended"
  /\ UNCHANGED <<enabled, lines, publishing, req, clock>>

FailIgnoredIncomplete == {"cancelled"}
FailIgnored == {"completed", "cancelled"}

Failed ==
  /\ pump = Idle /\ worker \in {"running", "offered"}
  /\ worker' = "ended"
  /\ IF job.state \in FailIgnored THEN UNCHANGED pump
     ELSE Take([NoLine EXCEPT !.kind = "failed"], "fail")
  /\ UNCHANGED <<enabled, job, art, lines, rep, chat, lapses, req, clock>>

\* The transition, whose conflict is not looked at, and mark_terminal.
Fail ==
  /\ pump.pc = "fail"
  /\ job' = IF pump.current THEN [job EXCEPT !.state = "failed"] ELSE job
  /\ rep' = [rep EXCEPT !.terminal = TRUE]
  /\ Goto("tell")
  /\ UNCHANGED <<enabled, art, worker, lines, chat, lapses, req, clock>>

TellFailed ==
  /\ pump.pc = "tell"
  /\ Tell("failed", chat.link) \/ (CallFails /\ UNCHANGED chat)
  /\ Rest
  /\ UNCHANGED <<enabled, job, art, worker, lines, rep, lapses, req, clock>>

\* Expiry, eviction or deletion by an administrator: the row, the file, the job.
Reclaim ==
  /\ art.status = "available"
  /\ art' = [art EXCEPT !.status = "gone"]
  /\ IF job.state \in {"completed", "failed"}
     THEN /\ job' = [job EXCEPT !.state = "reclaimed"]
          /\ pump' = [pump EXCEPT !.current = FALSE]
     ELSE UNCHANGED <<job, pump>>
  /\ UNCHANGED <<enabled, worker, lines, rep, chat, lapses, req, clock>>

------------------------------------------------------------------------------
(* DownloadService.handle, for the link the owner was told.                 *)

Links == {chat.link} \ {NoLink}

\* verify_request; signature and name are those of the link.  Whether the row is
\* available is looked at again when the lease is taken.
LinkValid(exp) ==
  /\ exp <= art.expires
  /\ exp - clock <= MaxTTL
  /\ clock < exp
  /\ clock < art.expires
  /\ art.status = "available"

Answer(r, status) == req' = [r EXCEPT !.pc = "answered", !.status = status]

\* GET or HEAD, which differ only in that the body is sent.
Ask(exp, range) ==
  LET r == [NoReq EXCEPT !.range = range] IN
  /\ req.pc \in {"idle", "answered"}
  /\ IF LinkValid(exp) THEN req' = [r EXCEPT !.pc = "lease"] ELSE Answer(r, 404)
  /\ UNCHANGED <<enabled, worker, lines, publishing, clock>>

Lease ==
  /\ req.pc = "lease"
  /\ IF art.status = "available" THEN req' = [req EXCEPT !.pc = "open"] ELSE Answer(req, 404)
  /\ UNCHANGED <<enabled, worker, lines, publishing, clock>>

\* parse_single_range (an unreadable number counts as a suffix of 0): the first and the
\* last byte, or what the error says.
Selected(from, upto) == [status |-> 206, from |-> from, upto |-> upto]
NoBytes(status)      == [status |-> status, from |-> 0, upto |-> Unknown]

\* Mutant: a suffix longer than the file.
SuffixUnbounded(r, size) == size - r.last
SuffixStart(r, size)     == IF r.last < size THEN size - r.last ELSE 0

Select(r, size) ==
  IF r.kind = "whole" THEN [Selected(0, size - 1) EXCEPT !.status = 200]
  ELSE IF r.kind = "unreadable" THEN NoBytes(404)    \* another unit, several ranges
  ELSE IF size = 0 THEN NoBytes(416)
  ELSE IF r.kind = "suffix"
       THEN IF r.last = 0 THEN NoBytes(404) ELSE Selected(SuffixStart(r, size), size - 1)
  ELSE IF r.first >= size THEN NoBytes(416)
  ELSE IF r.kind = "open" THEN Selected(r.first, size - 1)
  ELSE IF r.last < r.first THEN NoBytes(404)
  ELSE Selected(r.first, Lower(r.last, size - 1))

\* quote: three characters a byte, except in ASCII letters; then ".mp4".
EncodedLength(n) == 4 + n.chars * (IF n.width = 1 THEN 1 ELSE 3 * n.width)
NameFits(n) == EncodedLength(n) <= MaxEncoded

\* stat, the range, the headers; content_disposition may raise.
Open ==
  /\ req.pc = "open"
  /\ LET s == Select(req.range, art.size) IN
     IF art.status = "gone" \/ ~NameFits(art.name) THEN Answer(req, 404)
     ELSE Answer([req EXCEPT !.from = s.from, !.upto = s.upto], s.status)
  /\ UNCHANGED <<enabled, worker, lines, publishing, clock>>

Tick ==
  /\ clock < MaxTime
  /\ clock' = clock + 1
  /\ UNCHANGED <<enabled, worker, lines, publishing, req>>

------------------------------------------------------------------------------

Init ==
  /\ enabled \in Deployments
  /\ job = [state |-> "none", origin |-> "telegram", limit |-> 0, seq |-> 0]
  /\ art = [status |-> "none", size |-> 0, name |-> NoName, expires |-> 0]
  /\ worker = "none" /\ lines = 0
  /\ pump = Idle
  /\ rep = [terminal |-> FALSE, sent |-> Never, seq |-> -1, phase |-> "none"]
  /\ chat = [edit |-> NoEdit, told |-> <<>>, file |-> FALSE, link |-> NoLink,
             raised |-> FALSE]
  /\ lapses = {}
  /\ req = NoReq
  /\ clock = 0

SubmitStep == \/ \E p \in Platforms, given \in Limits : Submit(p, given)
              \/ Acknowledge \/ Refuse \/ Cancel
ProgressStep == \/ \E seq \in 1..MaxSequence, r \in Readings : ProgressLine(seq, r)
                \/ Snapshot \/ Edit \/ SkipEdit
DeliverStep == \/ Candidate \/ PublishFails
               \/ \E f \in Files : Publish(f)
               \/ Upload \/ UploadDeferred \/ UploadFails \/ PlanLink \/ Issue
               \/ Final \/ FinalFails \/ Reload \/ Complete
EndStep     == Succeeded \/ Failed \/ Fail \/ TellFailed
RequestStep == \/ \E exp \in Links, range \in Ranges : Ask(exp, range)
               \/ Lease \/ Open

Next == SubmitStep \/ ProgressStep \/ DeliverStep \/ EndStep \/ RequestStep \/ Reclaim \/ Tick

Spec == Init /\ [][Next]_vars

------------------------------------------------------------------------------
(* Properties.                                                              *)

\* A job is COMPLETED only after its owner got the file or a link to it, except in the two
\* ways the code knows: the platform deferred the upload (nothing is sent then), or Discord's
\* cache does not know the channel (send_final returns without a word).
CompletedWasDelivered ==
  job.state = "completed" => chat.file \/ Links # {} \/ lapses # {}

\* Edits of the progress message never go back to an older line, come at least Interval apart
\* unless the phase changed, and stop for good once an outcome was told, unless the call that
\* told it raised: then the reporter does not know, and goes on until the worker ends.
EditsGoForward ==
  [][chat'.edit # chat.edit =>
       /\ chat.told = <<>> \/ (chat.raised /\ chat.told = <<"completed">>)
       /\ chat'.edit.seq > chat.edit.seq
       /\ \/ chat'.edit.phase # chat.edit.phase
          \/ chat'.edit.at - chat.edit.at >= Interval]_vars

\* The owner hears of one outcome of the download at most, whatever was cancelled, refused or
\* killed in between.  Only of a failure may he hear as well, after the success: when the
\* artifact was reclaimed since, or the call that told him of the success raised, which leaves
\* the job DELIVERING, so that the death of its worker makes it FAILED.
OneOutcome ==
  Len(chat.told) > 1 => /\ chat.told = <<"completed", "failed">>
                        /\ art.status = "gone" \/ chat.raised

WellFormed(r) ==
  CASE r.kind = "unreadable"             -> FALSE
    [] r.kind = "suffix"                   -> r.last > 0
    [] r.kind = "span"                     -> r.first <= r.last
    [] OTHER                               -> TRUE

Denied == req.pc # "answered" /\ req'.pc = "answered" /\ req'.status = 404

\* A link works until it expires: a request with it is denied only when the link has
\* expired, the artifact was reclaimed, the Range header is malformed, or the link
\* is still valid for longer than the hard maximum.
LinkStopsWorking ==
  \/ \E exp \in Links : clock >= exp \/ exp - clock > MaxTTL
  \/ art.status = "gone"
  \/ ~WellFormed(req'.range)
EveryLinkIsServed == [][Denied => LinkStopsWorking]_vars

\* The same for the names content_disposition accepts.
ShortNamesAreServed == [][Denied => LinkStopsWorking \/ ~NameFits(art.name)]_vars

\* The bytes of 0..size-1 a Range header names.
Wanted(r, size) ==
  {b \in 0..(size - 1) :
     CASE r.kind = "whole"  -> TRUE
       [] r.kind = "suffix" -> b >= size - r.last
       [] r.kind = "open"   -> b >= r.first
       [] r.kind = "span"   -> b >= r.first /\ b <= r.last
       [] OTHER             -> FALSE}

\* What is sent, and announced in Content-Length and Content-Range, is exactly what the
\* request names of the file; 416 is the answer only when that is nothing.
ServedAsAsked ==
  req.pc = "answered" =>
    /\ req.status \in {200, 206} => req.from..req.upto = Wanted(req.range, art.size)
    /\ req.status = 416 => Wanted(req.range, art.size) = {}

\* No submission is refused while the platforms do what they are asked to.
EveryPlatformIsServed == job.state # "refused"
==============================================================================
