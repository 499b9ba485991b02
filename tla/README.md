# ytdlp-bot: TLA+ models, checks and proofs

This directory holds TLA+ modules that model ytdlp-bot (a Telegram and Discord
bot that downloads media on request), the TLC configurations that check them
and the proofs TLAPS checks about them. Paths below are relative to
`src/ytdlp_bot/` of the repository unless they start with `docs/`.

## The system

One asyncio process, guarded by a file lock, holds everything: the two platform
adapters, the dispatcher, the event pumps of the workers, the HTTP download
server and the cleanup loop. They share one SQLite connection (aiosqlite), an
artifact directory and a few objects in memory (leases, capacity accounting).
Each download runs in a child process that writes one JSON event per line.

| Component | State it keeps | Operations |
|---|---|---|
| Job row (`adapters/persistence/sqlite/repositories.py`) | state, version, dispatchable, cancellation flag, started_at, message reference | create, claim_next, transition, request_cancellation, attach_message_reference, update_progress_snapshot |
| Source URLs (`job_payloads`) | one URL per job | put, get, delete |
| Submission and cancellation (`application/job_service.py`, `admin_service.py`) | the command's own snapshot of the row | submit_download, cancel, AdminCancel |
| Dispatcher and launch (`application/dispatcher.py`, `bootstrap.py`) | semaphore, the job being launched | run_forever, run_once, launch |
| Worker, supervisor, orchestrator (`adapters/media/worker_*.py`, `application/orchestrator.py`) | the process, its pipe, the pump | start, _pump, handle_event |
| Publication and delivery (`application/capacity_publish.py`, `delivery.py`) | artifact file and row | publish_candidate, deliver |
| Reclaiming (`application/cleanup.py`, `capacity_eviction.py`, AdminArtifactDelete) | artifact access state, deletion reason, retry backoff | expire_due_artifacts, retry_pending_deletions, ensure_capacity, admin deletion |
| Access (`application/artifact_access.py`, `adapters/http/downloads.py`) | leases, invalidated ids, stream slots | try_begin_stream, end_stream, handle |
| Capacity (`adapters/storage/capacity.py`) | reservations, artifact bytes | reserve, grow, release, add_artifact_bytes |
| Delivery (`application/delivery.py`, `progress_reporter.py`, `adapters/platform/`) | last edit, whether an outcome was told, the link | deliver, on_progress, acknowledge_job, edit_progress, upload_artifact, send_final |
| Signed links (`adapters/security/signed_tokens.py`, `adapters/http/`) | keys | issue, verify_request, parse_single_range, content_disposition |
| Administration (`application/admin_service.py`, `authorization.py`, `adapters/persistence/sqlite/repositories.py`) | settings, whitelist, denials, pending confirmations | require_user_access, set, add, remove, create, confirm |
| Commands (`domain/commands.py`, `application/command_service.py`, `adapters/platform/discord.py`) | none | parse_text_command, build_command_arguments, dispatch |
| URL safety (`application/url_safety.py`, `adapters/network/`) | none | validate, preflight, resolve |
| Media (`adapters/media/ytdlp_engine.py`, `format_policy.py`, `ffmpeg_engine.py`) | the cookie file (read), the worker's directory | run_ytdlp_download, _extract_info, probe_media |
| Login tool (`tools/youtube_login.py`) | the cookie file, a temporary file, a browser | run_login, atomic_write_cookie_file |
| Start-up (`main.py`, `bootstrap.py`, `adapters/persistence/sqlite/migrate.py`, `config.py`) | lock file, schema version, connection | load_static_config, acquire, apply_migrations, shutdown_runtime |
| Playlists, ZIP archives (`application/playlist.py`, `adapters/media/archive.py`) | none in use | PlaylistOrchestrator and write_playlist_zip, without a caller |

How they interact: a command inserts a job row, stores the URL, asks the
platform to acknowledge and makes the row dispatchable. The dispatcher claims
the oldest dispatchable row and launches a worker. The worker's events reach
`Orchestrator.handle_event`, which moves the row, publishes the artifact
(file, artifact row, deletion of the URL, transition) and delivers it. Expiry,
eviction and administrators delete artifacts and move the row on. All of them
write the row through the same compare-and-set on `version`; **none of them asks
the transition table of `domain/state_machine.py`**, which only tests call.

### What is hard here

* Every `await` is a point where another coroutine may run. Reads and writes
  of a row are separate awaits, so each writer acts on a snapshot.
* Several commits make up one operation (payload, artifact, row), and the
  process can die between any two of them.
* Cancellation touches only the row: the worker is not told
  (`ProcessWorkerSupervisor.request_cancel` has no caller), so a cancelled job's
  events go on arriving.
* Exceptions in an event handler are swallowed by the pump; exceptions in
  `launch` end the dispatcher.
* Nothing is reconciled after a crash.
* Commands of administrators consist of several statements and commits on one
  connection: a commit of one call makes durable what another has half done.
* Delivery is several calls of a platform that refuses, defers, forgets, or raises after
  the message has arrived, while
  the clock runs, the owner cancels and the artifact may be reclaimed.
* The process is killed and told to stop at any step of its start and its shutdown,
  and its successor may be another release. Its platform tasks end unwatched, and one of
  them takes the signals over.

### What makes each component correct

* Job row: one forward path per job, an outcome that stays, no row that
  announces what does not exist, no URL kept longer than needed, every job
  settles or is lost in a way that is known.
* Dispatcher: no job launched twice or after its cancellation, no starvation.
* Reclaiming and access: a streamed artifact is not deleted under
  its reader, a row and its file agree, one deletion per artifact.
* Capacity: what is promised to running jobs is there.
* Administration: a confirmation is used once, nothing else changes the capacity,
  nobody is admitted who was never allowed.
* Delivery: COMPLETED means that something arrived, one outcome is told, a link works
  for as long as it says, and what is sent is what was asked for.
* Commands and download: a command is read as meant, only checked hosts are asked, the
  operator's session is used only after a refusal that reads as a demand for a sign-in,
  one end of a worker is reported.
* Start-up: one process owns the database, serves a whole schema, launches no job that
  another has launched, ends once its shutdown has begun, and leaves no job whose worker
  it killed without an outcome.

## Modules

| Module | What it is |
|---|---|
| `JobStates` | the sets of job states and the table of allowed transitions (`domain/enums.py`, `domain/state_machine.py`) |
| `OncePerJob` | abstract specification: what the bot promises about one accepted download |
| `JobLifecycle` | the job row, the URL, the artifact as the row sees it, and every coroutine that writes them |
| `DeletedOnce` | abstract specification: what the bot promises about the deletion of an artifact |
| `ArtifactStore` | artifact file and row, everyone who deletes them, leases and HTTP streams |
| `Capacity` | the storage account, the dispatcher's semaphore, and the jobs, publications and evictions that use them |
| `Administration` | settings, whitelist, refused users and confirmations, one SQL statement per step, with access checks |
| `Startup` | configuration, instance lock, migrations, serving, signal and shutdown of several processes |
| `Delivery` | what the owner of one job gets to see: acknowledgement, edits, file or link, final message, answers to requests |
| `Commands` | how a command is read on either platform, and where `CommandService` sends it |
| `Download` | one command from its words to the file: URL check, attempts of the worker, its pump, the login tool |
| `MC*` | the instances of these modules for TLC |
| `JobLifecycleProofs`, `ArtifactStoreProofs`, `CapacityProofs`, `AdministrationProofs`, `StartupProofs`, `DeliveryProofs`, `CommandsProofs`, `DownloadProofs` | inductive invariants, lemmas and theorems of the module they are named for (`CommandsProofs` is about the readers of `Commands` as `Download` uses them; `DownloadProofs` builds on it) |

How they divide the system:

* `JobLifecycle` and `ArtifactStore` meet in the artifact: the first sees its
  states none, file, available, deleted as they matter to the job row
  (`ReclaimArtifact` stands for a whole deletion), the second has the steps in
  between and no job row.
* `Capacity` has sizes and several jobs, and of the row and the deletion only what moves
  bytes.
* `Delivery` has the calls of the platform behind the step `Deliver` of `JobLifecycle`,
  and leaves out the dispatcher, the payload and the room for the file.
* `Download` is what happens inside the worker process, of which `JobLifecycle` and
  `Delivery` see the lines, and before the job exists, of which they see the submission.
* `Startup` has the rows only as absent, queued, active and ended; `Restart` of
  `JobLifecycle` is a crash followed by the next start.

### JobLifecycle

State, with the code it stands for:

* `state`, `version`, `dispatchable`, `cancelReq`, `started`: columns of `jobs`;
  `older` is the order of `created_at`.
* `payload`: jobs with a row in `job_payloads`. `artifact[j]`: `none`, `file`
  (moved, not recorded), `available`, `deleted`.
* `submit[j]`: how far `submit_download` got. `call[c]`: a cancel command in
  flight with the version it read. `disp`: the dispatcher's claim and launch.
  `worker[j]`: the last event the pump took. `pump[j]`: the step of
  `handle_event`. `reclaim[j]`: the end of an expiry or eviction.

A step is what a coroutine does up to the commit or read it awaits; a reader
keeps the version it saw, and `Transition` compares it. Two reads with nothing but local
work between them and the write that follows are one step (the entry of
`handle_event` and its branch), because nothing can run in between.

Data that no property distinguishes is left out: who owns the job, error codes,
progress, messages, sizes. `Faults` lists what may go wrong: the platform
refuses the acknowledgement (`ack`), capacity is denied (`capacity`), a file
operation or the spawn fails (`disk`), sending fails (`platform`), the worker
fails or is killed (`worker`). `Restart` kills all coroutines at any point;
`MaxRestarts` bounds how often. Versions grow without a stated bound, but only finitely
often per job, so TLC needs none.

`worker_cancelled`, `progress_changed`, the archiving and finalizing phases and
COMPLETED_WITH_ERRORS are handled by the orchestrator but never produced by
`worker_entrypoint`; the model has only what a worker can emit.

The read that follows `request_cancellation`'s commit is a step of its own
(`CancelReload`). The one thing it allows beyond the version check is that an
administrator's command writes CANCELLED over an outcome reached in that gap;
aiosqlite serves statements in order, so the gap is a single statement wide and
this needs a scheduling that the present driver hardly produces. The property
`OnlyAdminOverwritesOutcome` shows it is the only such exception.

### ArtifactStore

* `file`: storage keys present in the artifact directory. `access`, `version`,
  `reason`, `expired`: columns of `artifacts` (`expired` is `expires_at <= now`).
* `publish[a]`: how far publication and delivery of the artifact got.
* `batch[d]`, `del[d]`: what a deleter listed (row and version) and the step of
  the deletion it is in. Deleters are the cleanup loop, calls of
  `ensure_capacity`, and administrators' operations.
* `leases`, `invalidated`: the lease registry. `slots`: the semaphore of
  `DownloadService`. `req[r]`: an HTTP request.

Actions follow the awaits: `Pick` tests the leases of a listed artifact, `Mark`,
`Invalidate`, `Unlink` and `Finish` delete it; a request reads the row twice (`ReadRow`,
`BeginStream`), asks for a lease, looks at the file, waits for a slot and opens the
file. Left out: byte counts (the evictor may find enough space whenever it looks), which
candidate comes first, the token itself, `token_version` (it moves only with `access`,
which is tested in the same place), the list limits. `Faults`: the row cannot be
inserted, the file cannot be removed, a client leaves before its first byte.
`retry_pending_deletions` is not an action: the program never calls it.

### Capacity

* `reserved`, `artifactBytes`: `CapacityManager._reservations` and
  `_artifact_bytes`; `Available` is `snapshot().available_bytes`.
* `stage[j]`: how far launch, worker and `publish_candidate` of a job got;
  `size[j]`: of its candidate. `publishing`: who holds `PublishService._lock`.
* `dispatch`, `slots`: the dispatcher's coroutine with the job it launches, and
  its semaphore. `evicting[e]`: the artifact that an `ensure_capacity` of the
  launch or of the publication has unlinked and not yet finished.
* `file`, `access`: what is on disk and what the artifact rows say.

`CapacityManager` takes a lock but awaits nothing that suspends, so
`reserve` and `grow` are one step. Deletions by the cleanup loop and by
administrators are one step (`DeleteElsewhere`): they do not touch the account.
Which artifact an evictor takes and when it has enough is left open.
`Faults`: disk (full or failing), database, an exception in launch, a worker without a
candidate. `CapacityAssumption` excludes a growth chunk of 0 bytes, which the
configuration accepts and with which `grow` never returns.

### Administration

* `db`: the tables as the one connection sees them; `disk`: as last committed.
* `call[c]`: the next statement of a coroutine, its request, and what it has read. A
  confirmation is named for the call that created it.
* `witness`: calls whose user was allowed at some moment since they began (history).

Each statement and each commit is an await of the shared connection, so each is a step. A
call that raises (`Fail`) leaves its statements to the next commit of any call, since
nothing rolls back; `Crash` loses what is not committed. `Next` has one action per
statement: the two reads of `require_user_access`, the purge and upsert of the refused
users, the upsert and the revision of a setting, the whitelist's insert and delete with
their second statement, and the create, select, compare and take of a confirmation.
Settings other than capacity and access mode cannot be told apart from each other, and the
configuration's `initial_whitelist` is never stored. Some commands lead nowhere in the
code: "link expiry set" has no branch and is refused (Discord offers no such choice); the
stored capacity, retention and link expiry are never read by the running services, which
keep what the configuration said. `purge_expired`, `reset_override`, `compare_and_set`
and `SqliteCapacityRepository` have no callers.

### Startup

* `pc[i]`, `conf[i]`, `script[i]`: where process i is in `main`, `bootstrap`, `serve`
  and `shutdown_runtime`, its configuration with its release, the migration statement it
  is at.
* `ready`, `admission`, `polling`, `handler`: readiness, the admission flag, platforms
  being polled, and whose handler takes the signals.
* `accepted`, `launching`, `kill`, `awaited`: jobs accepted and not stored yet, the job
  being launched, and what shutdown still has to kill and to wait for.
* `lock`, `conns`, `schema`, `recorded`, `row`, `worker`: what the processes share.

`Valid` is `load_static_config`: a file is a record of tables, and every section's check
(kinds, bounds, units, unknown keys, references to secrets, separated paths,
administrators on enabled platforms) is an operator. Scripts are numbers of statements:
`executescript` commits each one by itself, so a crash leaves a script in the middle,
and the next start runs it from the beginning, which fails on what is there already:
such a database makes every later start fail. Left out: the order of the checks inside a
section (all of them raise the same exception), the health endpoints beyond readiness,
uploads and streams at shutdown.

The platform tasks of `bootstrap` are never watched. `PlatformEnds` is one that raises (a
bad token, a login that fails): the process goes on serving without it. `main` installs
its signal handler first; `dp.start_polling` of aiogram, called with its default
`handle_signals=True`, then installs its own in its place (`TakeSignals`), which only
stops the polling (`SignalStopsPolling`) and is not taken back. So with Telegram enabled a
signal ends the process only in the moment before the polling starts; after that shutdown
begins only when the site fails. On a configuration without Telegram `main`'s handler
stays.

Two idealisations: a start that failed gives up lock and connection in one step, and the
end of a worker is always stored while the database is open (`_pump` swallows an error of
the database, after which the row stays as it is).

What the model shows of the code and no text denies: the dispatcher goes on claiming
during shutdown, so a worker may be launched after the list of workers was made, and
shutdown then waits for it (`StopEnds` assumes that workers end) or leaves it behind; a
worker killed before its pump was started is unreported; a growth of 0 bytes and a
capacity smaller than the reservation are accepted; the configuration file may lie
inside the artifact directory; numbers for retention and link expiry have no upper
bound, and the `http`, `network`, `media`, `access` and `logging` tables admit unknown
keys.

### Delivery

* `job`, `art`, `worker`, `lines`: the row with the number of the last progress line, the
  artifact, the worker and how many lines it wrote.
* `pump`: where `handle_event` is, with what it read when it began: start time, line,
  link, and whether its row's version is still current.
* `rep`: `ProgressReporter`'s memory of the job. `chat`: what the owner saw. `lapses`: why
  a delivery may have been silent.
* `req`: an HTTP request with the link, or with one that was never issued, and the answer.

Actions follow the awaits of `deliver`, `on_progress` and `handle` of the download
server. The adapters differ in what they raise, swallow and refuse, and so do the
actions: an upload may be deferred (a transient refusal is a result, after which the job
is COMPLETED and nothing is sent), may fail (then a link follows), Discord's
`send_final` says nothing when the channel is not cached. Uploads and final messages may
also raise after they arrived (the reply times out): `chat.raised` remembers that of the
final message, after which the job stays DELIVERING, so later lines are edited after the
outcome and a worker that is killed makes the owner hear "failed" as well. A failed message
that raises is not sent again, whether it arrived or not. The exceptions of edits never
reach the reporter, so its `Retry-After` branch cannot be reached. The worker of this
commit writes no progress lines although README.md:3 says "reports progress"; pump,
orchestrator and reporter take them all the same, and the model gives them any number
and phase. A token stands for its artifact and expiry (its HMAC is taken to be sound). A
range is its kind with its numbers; a title is a number of characters of one width.

### Commands and Download

`Commands` reads a command as `parse_text_command` does (Telegram) and as
`build_command_arguments` with `_parse_admin_action` does (Discord), and gives the
answer of `CommandService`. Words are strings, and sets say which of them are ids,
durations and so on. `Download`:

* `command`: what was meant, how it was read, the answer. `check`: the hops of
  `UrlSafetyService.validate`, with the trail of names looked up and sites asked.
* `source`: what the URL leads to, entries with those they open to, what the error says,
  and formats with the bitrate of sound that is MP3 already. `worker`, `attempts`: the process and its attempts without and with
  cookies.
* `pipe`, `pump`, `heard`: the lines, their reader, and what the orchestrator is told.
* `file`, `login`: the cookie file (its generation) and the login tool.

yt-dlp, ffprobe, DNS and sites are the environment: they answer anything `Sources`
admits. `Mishaps` are errors any entry may meet (network, proxy); `Classify` searches the
whole text of an error, so "407 Proxy Authentication Required" or a URL with "login" in it
reads as a demand for a sign-in. In `ytmp3` yt-dlp's FFmpegExtractAudio copies sound that
is MP3 already and ignores the bitrate (`Extracted`). Assumptions on them: an entry that failed leaves no media file, and Ctrl-C
reaches the login tool only where it waits; a SIGKILL of the tool, after which nothing
cleans up, is left out. What the model follows although a reader may
not expect it: of a playlist only the newest file is published (`PlaylistOrchestrator`
and `write_playlist_zip` have no caller, although README.md:3 promises ZIP archives);
`probe_media` takes every file of the MP4 family, M4A included, for video, so
AUDIO_ONLY_SOURCE is missed there; heights that are not known pass the quality; words
after an administrator's first value are ignored on Discord, and a malformed action
becomes "status"; `renew` is read and ignored; a DNS error inside `validate`
(`RaiseUnresolved`) and an unreadable command on Telegram leave the command without an
answer.

## What is checked

| Run | Question | Instance |
|---|---|---|
| `jobs_safety` | types, safety, refinement of `OncePerJob`, every job settles | 1 job, 1 owner and 1 administrator cancelling, all faults, 1 crash (73 764 states) |
| `jobs_queue` | no starvation by the single dispatcher | 2 jobs, refused acknowledgements, dying workers (5 693) |
| `jobs_restart` | counterexample: interrupted jobs are not reconciled | 1 job, 1 crash |
| `artifacts_safety` | types, safety, refinement of `DeletedOnce`, waiting streams start | 1 artifact, 3 deleters, 2 requests, 1 slot, all faults, 1 crash (253 590) |
| `capacity_account` | types, the account, turns of publications | 3 jobs, room for 4 bytes, sizes 2 and 3, chunks of 2, 2 slots, all faults, 1 crash (98 176) |
| `capacity_workers` | counterexample: more workers than the limit | 2 jobs, a limit of 1 |
| `administration` | confirmations, capacity, admission | 3 calls of 1 administrator and 1 user, 2 capacities, 2 modes, any statement failing, 1 crash (262 922, up to symmetry) |
| `startup` | lock, schema, launches, shutdown | 2 processes, 2 starts, 2 releases, 21 configuration files, 2 jobs, any step failing, 1 crash (550 554) |
| `delivery` | outcomes, edits, link, ranges | 1 job on either platform, 3 files, 7 ranges, 2 progress lines, every refusal, before or after the message arrived (5 829 124) |
| `names_served` | counterexample: links to long names are denied | the same without failures and lines |
| `both_platforms` | counterexample: a process with both platforms fails jobs of one | the same, both enabled |
| `download` | commands, hops, cookies, the end of a worker, the file | 22 intents on 2 platforms, 3 URLs, 1 redirect, 8 sources, a proxy that refuses, 2 login runs, a kill anywhere (738 760) |

All bounds are in the `.cfg` files. Why they are enough:

* One job for `jobs_safety`: apart from the dispatcher, which `jobs_queue` checks with
  two, no step mentions two jobs.
* One artifact: a deleter handles the rows of its list one after the other and
  no step relates two of them; what they share is the stream slots, which two
  requests contend for just as well on one artifact.
* `Capacity` needs three jobs: one that launches, one that publishes and one whose
  artifact both may evict; with room for two small artifacts or a large one, growth is
  granted, denied, and granted after an eviction.
* Three calls in `Administration`: one that asks for a confirmation and two that present
  it, or two that change mode and whitelist around a check. One crash, because a second
  finds what the first one left.
* Two processes in `Startup` contend for the lock and follow each other; two scripts of
  two and one statements give a script that is half done; each mistaken file has one
  mistake, so every check of `Valid` is the reason of a refusal once.
* `Delivery` counts moments and bytes small: an interval of two in three moments is both
  kept and run out, the lifetime of a link is cut at the artifact's expiry, at first above
  the hard maximum and later below it, and a file of three bytes has ranges that begin, end
  and lie outside it. The lengths of names are the code's own.
* `Download`: one redirect is both allowed and one too many; the sources have entries that
  are open, for members, gone, a page to log in, without pictures, in MP3 already, too high,
  and none at all.

Properties of `JobLifecycle`:

* `FinishedJobHasNoUrl`: no URL is left once the row says the download is over.
* `OutcomeMatchesArtifact`: DELIVERING and COMPLETED only with a recorded
  artifact, EXPIRED and EVICTED only after its deletion.
* `FollowsDesignTable`: without cancellation and reclaiming, the unchecked
  writes follow the table nobody consults.
* `OnlyAdminOverwritesOutcome`: COMPLETED and FAILED give way only to expiry, or to an
  administrator's cancellation that had begun.
* `QueuedCancelIsFinal`: a job cancelled before its claim stays cancelled, even
  while its own command is still waiting for the platform.
* `KeepsPromise`: refinement of `OncePerJob`.
* `EverySubmittedJobSettles`: liveness. Every job gets an outcome and keeps one, unless
  it is lost in one of the ways `Lost` names: interrupted by a crash, left by a
  dispatcher that died, or stuck in POST_PROCESSING or DELIVERING because the pump
  swallowed an exception of publishing or delivering. These ways are real; the property
  says there is no other.

Properties of `ArtifactStore`:

* `RowMatchesFile`: an AVAILABLE row has its file, a DELETED row has none.
* `TakenUntilReturned`: leases and slots are held exactly by the requests that
  are at a step which holds them, on every path through `handle` and the body generator.
* `EvictedLeasesEnd`: after the eviction of the file no lease is granted.
* `DeletesOnce`: refinement of `DeletedOnce`: one deleter per artifact, to the end.
* `WaitingStreamsStart`: liveness of the stream slots, unless clients that left before
  the body began have taken them all (such a slot is not given back).

Properties of `Capacity`:

* `FilesArePaidFor`: until a crash, a file that is not in the artifact bytes is covered by
  its job's reservation, also when its publication failed.
* `PromisedSpaceExists`: until a crash, the files on disk and what running jobs
  still may write fit into the capacity less its headroom.
* `CandidatesAreHandled`: liveness of the publication lock.

Properties of `Administration`:

* `AppliedOnce`: a confirmation changes the capacity once at most, in the tables and on
  disk.
* `CapacityWasConfirmed`: a capacity that is set was confirmed as that capacity.
* `OnlyConfirmedChanges`: what is committed of confirmations is never taken back, and the
  committed capacity changes only together with one.
* `AdmittedWasAllowed`: an admitted user was allowed at some moment of the check.

Properties of `Startup`:

* `DatabaseIsLocked`: whoever has the database open holds the lock.
* `ServedSchemaIsWhole`: recorded scripts ran to their end; a process serves only on the
  whole schema of its release.
* `LaunchedOnce`: no job is launched by two processes or twice by one; in particular not
  beside the worker that a process which died has left running.
* `KilledWorkersAreReported`: after shutdown, jobs whose worker it killed have an outcome.
* `StopEnds`: liveness of shutdown, from the signal `main`'s own handler takes or the
  failure of the site on.

Properties of `Delivery`:

* `CompletedWasDelivered`: COMPLETED means a file or a link arrived, but for two named
  lapses.
* `OneOutcome`: one outcome is told. A second can only be "failed" after "completed", when
  the artifact was reclaimed in between or the call that told "completed" raised.
* `EditsGoForward`: edits never show an older line (nothing is said of the percentage,
  which a phase may start over), keep their interval, and stop with an outcome whose call
  did not raise.
* `ShortNamesAreServed`: a link is denied only for one of five reasons (expired,
  reclaimed, malformed range, lifetime above the hard maximum of seven days, a name
  `content_disposition` refuses).
* `ServedAsAsked`: the bytes sent are those the range names.

Properties of `Download`:

* `UnderstoodAsMeant`: a command is read as it was meant or refused, on Discord perhaps
  as a status request.
* `HopsAreChecked`: before each request its site's name was found public; a job's URL
  once more after it.
* `SessionIsSpared`: the operator's cookies are used once per job at most, after one
  attempt without them whose error reads as a demand for a sign-in.
* `CookieFileIsOperators`: the cookie file is whole and the operator's, and the tool
  leaves nothing behind.
* `OneEnding`: one end of a worker is told, success only after a candidate.
* `FileIsAsAsked`: the file is what was asked for; an MP3 has another bitrate only when the
  source has MP3 of that bitrate.

### Fairness

`JobLifecycle` assumes weak fairness of each coroutine that has begun (a submission, a
cancel command, the dispatcher, a pump with its worker, a reclaiming): the event loop
runs every ready coroutine, and the worker, the platform and the database are assumed to
answer or fail. Nobody is assumed to submit, cancel, reclaim or crash. The code has no
time limit on a worker (the stall and heartbeat settings are unused), so a worker that
hangs is a real way to violate liveness that the assumption excludes; so is one that
fills its stderr, which nobody reads before stdout ends.

`ArtifactStore` assumes weak fairness of each request and each deleter under
way, and strong fairness of taking a slot, because `asyncio.Semaphore` serves its
waiters in order. A client is assumed to read on or to go away.

`Capacity` assumes weak fairness of the launch, of a publication and of an eviction
under way, and strong fairness of taking the publication lock (`asyncio.Lock` serves its
waiters in order). Workers need not end, and the dispatcher may die.

`Startup` assumes weak fairness of shutdown, of the pumps and of the end of each worker,
for the reason above. `Administration`, `Delivery` and `Download` state safety only.

### Disagreements between the repository and its code

* `docs/en/README.md:153` and `application/cleanup.py:159` speak of restart
  reconciliation; nothing calls it (`jobs_restart`).
* `domain/settings.py:89` calls `worker_concurrency` the maximum of concurrent workers;
  the dispatcher gives the slot back once a worker is spawned (`capacity_workers`).
* `README.md:3` promises reusable signed URLs; a link to a file whose name is longer
  than 500 characters when encoded (56 Chinese characters are) is denied from its first
  request on, because `content_disposition` raises (`names_served`).
* `docs/en/README.md:153` has commands submitted on both platforms of one
  release; `bootstrap` gives all jobs Telegram's adapter when both are enabled, and
  a Discord job fails at its acknowledgement (`both_platforms`).

Further disagreements, which have no run of their own because the model shows them in
passing:

* `domain/enums.py:236` calls CANCELLED terminal; a worker that is still running takes
  such a job to DELIVERING and COMPLETED, `worker_failed` turns EXPIRED and EVICTED into
  FAILED.
* `domain/jobs.py:256` keeps the URL "while required"; an administrator's
  cancellation keeps it for ever.
* `tests/integration/test_cln_crash_points.py:31` has recovery finish an interrupted
  deletion; nothing in the program calls the function the test calls.
* `main.py:80` handles SIGINT and SIGTERM by closing admission and shutting down; aiogram's
  polling takes both signals over (`telegram.py:223`), so with Telegram enabled a
  signal only stops the polling and the process goes on until it is killed.
* `docs/en/README.md:65` has the operator's session used only when yt-dlp explicitly
  classifies the source as requiring authentication; a 407 of a proxy, or a URL that
  contains "login", uses it for a public source as well (`ytdlp_engine.py:236`).
* `docs/en/README.md:34` says eviction skips platform upload leases; no upload takes one.

Weaknesses that contradict no text: jobs that fail keep their reservation until the
process ends, and after a restart the account starts at zero whatever is on disk
(`set_artifact_bytes` has no caller), which is why `PromisedSpaceExists` is stated until
the first crash; a crash between the move of a file and its row leaves a file no row
names, and a row whose `create_available` failed may be committed by the next commit of
another call; an exception of `send_final` after an upload leaves the job in DELIVERING,
and its owner, if the message arrived, may hear "failed" after "completed"; a platform
whose polling ended is noticed by nobody; an MP3 is copied whatever bitrate was asked for;
the idempotency key of a command is stored and never looked up; the expiry of a link is
counted from the start of the event, not from its issue.

## What is proved

Each theorem holds for every value of the constants its module's named assumption admits
(`ConstantsAssumption`, `StoreAssumption`, `CapacityAssumption`,
`AdministrationAssumption`, `StartupAssumption`, `DeliveryAssumption`,
`DownloadAssumption`, `SourcesAssumption`, `IdsAssumption`, `IntentsAssumption`): any
number of jobs, callers, processes, crashes, times and sizes. The runs evaluate the
assumptions. The last two are about words: an id is not empty and none of the keywords a
status command has (`validate_opaque_id` wants 22 characters at least), and what a user
means is something the help describes.

`JobLifecycleProofs` proves, for any set of jobs, any number of callers, any
faults and any number of crashes (assumption `ConstantsAssumption`):

* `TypeCorrect`: `TypeOK`, conjunct by conjunct of `Next`.
* `Invariance`: the inductive invariant `IInv`.
* `NoUrlLeft`: `FinishedJobHasNoUrl`.
* `OutcomeIsTrue`: `OutcomeMatchesArtifact`.
* `CancelledBeforeClaim`: `QueuedCancelIsFinal`.
* `Refinement`: `KeepsPromise`, that is, `JobLifecycle` implements `OncePerJob`.

None of the properties is inductive, because a row does not say which
coroutines still hold a version of it. `IInv` adds what relates the two:

* `RowOrder`: submitted, dispatchable, started, with a worker, with an artifact
  come in this order, so a row that has one of them has the earlier ones. This is
  what the refinement's stages are read from.
* `FirstVersion`: version 1 is the inserted row, so the compare-and-sets of the
  submitting command, which expect 1, fail after any cancellation.
* `SubmitInv`: a submission that is still under way has a row that is QUEUED,
  CANCELLING or CANCELLED; in particular the URL it stores belongs to a job
  that is not over.
* `CancelInv`: the cancellation flag precedes CANCELLING and CANCELLED.
* `DispatchInv`: the job in the dispatcher's hands is started and has no worker.
* `PumpInv`: what the event handler has still to do agrees with the artifact
  and the URL (no URL once the transition to DELIVERING is due).
* `ReclaimInv`: EXPIRED or EVICTED is only written after the deletion of the artifact.

One lemma per kind of coroutine (`SubmitPreserves` to `RestartPreserves`) shows
that its steps preserve `IInv`. For the refinement, `StageDepends` reduces a
job's stage to five facts; only six steps change one of them
(`StageAdvances`), and all others stutter (`StageStutters`).

Its second part is about what the row's writers make of each other's states:

* `OutcomesRest`: `OnlyAdminOverwritesOutcome`.
* `TableIsFollowed`: `FollowsDesignTable`.

`IInv` does not say over which state a compare-and-set writes, only that it may. `WInv`
adds it per writer (`WritersKnow` proves both): after COMPLETED or FAILED the pump has
nothing to do and no event that would (`OutcomeRests`, `HandledIsLast`); a job being
launched has not failed (`LaunchOpen`); while the version an owner's command or a
reclaiming read is still the row's, the row is in a state that command accepts
(`OwnerKnows`, `ReclaimKnows`; there is no such conjunct for administrators, whose
command goes on whatever it finds, and that is the exception in the property); and
without a cancellation the state is that of the worker's last event or the one before,
whose write is due with a current version (`StepsAgree`).

`ArtifactStoreProofs` proves, for any artifacts, deleters, requests, slots, faults and
crashes (assumption `StoreAssumption`; only the set of requests has to be finite):

* `TypeCorrect`: `TypeOK`.
* `Invariance`: the inductive invariant `IInv`.
* `RowsAreTrue`: `RowMatchesFile`.
* `NothingIsKept`: `TakenUntilReturned`.
* `NoLeaseAfterEviction`: `EvictedLeasesEnd`.
* `Refinement`: `DeletesOnce`, that is, `ArtifactStore` implements `DeletedOnce`.

`RowMatchesFile` is not inductive, because between the unlink and its
`finish_deletion` the truth lies with the deleter. `IInv` adds:

* `PublishInv`: the file precedes the row, so recording it makes a true row.
* `FoundInv`: whoever wants to delete an artifact found a row, so a publisher
  that takes its file back, having no row, is alone.
* `OwnerInv`: a deleter past `Mark` is the only one on its artifact, and the row
  is pending at the version its `Mark` gave it. So the compare-and-set of its
  `finish_deletion` succeeds, and it is the owner that `DeletedOnce` speaks of.

`EvictInv` is the second invariant, for `NoLeaseAfterEviction`: the reason in
the row is that of its deleter, an evictor that may unlink has invalidated the
artifact, and no request is about to ask for a lease on an evicted artifact that
is not invalidated. The last part carries the property over a crash, which
empties the registry and the requests together.

`CapacityProofs` proves, for any jobs, sizes, limits, faults and crashes
(assumption `CapacityAssumption`):

* `TypeCorrect`: `TypeOK`, in particular that the semaphore is released at most
  once too often.
* `FilesPaid`: `FilesArePaidFor`.
* `GrowSuffices`: `grow` reserves what is required and less than a chunk more.
* `Invariance`: the inductive invariant. It adds to them that the semaphore is down
  exactly while a job is launched (`SlotsAgree`), that this job is still being launched
  (`LaunchAgrees`), and that only a published job has a file (`FilesArePublished`), so
  that a reservation made or enlarged later never concerns a file that is there already.

* `AccountInvariance`: the second inductive invariant, `AccountInv`.
* `PromisesKept`: `PromisedSpaceExists`.

`PromisedSpaceExists` compares sums over the jobs, and the account does not keep them
exactly: an evictor takes an artifact's size off the artifact bytes even if the publisher
has not added it yet. `Charge` is what each job's artifact weighs in the artifact bytes
at that moment, which may be negative. `AccountInv` says that the artifact bytes are at
least the sum of the charges (`ChargesCovered`); that artifact bytes and all reservations
fit (`AccountFits`), which is what `reserve` and `grow` test before they grant; that a
file that is moved and not accounted is within its job's reservation, even once it is
evicted (`ReservationsCover`); and that an artifact has one evictor and only a recorded
one is deleted (`DeletionsAgree`). Each file on disk is then paid for by its charge or by
its reservation, and the reservations of the jobs that still write are the rest.

How a sum changes with one job is an induction over the set of jobs. The induction
theorems of the library cannot be used (they take an operator), so `FiniteInduction`
states the same for a set of subsets in place of a predicate. From it follow that a sum
exists (`SumExists`) and is the only one (`SumUnique`), in whatever order the terms are
taken, and how it changes with one term, compares term by term and splits (`SumChange`,
`SumOrder`, `SumParts`).

`AdministrationProofs` proves

* `Types`: `TypeOK`, with `PcAgrees`: a call is only at statements of its own command.
* `ConfirmationsAreAppliedOnce`, `CapacityIsConfirmed`, `OnlyConfirmationsChangeCapacity`:
  `AppliedOnce`, `CapacityWasConfirmed`, `OnlyConfirmedChanges`.
* `AdmissionIsJustified`: `AdmittedWasAllowed`.

The invariant `CInv` is about two copies of the tables. Between the statement that takes
a confirmation and the one that writes the capacity, exactly one call holds it
(`HeldOnce`); what it compared is still so when it writes (`ComparedStaysEqual`), since
a confirmation's value and owner never change (`RowsAreOld`); and the disk is behind the
connection, never beside it (`DiskIsBehind`), so a crash takes both facts back together.
`Witnessed` carries what a check has read so far: the user was allowed when the mode was
open, or when the whitelist was read.

`StartupProofs` proves

* `TheDatabaseIsLocked`: `DatabaseIsLocked`, by `LockInv`: which steps have the lock,
  and that the database is open only at those.
* `ServedSchemasAreWhole`: `ServedSchemaIsWhole`, by `SchemaInv`: the script being run
  has exactly the statements its process counted, which holds because no other process
  has the database (`LockInv`).
* `NoJobIsLaunchedTwice`: `LaunchedOnce`, by `LaunchInv`: a row is queued until it is
  claimed, so the job a process launches is claimed by it alone and has no worker but its
  own.
* `KilledWorkersGetAnOutcome`: `KilledWorkersAreReported`. `RowInv` says who owns a row
  and its worker; `KillInv` accounts for every killed worker: it is still to be killed,
  its pump is still awaited, or its row has ended.

`DeliveryProofs` proves

* `CompletedMeansDelivered`, `OneOutcomeIsTold`: `CompletedWasDelivered`, `OneOutcome`,
  by `ToldInv`, which relates each step of the handler to what the chat has received and
  the row says; its part `Doubt` is about a final message that arrived although its call
  raised.
* `EditsOnlyGoForward`: `EditsGoForward`, by `EditInv`: the reporter's memory is what
  the chat last saw.
* `RequestsGetWhatTheyAskFor`: `ServedAsAsked`; its lemma `SelectIsRight` proves the
  range arithmetic for all sizes and numbers.
* `LinksWork`: `ShortNamesAreServed`, by `RequestInv` and `ToldInv`.

`CommandsProofs` proves

* `CommandsAreUnderstood`: `UnderstoodAsMeant`.

Its first part is about words alone: `DescribedIsRead` says that whatever the help
describes, typed or filled into a form, with a word too many or without, is read as it
was meant, refused, or on Discord possibly taken for a status request. What it rests on is
that the grammar is unambiguous: heads of different actions differ (`HeadsDiffer`,
`AdminReads`), a form admits its required words and one optional one (`Followed`,
`RestFits`), and no id is a keyword (`IdsAssumption`). There is one lemma per command and
platform (`MediaRead`, `HelpRead`, `CancelRead`, `StatusRead`, `TextActionRead`,
`SlashActionRead`). The lemmas hold for any sets of ids, users, durations, sizes,
settings, modes and platforms. Its second part carries the result over the
steps: by `CommandInv`, nothing that was not read as a download has its URL checked.

`DownloadProofs` proves

* `CookiesStayTheOperators`: `CookieFileIsOperators`, by `CookieInv`.
* `HopsAreLookedUp`: `HopsAreChecked`, by `CheckInv`: `TrailAgrees` says how the trail
  ends at each step, and the number of sites asked is the number of redirects and one
  more.
* `TheSessionIsSpared`: `SessionIsSpared`, by `SessionInv` (`SessionStays`): the attempt
  that called for the jar is still the first of `attempts`.
* `OneEndIsTold`: `OneEnding`, by `EndingInv`: the lines in the pipe, the lines heard and
  the worker's step together make one end.
* `FilesAreAsAsked`: `FileIsAsAsked`, by `FileInv`: every file there is, and not only the
  one that is offered, suits the options of the job (`ResultsSuit`: no alternative of the
  format string goes beyond the quality that was asked for, and sound is either converted
  to the bitrate or copied from an entry of the source), and the options are those of
  the command that was meant (`CommandInv`).

TLC checked every property, and both refinements, before their proofs.

## Only model-checked, and why

Every invariant and every action property the passing runs check is stated by a theorem.
Liveness and its fairness are outside the proof system's reach, so
`EverySubmittedJobSettles`, `WaitingStreamsStart`, `CandidatesAreHandled` and `StopEnds`
are checked by TLC alone, on the instances above.

## Not modelled, and why

* Localisation, logging, metrics: wording and output no other part reads.
* `PlaylistOrchestrator`, `write_playlist_zip`, `select_video_format`,
  `decide_source_shape`, `verify_mp4`, `verify_mp3`, the transcoding functions of
  `ffmpeg_engine`, `InProcessWorkerSupervisor`, `retry_pending_deletions`,
  `reconcile_interrupted_job`, `purge_expired`, `increment_token_version`,
  `try_begin_upload`: nothing in the program calls them, so no state of the running
  system depends on them.
* The classification of one address (`domain/network_policy.py`) and of one host name: a
  set and a choice in `Download`, which is about when they are asked, not about address
  ranges.
* The configuration field by field: fields that are checked alike are one field of
  `Valid`.
* Cryptography, yt-dlp, ffprobe, browsers, SQLite and the platforms' servers, which are
  the environment.
