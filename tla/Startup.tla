-------------------------------- MODULE Startup --------------------------------
(***************************************************************************)
(* The life of the process: load the configuration, take the instance      *)
(* lock, migrate the database, test itself, serve, and on a signal kill    *)
(* the workers, close the database and release the lock.  Two processes    *)
(* may be started at once, of different releases, and each may die at any  *)
(* step and be started again.                                              *)
(***************************************************************************)
EXTENDS Integers, Sequences

CONSTANTS
  Instances,    \* processes
  Nobody,       \* not a process
  Jobs, NoJob,
  Configs,      \* configuration files a process may find: see Valid
  Statements,   \* Statements[v]: statements of migration script v
  Releases,     \* a release ships the scripts 1 .. r
  MayFail,      \* whether start-up steps may raise
  MaxStarts,    \* bound on the number of starts
  MaxCrashes    \* bound on the number of crashes

ASSUME StartupAssumption ==
  /\ Nobody \notin Instances /\ NoJob \notin Jobs
  /\ Statements \in Seq(Nat \ {0})
  /\ Releases \subseteq 1 .. Len(Statements)
  /\ MayFail \in BOOLEAN
  /\ MaxStarts \in Nat /\ MaxCrashes \in Nat

------------------------------------------------------------------------------
(* The configuration file (load_static_config).  A value is what TOML makes *)
(* of it: [kind |-> "int" or "bool", n |-> n], or "text", a number with a   *)
(* unit (the empty unit if it has none), or "other".  A table is a function *)
(* from the keys it has.  Sizes are counted in MiB and durations in seconds. *)

MaxDuration == 315360000    \* ten years
MaxBytes    == 10485760     \* ten TiB

DurationUnits == [d |-> 86400, h |-> 3600, m |-> 60, s |-> 1]
SizeUnits     == [MiB |-> 1, GiB |-> 1024, TiB |-> 1048576]

\* parse_duration_seconds and parse_byte_size of a text.
Parsed(v, units)       == v.n * units[v.unit]
ParseOk(v, units, max) == v.unit \in DOMAIN units /\ Parsed(v, units) \in 1 .. max

IsInt(v)   == v.kind = "int"
IsText(v)  == v.kind = "text"
Get(table, key, default) == IF key \in DOMAIN table THEN table[key] ELSE default
Number(n) == [kind |-> "int", n |-> n]

\* _get_int with its default, lowest and highest value.
Bounds == [worker_concurrency |-> <<2, 1, 16>>, progress_interval_seconds |-> <<5, 2, 60>>,
           cancellation_grace_seconds |-> <<10, 1, 60>>,
           cleanup_interval_seconds |-> <<300, 60, 3600>>,
           graceful_shutdown_seconds |-> <<30, 10, 300>>, recent_jobs_limit |-> <<10, 1, 50>>,
           terminal_tombstone_seconds |-> <<3600, 60, 86400>>, bind_port |-> <<8080, 1, 65535>>,
           max_concurrent_streams |-> <<8, 1, 256>>, stream_chunk_bytes |-> <<1048576, 4096, 16777216>>,
           stream_idle_timeout_seconds |-> <<60, 5, 600>>, max_redirects |-> <<10, 0, 20>>,
           dns_timeout_seconds |-> <<5, 1, 60>>, request_timeout_seconds |-> <<30, 1, 300>>,
           network_attempts |-> <<3, 1, 10>>, worker_heartbeat_seconds |-> <<15, 5, 120>>,
           worker_stall_timeout_seconds |-> <<90, 30, 600>>,
           recommended_retention_days |-> <<14, 1, 365>>]

GetInt(table, key) ==
  LET v == Get(table, key, Number(Bounds[key][1]))
  IN IsInt(v) /\ v.n \in Bounds[key][2] .. Bounds[key][3]

AppInts  == {"worker_concurrency", "progress_interval_seconds", "cancellation_grace_seconds",
             "cleanup_interval_seconds", "graceful_shutdown_seconds", "recent_jobs_limit",
             "terminal_tombstone_seconds"}
HttpInts == {"bind_port", "max_concurrent_streams", "stream_chunk_bytes",
             "stream_idle_timeout_seconds"}
NetworkInts == {"max_redirects", "dns_timeout_seconds", "request_timeout_seconds"}
MediaInts   == {"network_attempts", "worker_heartbeat_seconds", "worker_stall_timeout_seconds"}

\* default_secret_reader: env:NAME or file:/path; a secret has some bytes.
NoRef == [scheme |-> "none", bytes |-> 0, exposed |-> FALSE, absolute |-> FALSE]
Secret(ref) == /\ ref.scheme \in {"env", "file"}
               /\ ref.bytes > 0
               /\ ref.scheme = "file" => ~ref.exposed

\* resolve_secret_file_path
SecretFile(ref) == ref.scheme = "file" /\ ref.absolute /\ ref.bytes > 0 /\ ~ref.exposed

AppOk(c) == /\ "app" \notin c.unknown
            /\ \A k \in AppInts : GetInt(c.app, k)
            /\ c.locale = "zh-TW"

\* The upload limit: 0 is a limit.
Limit(p) == IF IsText(p.limit) THEN ParseOk(p.limit, SizeUnits, MaxBytes)
            ELSE IsInt(p.limit) /\ p.limit.n >= 0

Enabled(c) == {p \in DOMAIN c.platforms : c.platforms[p].enabled}

PlatformsOk(c) ==
  /\ "platforms" \notin c.unknown
  /\ \A p \in DOMAIN c.platforms : Limit(c.platforms[p])
  /\ \A p \in Enabled(c) : Secret(c.platforms[p].token)
  /\ Enabled(c) # {}

\* validate_path_separation: a path is the sequence of its names.
Within(path, dir) == Len(dir) <= Len(path) /\ SubSeq(path, 1, Len(dir)) = dir
Separate(c) ==
  LET dir == SubSeq(c.file, 1, Len(c.file) - 1)
  IN /\ c.root # <<>> /\ c.database # <<>>
     /\ ~Within(c.database, c.root)
     /\ ~Within(c.root, dir)
     /\ ~(Within(c.database, dir) /\ c.database # dir)

\* _bytes_field: as a number it may be 0 and has no upper bound, as a text it has both.
BytesField(v) == IF IsText(v) THEN ParseOk(v, SizeUnits, MaxBytes)
                 ELSE IsInt(v) /\ v.n >= 0

StorageOk(c) ==
  /\ "storage" \notin c.unknown
  /\ "capacity_bytes" \in DOMAIN c.storage
  /\ LET v == c.storage["capacity_bytes"]
     IN \/ IsInt(v) /\ v.n \in 100 .. MaxBytes
        \/ IsText(v) /\ ParseOk(v, SizeUnits, MaxBytes) /\ Parsed(v, SizeUnits) >= 100
  /\ \A k \in DOMAIN c.storage \ {"capacity_bytes"} : BytesField(c.storage[k])
  /\ Separate(c)

\* Both durations of artifacts: the upper bound is that of texts only.
Lifetime(v) == IF IsText(v)
               THEN ParseOk(v, DurationUnits, MaxDuration) /\ Parsed(v, DurationUnits) >= 60
               ELSE v.kind \in {"int", "bool"} /\ v.n >= 60

\* canonicalize_public_base_url
UrlOk(u) == u.scheme = "https" /\ u.host /\ ~u.userinfo /\ ~u.query

ArtifactsOk(c) ==
  /\ "artifacts" \notin c.unknown
  /\ \A k \in {"retention_seconds", "link_expiry_seconds"} \cap DOMAIN c.artifacts :
       Lifetime(c.artifacts[k])
  /\ UrlOk(c.url)
  /\ Secret(c.signing) /\ c.signing.bytes >= 32

HttpOk(c)    == \A k \in HttpInts : GetInt(c.http, k)
NetworkOk(c) == /\ c.proxy # NoRef => Secret(c.proxy)
                /\ \A k \in NetworkInts : GetInt(c.network, k)

Qualities == {"best", "2160p", "1440p", "1080p", "720p", "480p", "360p"}
Bitrates  == {"128k", "192k", "256k", "320k"}
MediaOk(c) ==
  /\ c.cookie # NoRef => SecretFile(c.cookie)
  /\ c.qualities \subseteq Qualities /\ c.bitrates \subseteq Bitrates
  /\ \A k \in MediaInts : GetInt(c.media, k)

\* The platform of an identity of the whitelist is not looked at.
AccessOk(c) ==
  /\ c.mode \in {"allow_all", "whitelist"}
  /\ \A a \in c.administrators \cup c.whitelist : a.id # "malformed"
  /\ \A a \in c.administrators : a.platform \in Enabled(c)

LoggingOk(c) == GetInt(c.logging, "recommended_retention_days") /\ c.format \in {"json", "text"}

Valid(c) == /\ "root" \notin c.unknown
            /\ AppOk(c) /\ PlatformsOk(c) /\ StorageOk(c) /\ ArtifactsOk(c) /\ HttpOk(c)
            /\ NetworkOk(c) /\ MediaOk(c) /\ AccessOk(c) /\ LoggingOk(c)


------------------------------------------------------------------------------
(* State.                                                                   *)

VARIABLES
  pc,         \* of each process, the step it is at
  conf,       \* what it loaded: enabled platforms, release
  script,     \* the migration script it runs and the next statement in it
  ready,      \* whether all its readiness flags are set
  admission,  \* CommandService.admission_open
  polling,    \* platforms whose polling task runs
  handler,    \* whose signal handler is installed
  accepted,   \* jobs whose submission passed the admission check and goes on
  launching,  \* the job its dispatcher has claimed
  kill,       \* workers shutdown still has to kill
  awaited,    \* workers whose pump shutdown waits for
  lock,       \* who holds instance.lock
  conns,      \* processes with the database open
  schema,     \* schema[v]: statements of script v that were executed
  recorded,   \* versions in schema_migrations
  row,        \* the job rows
  worker,     \* who started a job's worker, its status, whether shutdown killed it
  starts, crashes

flags  == <<ready, admission, polling, handler>>
duties == <<accepted, launching, kill, awaited>>
local  == <<conf, script, flags, duties>>
tables == <<schema, recorded>>
shared == <<lock, conns, tables, row, worker>>
counts == <<starts, crashes>>
vars   == <<pc, local, shared, counts>>

Versions == 1 .. Len(Statements)
NoConf   == [platforms |-> {}, release |-> 0]
NoScript == [version |-> 0, pos |-> 0]
NoWorker == [owner |-> Nobody, status |-> "none", killed |-> FALSE]

StartingUp == {"lock", "open", "check", "script", "record", "probe"}
Stopping   == {"stopping", "unbound", "killing", "gathering", "closing", "releasing", "exiting"}
\* The event loop runs the dispatcher and the platform tasks until they are cancelled.
Looping    == {"serving", "stopping", "unbound", "killing", "gathering"}
Alive      == Looping \cup {"closing", "releasing", "exiting"}

Goto(i, next) == pc' = [pc EXCEPT ![i] = next]

\* Worker j of process i has a pump, or is at least among the processes shutdown knows.
Pumped(i, j) == worker[j].owner = i /\ worker[j].status \in {"running", "exited"}
Known(i, j)  == Pumped(i, j) \/ (worker[j].owner = i /\ worker[j].status = "starting")
Outlived(i) == [j \in Jobs |-> IF worker[j].owner = i THEN [worker[j] EXCEPT !.owner = Nobody]
                               ELSE worker[j]]

\* The process is no more: its memory is lost, its lock and connection are closed,
\* and its workers, which have sessions of their own, run on.
Ends(i) ==
  /\ Goto(i, "off")
  /\ conf' = [conf EXCEPT ![i] = NoConf]
  /\ script' = [script EXCEPT ![i] = NoScript]
  /\ ready' = [ready EXCEPT ![i] = FALSE]
  /\ admission' = [admission EXCEPT ![i] = FALSE]
  /\ polling' = [polling EXCEPT ![i] = {}]
  /\ handler' = [handler EXCEPT ![i] = "default"]
  /\ accepted' = [accepted EXCEPT ![i] = {}]
  /\ launching' = [launching EXCEPT ![i] = NoJob]
  /\ kill' = [kill EXCEPT ![i] = {}]
  /\ awaited' = [awaited EXCEPT ![i] = {}]
  /\ lock' = IF lock = i THEN Nobody ELSE lock
  /\ conns' = conns \ {i}
  /\ worker' = Outlived(i)
  /\ UNCHANGED <<tables, row>>

------------------------------------------------------------------------------
(* bootstrap.                                                               *)

\* An invalid file ends the process before it touched anything.
LoadConfig(i) ==
  /\ pc[i] = "off"
  /\ starts < MaxStarts /\ starts' = starts + 1
  /\ \E c \in {c \in Configs : Valid(c)}, r \in Releases :
       conf' = [conf EXCEPT ![i] = [platforms |-> Enabled(c), release |-> r]]
  /\ Goto(i, "lock")
  /\ UNCHANGED <<script, flags, duties, shared, crashes>>

\* LOCK_EX | LOCK_NB: whoever does not get it at once gives up.
AcquireLock(i) ==
  /\ pc[i] = "lock"
  /\ lock = Nobody
  /\ lock' = i
  /\ Goto(i, "open")
  /\ UNCHANGED <<local, conns, tables, row, worker, counts>>

LockRefused(i) ==
  /\ pc[i] = "lock"
  /\ lock # Nobody
  /\ Ends(i)
  /\ UNCHANGED <<counts>>

OpenDatabase(i) ==
  /\ pc[i] = "open"
  /\ conns' = conns \cup {i}
  /\ Goto(i, "check")
  /\ UNCHANGED <<local, lock, tables, row, worker, counts>>

Pending(i) == {v \in 1 .. conf[i].release : v \notin recorded}
NextScript(i, done) ==
  LET left == Pending(i) \ done
  IN IF left = {} THEN Goto(i, "probe") /\ script' = [script EXCEPT ![i] = NoScript]
     ELSE /\ Goto(i, "script")
          /\ script' = [script EXCEPT ![i] =
               [version |-> CHOOSE v \in left : \A w \in left : v <= w, pos |-> 1]]

\* Mutant: a newer database is used as it is.
CheckNothing(i) ==
  /\ pc[i] = "check"
  /\ NextScript(i, {})
  /\ UNCHANGED <<conf, flags, duties, shared, counts>>

\* The recorded versions against the packaged ones: a newer database is refused.
CheckVersions(i) ==
  /\ pc[i] = "check"
  /\ IF recorded \subseteq 1 .. conf[i].release THEN NextScript(i, {})
     ELSE Goto(i, "failed") /\ UNCHANGED script
  /\ UNCHANGED <<conf, flags, duties, shared, counts>>

\* executescript commits each statement; a table that exists already is an error.
RunStatement(i) ==
  LET v == script[i].version
      n == script[i].pos
  IN /\ pc[i] = "script"
     /\ IF schema[v] >= n THEN Goto(i, "failed") /\ UNCHANGED <<script, schema>>
        ELSE /\ schema' = [schema EXCEPT ![v] = n]
             /\ script' = [script EXCEPT ![i].pos = n + 1]
             /\ Goto(i, IF n = Statements[v] THEN "record" ELSE "script")
     /\ UNCHANGED <<conf, flags, duties, lock, conns, recorded, row, worker, counts>>

\* The row of schema_migrations is inserted and committed after the script.
RecordMigration(i) ==
  /\ pc[i] = "record"
  /\ recorded' = recorded \cup {script[i].version}
  /\ NextScript(i, {script[i].version})
  /\ UNCHANGED <<conf, flags, duties, lock, conns, schema, row, worker, counts>>

\* The self-tests of storage and egress; the services are built, the tasks started and the
\* signals handled whatever they find.
SelfTest(i) ==
  /\ pc[i] = "probe"
  /\ \E ok \in BOOLEAN :
       /\ ready' = [ready EXCEPT ![i] = ok]
       /\ admission' = [admission EXCEPT ![i] = ok]
  /\ polling' = [polling EXCEPT ![i] = conf[i].platforms]
  /\ handler' = [handler EXCEPT ![i] = "main"]
  /\ Goto(i, "serving")
  /\ UNCHANGED <<conf, script, duties, shared, counts>>

\* A step raises.  The process ends when the thread of its connection lets it: until
\* then it holds what it holds.
StartupFails(i) ==
  /\ MayFail
  /\ pc[i] \in StartingUp \ {"lock"}
  /\ Goto(i, "failed")
  /\ UNCHANGED <<local, shared, counts>>

FailedEnds(i) == pc[i] = "failed" /\ Ends(i) /\ UNCHANGED <<counts>>

Crash(i) ==
  /\ crashes < MaxCrashes /\ crashes' = crashes + 1
  /\ pc[i] # "off"
  /\ Ends(i)
  /\ UNCHANGED starts

------------------------------------------------------------------------------
(* Serving.                                                                 *)

\* Once Telegram's commands are registered, aiogram polls and handles the signals itself.
TakeSignals(i) ==
  /\ pc[i] \in Looping /\ "telegram" \in polling[i]
  /\ handler[i] = "main"
  /\ handler' = [handler EXCEPT ![i] = "aiogram"]
  /\ UNCHANGED <<pc, conf, script, ready, admission, polling, duties, shared, counts>>

Unpolled(i, p) ==
  /\ pc[i] \in Looping /\ p \in polling[i]
  /\ polling' = [polling EXCEPT ![i] = @ \ {p}]
  /\ UNCHANGED <<pc, conf, script, ready, admission, handler, duties, shared, counts>>

\* A bad token, a login that fails: the task ends, and nobody looks at it.
PlatformEnds(i, p) == MayFail /\ Unpolled(i, p)

\* CommandService.handle looks at the flag once.
Admit(i, j) ==
  /\ pc[i] \in Looping /\ polling[i] # {} /\ admission[i]
  /\ row[j] = "absent" /\ \A k \in Instances : j \notin accepted[k]
  /\ accepted' = [accepted EXCEPT ![i] = @ \cup {j}]
  /\ UNCHANGED <<pc, conf, script, flags, launching, kill, awaited, shared, counts>>

\* The insertion, some awaits later; without a connection it raises.
Insert(i, j) ==
  /\ j \in accepted[i]
  /\ row' = IF i \in conns THEN [row EXCEPT ![j] = "queued"] ELSE row
  /\ accepted' = [accepted EXCEPT ![i] = @ \ {j}]
  /\ UNCHANGED <<pc, conf, script, flags, launching, kill, awaited, lock, conns, tables, worker, counts>>

\* Mutant: what an earlier process left active is taken up again.
ClaimAgain(i, j) ==
  /\ pc[i] \in Looping /\ launching[i] = NoJob
  /\ row[j] \in {"queued", "active"}
  /\ row' = [row EXCEPT ![j] = "active"]
  /\ launching' = [launching EXCEPT ![i] = j]
  /\ UNCHANGED <<pc, conf, script, flags, accepted, kill, awaited, lock, conns, tables, worker, counts>>

\* The dispatcher does not look at the flag: it goes on until it is cancelled.
Claim(i, j) ==
  /\ pc[i] \in Looping /\ launching[i] = NoJob
  /\ row[j] = "queued"
  /\ row' = [row EXCEPT ![j] = "active"]
  /\ launching' = [launching EXCEPT ![i] = j]
  /\ UNCHANGED <<pc, conf, script, flags, accepted, kill, awaited, lock, conns, tables, worker, counts>>

Spawn(i) ==
  /\ pc[i] \in Looping /\ launching[i] # NoJob /\ worker[launching[i]] = NoWorker
  /\ worker' = [worker EXCEPT ![launching[i]] =
                  [owner |-> i, status |-> "starting", killed |-> FALSE]]
  /\ UNCHANGED <<pc, local, lock, conns, tables, row, counts>>

\* The request is written to the worker, some awaits later, and the pump started.  If the
\* worker was killed meanwhile the write may raise, which ends the dispatcher for good.
StartPump(i) ==
  LET j == launching[i]
  IN /\ pc[i] \in Looping /\ j # NoJob
     /\ \/ /\ worker[j].status = "starting"
           /\ worker' = [worker EXCEPT ![j].status = "running"]
           /\ launching' = [launching EXCEPT ![i] = NoJob]
        \/ /\ worker[j].status = "stillborn"
           /\ worker' = [worker EXCEPT ![j].status = "exited"]
           /\ launching' = [launching EXCEPT ![i] = NoJob]
        \/ /\ worker[j].status = "stillborn"
           /\ worker' = [worker EXCEPT ![j].status = "unread"]
           /\ UNCHANGED launching
     /\ UNCHANGED <<pc, conf, script, flags, accepted, kill, awaited, lock, conns, tables, row,
                    counts>>

WorkerExits(j) ==
  /\ worker[j].status = "running"
  /\ worker' = [worker EXCEPT ![j].status = "exited"]
  /\ UNCHANGED <<pc, local, lock, conns, tables, row, counts>>

\* The pump hands over the end of a worker, or makes one up if the worker had none.
Pump(i, j) ==
  /\ pc[i] \in Alive
  /\ worker[j].owner = i /\ worker[j].status = "exited"
  /\ worker' = [worker EXCEPT ![j].status = "reported"]
  /\ row' = IF i \in conns THEN [row EXCEPT ![j] = "ended"] ELSE row
  /\ awaited' = [awaited EXCEPT ![i] = @ \ {j}]
  /\ UNCHANGED <<pc, conf, script, flags, accepted, launching, kill, lock, conns, tables, counts>>

------------------------------------------------------------------------------
(* The end: _signal_handler, then shutdown_runtime.                         *)

Signal(i) ==
  /\ pc[i] = "serving" /\ handler[i] = "main"
  /\ Goto(i, "stopping")
  /\ ready' = [ready EXCEPT ![i] = FALSE]
  /\ admission' = [admission EXCEPT ![i] = FALSE]
  /\ UNCHANGED <<conf, script, polling, handler, duties, shared, counts>>

\* aiogram's handler ends its polling and nothing else; once it does not poll it does nothing.
SignalStopsPolling(i) == handler[i] = "aiogram" /\ Unpolled(i, "telegram")

\* The port of the site is taken.
SiteFails(i) ==
  /\ MayFail
  /\ pc[i] = "serving"
  /\ Goto(i, "unbound")
  /\ UNCHANGED <<local, shared, counts>>

\* Mutant: no finally around site.start().
BeginOnSignal(i) ==
  /\ pc[i] = "stopping"
  /\ ready' = [ready EXCEPT ![i] = FALSE]
  /\ admission' = [admission EXCEPT ![i] = FALSE]
  /\ kill' = [kill EXCEPT ![i] = {j \in Jobs : Known(i, j)}]
  /\ Goto(i, "killing")
  /\ UNCHANGED <<conf, script, polling, handler, accepted, launching, awaited, shared, counts>>

\* shutdown takes the workers there are now; more may be started while it kills them.
BeginShutdown(i) ==
  /\ pc[i] \in {"stopping", "unbound"}
  /\ ready' = [ready EXCEPT ![i] = FALSE]
  /\ admission' = [admission EXCEPT ![i] = FALSE]
  /\ kill' = [kill EXCEPT ![i] = {j \in Jobs : Known(i, j)}]
  /\ Goto(i, "killing")
  /\ UNCHANGED <<conf, script, polling, handler, accepted, launching, awaited, shared, counts>>

\* force_terminate: SIGKILL, if the worker still runs.
Kill(i) ==
  /\ pc[i] = "killing"
  /\ \E j \in kill[i] :
       /\ kill' = [kill EXCEPT ![i] = @ \ {j}]
       /\ worker' = CASE worker[j].status = "running" ->
                           [worker EXCEPT ![j].status = "exited", ![j].killed = TRUE]
                      [] worker[j].status = "starting" ->
                           [worker EXCEPT ![j].status = "stillborn"]
                      [] OTHER -> worker
  /\ UNCHANGED <<pc, conf, script, flags, accepted, launching, awaited, lock, conns, tables, row, counts>>

\* Mutant: the pumps are not waited for.
GatherNothing(i) ==
  /\ pc[i] = "killing" /\ kill[i] = {}
  /\ Goto(i, "gathering")
  /\ UNCHANGED <<local, shared, counts>>

\* gather takes the pumps there are after the last kill.
Gather(i) ==
  /\ pc[i] = "killing" /\ kill[i] = {}
  /\ awaited' = [awaited EXCEPT ![i] = {j \in Jobs : Pumped(i, j)}]
  /\ Goto(i, "gathering")
  /\ UNCHANGED <<conf, script, flags, accepted, launching, kill, shared, counts>>

\* Platform tasks, dispatcher and cleanup loop are cancelled; a job in the middle of its
\* launch stays as it is.
CancelTasks(i) ==
  /\ pc[i] = "gathering" /\ awaited[i] = {}
  /\ polling' = [polling EXCEPT ![i] = {}]
  /\ launching' = [launching EXCEPT ![i] = NoJob]
  /\ Goto(i, "closing")
  /\ UNCHANGED <<conf, script, ready, admission, handler, accepted, kill, awaited, shared, counts>>

\* Mutant: the lock is released first.
CloseUnlocked(i) ==
  /\ pc[i] = "closing"
  /\ lock' = Nobody
  /\ Goto(i, "releasing")
  /\ UNCHANGED <<local, conns, tables, row, worker, counts>>

CloseDatabase(i) ==
  /\ pc[i] = "closing"
  /\ conns' = conns \ {i}
  /\ Goto(i, "releasing")
  /\ UNCHANGED <<local, lock, tables, row, worker, counts>>

ReleaseLock(i) ==
  /\ pc[i] = "releasing"
  /\ lock' = Nobody
  /\ Goto(i, "exiting")
  /\ UNCHANGED <<local, conns, tables, row, worker, counts>>

Exit(i) == pc[i] = "exiting" /\ Ends(i) /\ UNCHANGED <<counts>>

------------------------------------------------------------------------------

Init ==
  /\ pc = [i \in Instances |-> "off"]
  /\ conf = [i \in Instances |-> NoConf]
  /\ script = [i \in Instances |-> NoScript]
  /\ ready = [i \in Instances |-> FALSE]
  /\ admission = [i \in Instances |-> FALSE]
  /\ polling = [i \in Instances |-> {}]
  /\ handler = [i \in Instances |-> "default"]
  /\ accepted = [i \in Instances |-> {}]
  /\ launching = [i \in Instances |-> NoJob]
  /\ kill = [i \in Instances |-> {}]
  /\ awaited = [i \in Instances |-> {}]
  /\ lock = Nobody
  /\ conns = {}
  /\ schema = [v \in Versions |-> 0]
  /\ recorded = {}
  /\ row = [j \in Jobs |-> "absent"]
  /\ worker = [j \in Jobs |-> NoWorker]
  /\ starts = 0 /\ crashes = 0

Bootstrap(i) ==
  \/ LoadConfig(i) \/ AcquireLock(i) \/ LockRefused(i) \/ OpenDatabase(i) \/ CheckVersions(i)
  \/ RunStatement(i) \/ RecordMigration(i) \/ SelfTest(i) \/ StartupFails(i) \/ FailedEnds(i)

Platform(i) == \/ TakeSignals(i) \/ SignalStopsPolling(i)
               \/ \E p \in polling[i] : PlatformEnds(i, p)

Serve(i) == \/ Spawn(i) \/ StartPump(i) \/ Platform(i)
            \/ \E j \in Jobs : Admit(i, j) \/ Insert(i, j) \/ Claim(i, j) \/ Pump(i, j)

Shutdown(i) == \/ BeginShutdown(i) \/ Kill(i) \/ Gather(i) \/ CancelTasks(i)
               \/ CloseDatabase(i) \/ ReleaseLock(i) \/ Exit(i)

Next == \/ \E i \in Instances : \/ Bootstrap(i) \/ Serve(i) \/ Signal(i) \/ SiteFails(i)
                                \/ Shutdown(i) \/ Crash(i)
        \/ \E j \in Jobs : WorkerExits(j)

Spec == Init /\ [][Next]_vars

\* The event loop runs shutdown and the pumps; workers end.
FairSpec == /\ Spec
            /\ \A i \in Instances : /\ WF_vars(Shutdown(i))
                                    /\ \A j \in Jobs : WF_vars(Pump(i, j))
            /\ \A j \in Jobs : WF_vars(WorkerExits(j))

------------------------------------------------------------------------------
(* Properties.                                                              *)

\* Whoever has the database open holds the lock, so no two processes run scripts or
\* claim jobs at once, also while one of them fails, shuts down or lingers.
DatabaseIsLocked == \A i \in conns : lock = i

\* A recorded migration ran to its end, and a process serves only on the whole schema of
\* its release, whatever earlier processes left half done.
ServedSchemaIsWhole ==
  LET Whole(v) == schema[v] = Statements[v]
  IN /\ \A v \in recorded : Whole(v)
     /\ \A i \in Instances : pc[i] \in Looping =>
          recorded = 1 .. conf[i].release /\ \A v \in 1 .. conf[i].release : Whole(v)

\* A job is launched by one process, once: nobody launches what another process, even one
\* that ended or died, has already launched, and whose worker may run on.
LaunchedOnce ==
  \A i \in Instances : launching[i] # NoJob =>
    /\ \A k \in Instances \ {i} : launching[k] # launching[i]
    /\ worker[launching[i]] = NoWorker \/ worker[launching[i]].owner = i

\* When shutdown closes the database, every job whose worker it killed has an outcome,
\* unless the worker was killed before its pump was started.
KilledWorkersAreReported ==
  \A i \in Instances : pc[i] \in {"releasing", "exiting"} =>
    \A j \in Jobs : worker[j].owner = i /\ worker[j].killed => row[j] = "ended"

\* Once main's own handler took a signal, or the site failed, a process ends, unless a worker
\* launched during the shutdown does not.  A signal that Telegram's polling takes ends nothing.
StopEnds == \A i \in Instances : pc[i] \in {"stopping", "unbound"} ~> pc[i] = "off"
================================================================================
